--------------------------- MODULE ActiveBotProofs ---------------------------
(***************************************************************************)
(* Proofs about ActiveBot, for every set of bots, services and flows: its  *)
(* types, that of overlapping switches the last to begin is the one whose  *)
(* bot file is watched in the end, that both stores end with the same bot, *)
(* and that no added service is lost but to a reload that overlooks it.    *)
(***************************************************************************)
EXTENDS ActiveBot, TLAPS

-----------------------------------------------------------------------------
(***************************************************************************)
(* The messages of the flows.  A flow has at most one on its way, which    *)
(* fits the await it is at: that is why no answer is taken for another.    *)
(* The operators take the flows, the channel to main and the one to the    *)
(* client, of a state, of the next one, or of what is between the two.     *)
(***************************************************************************)
OfFlow == {"clear", "paths", "told", "load", "reply"}
MainMessage == [what : {"call", "reply", "sync"}, flow : Ops]
ClientMessage ==
  [what : {"active"}, val : {v \in BotValue : v.path \in Bots}] \cup [what : {"closed"}]
    \cup [what : {"recents"}, list : SUBSET Bots] \cup [what : OfFlow, flow : Ops]

AtCall ==
  {"open", "user", "set", "close", "add", "remove", "save", "create", "forget", "menus"}
\* The awaits of the user, of ngrok and of files.
ByItself == {"idle", "confirm", "loading", "retrying", "read", "prompt", "tunnel", "saving"}
FitsMain(o, m) ==
  /\ m.what = "call" => o[m.flow].pc \in AtCall
  /\ m.what = "reply" => o[m.flow].pc \in {"clearing", "updating", "telling"}
  /\ m.what = "sync" => o[m.flow].pc \in {"echo", "wasSet", "closed"}
FitsClient(o, m) ==
  /\ m.what = "clear" => o[m.flow].pc = "clearing"
  /\ m.what = "paths" => o[m.flow].pc = "updating"
  /\ m.what = "told" => o[m.flow].pc = "telling"
  /\ m.what = "load" => o[m.flow].pc = "load"
  /\ m.what = "reply" => o[m.flow].pc \in {"opened", "userSet", "wasSet", "closed", "shown", "ended"}

\* No message of flow i is on its way.
Unaddressed(i, tm, tc) ==
  /\ \A n \in 1..Len(tm) : tm[n].flow # i
  /\ \A n \in 1..Len(tc) : tc[n].what \in OfFlow => tc[n].flow # i

Linked(o, tm, tc) ==
  /\ \A n \in 1..Len(tm) : FitsMain(o, tm[n])
  /\ \A n \in 1..Len(tc) : FitsClient(o, tc[n])
  /\ \A n, k \in 1..Len(tm) : tm[n].flow = tm[k].flow => n = k
  /\ \A n, k \in 1..Len(tc) :
       tc[n].what \in OfFlow /\ tc[k].what \in OfFlow /\ tc[n].flow = tc[k].flow => n = k
  /\ \A n \in 1..Len(tm), k \in 1..Len(tc) : tc[k].what \in OfFlow => tm[n].flow # tc[k].flow

\* The calls of File.Clear go to the client and their answers come back in the order of
\* the setActiveBot()s that await them: the last of them is that of botFilePath.
Clears(o, m) == o[m.flow].pc = "clearing"
Ordered(o, path, tm, tc) ==
  /\ \A i \in Ops : o[i].pc = "clearing" =>
       \/ \E n \in 1..Len(tm) : tm[n].flow = i
       \/ \E n \in 1..Len(tc) : tc[n].what = "clear" /\ tc[n].flow = i
  /\ \A n \in 1..Len(tc) :
       tc[n].what = "clear" /\ (\A k \in 1..Len(tc) : k > n => tc[k].what # "clear")
         => o[tc[n].flow].val.path = path
  /\ (\A k \in 1..Len(tc) : tc[k].what # "clear") =>
       \A n \in 1..Len(tm) :
         Clears(o, tm[n]) /\ (\A k \in 1..Len(tm) : k > n => ~Clears(o, tm[k]))
           => o[tm[n].flow].val.path = path

Link(o, path, tm, tc) == Linked(o, tm, tc) /\ Ordered(o, path, tm, tc)
Flows == [Ops -> OpType]

\* What a sequence is after an Append.
LEMMA AppendAt ==
  ASSUME NEW S, NEW s \in Seq(S), NEW x \in S
  PROVE  /\ Append(s, x) \in Seq(S) /\ Len(Append(s, x)) = Len(s) + 1 /\ Len(s) \in Nat
         /\ \A n \in 1..Len(s) : Append(s, x)[n] = s[n]
         /\ Append(s, x)[Len(s) + 1] = x
OBVIOUS

\* What a sequence is after its head is taken.
LEMMA TailAt ==
  ASSUME NEW S, NEW s \in Seq(S), s # <<>>
  PROVE  /\ Tail(s) \in Seq(S) /\ Len(s) = Len(Tail(s)) + 1 /\ Len(Tail(s)) \in Nat
         /\ \A n \in 1..Len(Tail(s)) : Tail(s)[n] = s[n + 1] /\ n + 1 \in 1..Len(s)
         /\ \A n \in 1..Len(s) : n = 1 \/ (n - 1 \in 1..Len(Tail(s)) /\ Tail(s)[n - 1] = s[n])
         /\ Head(s) \in S /\ Head(s) = s[1] /\ 1 \in 1..Len(s)
OBVIOUS

\* A message of a flow, and one that is not.
LEMMA MessageTypes ==
  /\ \A m \in MainMessage : m.flow \in Ops /\ m.what \in {"call", "reply", "sync"}
  /\ \A m \in ClientMessage :
       /\ m.what \in OfFlow => m.flow \in Ops
       /\ m.what \in OfFlow \cup {"active", "closed", "recents"}
       /\ m.what = "active" => m.val \in BotValue /\ m.val.path \in Bots
       /\ m.what = "recents" => m.list \subseteq Bots
BY DEF MainMessage, ClientMessage, OfFlow

\* A flow at none of the awaits of another process has no message.
LEMMA Alone ==
  ASSUME NEW o \in Flows, NEW tm \in Seq(MainMessage), NEW tc \in Seq(ClientMessage),
         Linked(o, tm, tc), NEW i \in Ops,
         o[i].pc \in ByItself
  PROVE  Unaddressed(i, tm, tc)
<1>1. ASSUME NEW n \in 1..Len(tm) PROVE tm[n].flow # i
  <2>1. tm[n] \in MainMessage /\ FitsMain(o, tm[n])
    BY DEF Linked
  <2> QED
    BY <2>1, MessageTypes DEF FitsMain, AtCall, ByItself
<1>2. ASSUME NEW n \in 1..Len(tc), tc[n].what \in OfFlow PROVE tc[n].flow # i
  <2>1. tc[n] \in ClientMessage /\ FitsClient(o, tc[n])
    BY DEF Linked
  <2> QED
    BY <1>2, <2>1 DEF FitsClient, OfFlow, ByItself
<1> QED
  BY <1>1, <1>2 DEF Unaddressed

\* A flow without a message goes on by itself.
LEMMA GoesOn ==
  ASSUME NEW o \in Flows, NEW tm \in Seq(MainMessage), NEW tc \in Seq(ClientMessage),
         NEW path, Link(o, path, tm, tc), NEW i \in Ops, Unaddressed(i, tm, tc),
         NEW x, x.pc # "clearing"
  PROVE  Link([o EXCEPT ![i] = x], path, tm, tc)
<1> DEFINE p == [o EXCEPT ![i] = x]
<1>1. p[i] = x /\ \A j \in Ops : j # i => p[j] = o[j]
  BY DEF Flows
<1>2. \A n \in 1..Len(tm) : tm[n].flow \in Ops /\ p[tm[n].flow] = o[tm[n].flow]
  BY <1>1, MessageTypes DEF Unaddressed
<1>3. \A n \in 1..Len(tc) : tc[n].what \in OfFlow => p[tc[n].flow] = o[tc[n].flow]
  BY <1>1, MessageTypes DEF Unaddressed
<1> HIDE DEF p
<1>4. Linked(p, tm, tc)
  <2>1. \A n \in 1..Len(tm) : FitsMain(p, tm[n])
    BY <1>2 DEF Link, Linked, FitsMain
  <2>2. \A n \in 1..Len(tc) : FitsClient(p, tc[n])
    BY <1>3 DEF Link, Linked, FitsClient, OfFlow
  <2> QED
    BY <2>1, <2>2 DEF Link, Linked
<1>5. Ordered(p, path, tm, tc)
  <2>1. \A n \in 1..Len(tm) : Clears(p, tm[n]) <=> Clears(o, tm[n])
    BY <1>2 DEF Clears
  <2>2. \A n \in 1..Len(tc) : tc[n].what = "clear" => p[tc[n].flow] = o[tc[n].flow]
    BY <1>3 DEF OfFlow
  <2> QED
    BY <1>1, <1>2, <2>1, <2>2, SMTT(30) DEF Link, Ordered
<1> QED
  BY <1>4, <1>5 DEF Link, p

\* Main takes the message of a flow, which goes on.
LEMMA TakenByMain ==
  ASSUME NEW o \in Flows, NEW tm \in Seq(MainMessage), NEW tc \in Seq(ClientMessage),
         NEW path, Link(o, path, tm, tc), tm # <<>>, NEW i \in Ops, Head(tm).flow = i,
         NEW x, x.pc # "clearing"
  PROVE  /\ Link([o EXCEPT ![i] = x], path, Tail(tm), tc)
         /\ Unaddressed(i, Tail(tm), tc)
<1> DEFINE p == [o EXCEPT ![i] = x]
           t == Tail(tm)
<1>1. p[i] = x /\ \A j \in Ops : j # i => p[j] = o[j]
  BY DEF Flows
<1>2. /\ Len(tm) = Len(t) + 1 /\ Len(t) \in Nat
      /\ \A n \in 1..Len(t) : t[n] = tm[n + 1] /\ n + 1 \in 1..Len(tm) /\ n + 1 # 1
      /\ \A n \in 1..Len(tm) : n = 1 \/ (n - 1 \in 1..Len(t) /\ t[n - 1] = tm[n])
      /\ tm[1].flow = i /\ 1 \in 1..Len(tm)
  BY TailAt
<1>3. \A n \in 1..Len(tm) : tm[n].flow \in Ops
  BY MessageTypes
<1> HIDE DEF p, t
<1>4. Unaddressed(i, t, tc)
  <2>1. ASSUME NEW n \in 1..Len(t), t[n].flow = i PROVE FALSE
    <3>1. n + 1 \in 1..Len(tm) /\ tm[n + 1].flow = tm[1].flow /\ n + 1 # 1
      BY <1>2, <2>1
    <3> QED
      BY <1>2, <3>1 DEF Link, Linked
  <2>2. \A n \in 1..Len(tc) : tc[n].what \in OfFlow => tc[n].flow # i
    BY <1>2 DEF Link, Linked
  <2> QED
    BY <2>1, <2>2 DEF Unaddressed
<1>5. \A n \in 1..Len(t) : t[n].flow \in Ops /\ p[t[n].flow] = o[t[n].flow]
  BY <1>1, <1>2, <1>3, <1>4 DEF Unaddressed
<1>6. \A n \in 1..Len(tc) : tc[n].what \in OfFlow => p[tc[n].flow] = o[tc[n].flow]
  BY <1>1, <1>4, MessageTypes DEF Unaddressed
<1>7. Linked(p, t, tc)
  <2>1. ASSUME NEW n \in 1..Len(t) PROVE FitsMain(p, t[n])
    <3>1. t[n] = tm[n + 1] /\ FitsMain(o, tm[n + 1])
      BY <1>2 DEF Link, Linked
    <3> QED
      BY <1>5, <3>1 DEF FitsMain
  <2>2. \A n \in 1..Len(tc) : FitsClient(p, tc[n])
    BY <1>6 DEF Link, Linked, FitsClient, OfFlow
  <2>3. ASSUME NEW n \in 1..Len(t), NEW k \in 1..Len(t), t[n].flow = t[k].flow PROVE n = k
    <3>1. n + 1 = k + 1
      BY <1>2, <2>3, SMTT(30) DEF Link, Linked
    <3> QED
      BY <3>1
  <2>4. \A n \in 1..Len(t), k \in 1..Len(tc) :
          tc[k].what \in OfFlow => t[n].flow # tc[k].flow
    BY <1>2, SMTT(30) DEF Link, Linked
  <2> QED
    BY <2>1, <2>2, <2>3, <2>4 DEF Link, Linked
<1>8. Ordered(p, path, t, tc)
  <2>1. ASSUME NEW j \in Ops, p[j].pc = "clearing"
        PROVE  \/ \E n \in 1..Len(t) : t[n].flow = j
               \/ \E n \in 1..Len(tc) : tc[n].what = "clear" /\ tc[n].flow = j
    <3>1. j # i /\ o[j].pc = "clearing"
      BY <1>1, <2>1
    <3>2. CASE \E n \in 1..Len(tm) : tm[n].flow = j
      <4>1. PICK n \in 1..Len(tm) : tm[n].flow = j
        BY <3>2
      <4>2. n # 1
        BY <1>2, <3>1, <4>1
      <4> QED
        BY <1>2, <4>1, <4>2
    <3> QED
      BY <3>1, <3>2 DEF Link, Ordered
  <2>2. \A n \in 1..Len(tc) : tc[n].what = "clear" => p[tc[n].flow] = o[tc[n].flow]
    BY <1>6 DEF OfFlow
  <2>3. ASSUME \A k \in 1..Len(tc) : tc[k].what # "clear",
               NEW n \in 1..Len(t), Clears(p, t[n]),
               \A k \in 1..Len(t) : k > n => ~Clears(p, t[k])
        PROVE  p[t[n].flow].val.path = path
    <3>1. n + 1 \in 1..Len(tm) /\ Clears(o, tm[n + 1])
      BY <1>2, <1>5, <2>3 DEF Clears
    <3>2. ASSUME NEW k \in 1..Len(tm), k > n + 1 PROVE ~Clears(o, tm[k])
      <4>1. k # 1 /\ k - 1 > n
        BY <3>2
      <4>2. k - 1 \in 1..Len(t) /\ t[k - 1] = tm[k]
        BY <1>2, <4>1
      <4> QED
        BY <1>5, <2>3, <4>1, <4>2 DEF Clears
    <3>3. o[tm[n + 1].flow].val.path = path
      BY <2>3, <3>1, <3>2 DEF Link, Ordered
    <3> QED
      BY <1>2, <1>5, <3>3
  <2> QED
    BY <2>1, <2>2, <2>3 DEF Link, Ordered
<1> QED
  BY <1>4, <1>7, <1>8 DEF Link, p, t

\* The client takes the message of a flow other than File.Clear, and the flow goes on.
LEMMA TakenByClient ==
  ASSUME NEW o \in Flows, NEW tm \in Seq(MainMessage), NEW tc \in Seq(ClientMessage),
         NEW path, Link(o, path, tm, tc), tc # <<>>, NEW i \in Ops,
         Head(tc).what \in OfFlow \ {"clear"}, Head(tc).flow = i,
         NEW x, x.pc # "clearing"
  PROVE  /\ Link([o EXCEPT ![i] = x], path, tm, Tail(tc))
         /\ Unaddressed(i, tm, Tail(tc))
<1> DEFINE p == [o EXCEPT ![i] = x]
           t == Tail(tc)
<1>1. p[i] = x /\ \A j \in Ops : j # i => p[j] = o[j]
  BY DEF Flows
<1>2. /\ Len(tc) = Len(t) + 1 /\ Len(t) \in Nat
      /\ \A n \in 1..Len(t) : t[n] = tc[n + 1] /\ n + 1 \in 1..Len(tc) /\ n + 1 # 1
      /\ \A n \in 1..Len(tc) : n = 1 \/ (n - 1 \in 1..Len(t) /\ t[n - 1] = tc[n])
      /\ tc[1].flow = i /\ tc[1].what \in OfFlow /\ tc[1].what # "clear" /\ 1 \in 1..Len(tc)
  BY TailAt
<1>3. \A n \in 1..Len(tm) : tm[n].flow \in Ops
  BY MessageTypes
<1>3a. \A n \in 1..Len(tc) : tc[n].what \in OfFlow => tc[n].flow \in Ops
  BY MessageTypes
<1> HIDE DEF p, t
<1>4. Unaddressed(i, tm, t)
  BY <1>2, SMTT(30) DEF Link, Linked, Unaddressed
<1>5. \A n \in 1..Len(tm) : tm[n].flow \in Ops /\ p[tm[n].flow] = o[tm[n].flow]
  BY <1>1, <1>3, <1>4 DEF Unaddressed
<1>6. \A n \in 1..Len(t) : t[n].what \in OfFlow => p[t[n].flow] = o[t[n].flow]
  BY <1>1, <1>2, <1>3a, <1>4 DEF Unaddressed
<1>7. Linked(p, tm, t)
  <2>1. \A n \in 1..Len(tm) : FitsMain(p, tm[n])
    BY <1>5 DEF Link, Linked, FitsMain
  <2>2. \A n \in 1..Len(t) : FitsClient(p, t[n])
    BY <1>2, <1>6 DEF Link, Linked, FitsClient, OfFlow
  <2>3. ASSUME NEW n \in 1..Len(t), NEW k \in 1..Len(t),
               t[n].what \in OfFlow, t[k].what \in OfFlow, t[n].flow = t[k].flow
        PROVE  n = k
    <3>1. /\ n + 1 \in 1..Len(tc) /\ k + 1 \in 1..Len(tc)
          /\ tc[n + 1].what \in OfFlow /\ tc[k + 1].what \in OfFlow
          /\ tc[n + 1].flow = tc[k + 1].flow
      BY <1>2, <2>3
    <3>2. n + 1 = k + 1
      BY <3>1 DEF Link, Linked
    <3> QED
      BY <3>2
  <2>4. \A n \in 1..Len(tm), k \in 1..Len(t) :
          t[k].what \in OfFlow => tm[n].flow # t[k].flow
    BY <1>2 DEF Link, Linked
  <2> QED
    BY <2>1, <2>2, <2>3, <2>4 DEF Link, Linked
<1>8. Ordered(p, path, tm, t)
  <2>1. ASSUME NEW j \in Ops, p[j].pc = "clearing"
        PROVE  \/ \E n \in 1..Len(tm) : tm[n].flow = j
               \/ \E n \in 1..Len(t) : t[n].what = "clear" /\ t[n].flow = j
    <3>1. j # i /\ o[j].pc = "clearing"
      BY <1>1, <2>1
    <3>2. CASE \E n \in 1..Len(tc) : tc[n].what = "clear" /\ tc[n].flow = j
      <4>1. PICK n \in 1..Len(tc) : tc[n].what = "clear" /\ tc[n].flow = j
        BY <3>2
      <4>2. n # 1
        BY <1>2, <3>1, <4>1
      <4> QED
        BY <1>2, <4>1, <4>2
    <3> QED
      BY <3>1, <3>2 DEF Link, Ordered
  <2>2. ASSUME NEW n \in 1..Len(t), t[n].what = "clear",
               \A k \in 1..Len(t) : k > n => t[k].what # "clear"
        PROVE  p[t[n].flow].val.path = path
    <3>1. n + 1 \in 1..Len(tc) /\ tc[n + 1].what = "clear" /\ tc[n + 1] = t[n]
      BY <1>2, <2>2
    <3>2. ASSUME NEW k \in 1..Len(tc), k > n + 1 PROVE tc[k].what # "clear"
      <4>1. k # 1 /\ k - 1 > n
        BY <3>2
      <4>2. k - 1 \in 1..Len(t) /\ t[k - 1] = tc[k]
        BY <1>2, <4>1
      <4> QED
        BY <2>2, <4>1, <4>2
    <3>3. o[tc[n + 1].flow].val.path = path
      BY <3>1, <3>2 DEF Link, Ordered
    <3> QED
      BY <1>6, <2>2, <3>1, <3>3 DEF OfFlow
  <2>3. (\A k \in 1..Len(t) : t[k].what # "clear") => \A k \in 1..Len(tc) : tc[k].what # "clear"
    BY <1>2
  <2>4. \A n \in 1..Len(tm) : Clears(p, tm[n]) <=> Clears(o, tm[n])
    BY <1>5 DEF Clears
  <2>5. ASSUME \A k \in 1..Len(t) : t[k].what # "clear",
               NEW n \in 1..Len(tm), Clears(p, tm[n]),
               \A k \in 1..Len(tm) : k > n => ~Clears(p, tm[k])
        PROVE  p[tm[n].flow].val.path = path
    <3>1. o[tm[n].flow].val.path = path
      BY <2>3, <2>4, <2>5 DEF Link, Ordered
    <3> QED
      BY <1>5, <3>1
  <2> QED
    BY <2>1, <2>2, <2>5 DEF Ordered
<1> QED
  BY <1>4, <1>7, <1>8 DEF Link, p, t

\* The client takes an action that main has forwarded.
LEMMA ActionTaken ==
  ASSUME NEW o \in Flows, NEW tm \in Seq(MainMessage), NEW tc \in Seq(ClientMessage),
         NEW path, Link(o, path, tm, tc), tc # <<>>, Head(tc).what \notin OfFlow
  PROVE  Link(o, path, tm, Tail(tc))
<1> DEFINE t == Tail(tc)
<1>2. /\ Len(tc) = Len(t) + 1 /\ Len(t) \in Nat
      /\ \A n \in 1..Len(t) : t[n] = tc[n + 1] /\ n + 1 \in 1..Len(tc) /\ n + 1 # 1
      /\ \A n \in 1..Len(tc) : n = 1 \/ (n - 1 \in 1..Len(t) /\ t[n - 1] = tc[n])
      /\ tc[1].what \notin OfFlow /\ tc[1].what # "clear" /\ 1 \in 1..Len(tc)
  BY TailAt DEF OfFlow
<1> HIDE DEF t
<1>3. Linked(o, tm, t)
  <2>1. ASSUME NEW n \in 1..Len(t), NEW k \in 1..Len(t),
               t[n].what \in OfFlow, t[k].what \in OfFlow, t[n].flow = t[k].flow
        PROVE  n = k
    <3>1. n + 1 = k + 1
      BY <1>2, <2>1, SMTT(30) DEF Link, Linked
    <3> QED
      BY <3>1
  <2>2. \A n \in 1..Len(tm), k \in 1..Len(t) :
          t[k].what \in OfFlow => tm[n].flow # t[k].flow
    BY <1>2 DEF Link, Linked
  <2> QED
    BY <1>2, <2>1, <2>2 DEF Link, Linked
<1>4. Ordered(o, path, tm, t)
  <2>1. ASSUME NEW j \in Ops, o[j].pc = "clearing"
        PROVE  \/ \E n \in 1..Len(tm) : tm[n].flow = j
               \/ \E n \in 1..Len(t) : t[n].what = "clear" /\ t[n].flow = j
    <3>1. CASE \E n \in 1..Len(tc) : tc[n].what = "clear" /\ tc[n].flow = j
      <4>1. PICK n \in 1..Len(tc) : tc[n].what = "clear" /\ tc[n].flow = j
        BY <3>1
      <4>2. n - 1 \in 1..Len(t) /\ t[n - 1] = tc[n]
        BY <1>2, <4>1
      <4> QED
        BY <4>1, <4>2
    <3> QED
      BY <2>1, <3>1 DEF Link, Ordered
  <2>2. ASSUME NEW n \in 1..Len(t), t[n].what = "clear",
               \A k \in 1..Len(t) : k > n => t[k].what # "clear"
        PROVE  o[t[n].flow].val.path = path
    <3>1. ASSUME NEW k \in 1..Len(tc), k > n + 1 PROVE tc[k].what # "clear"
      <4>1. k - 1 > n /\ k - 1 \in 1..Len(t) /\ t[k - 1] = tc[k]
        BY <1>2, <3>1
      <4> QED
        BY <2>2, <4>1
    <3> QED
      BY <1>2, <2>2, <3>1, SMTT(30) DEF Link, Ordered
  <2>3. (\A k \in 1..Len(t) : t[k].what # "clear") => \A k \in 1..Len(tc) : tc[k].what # "clear"
    BY <1>2
  <2> QED
    BY <2>1, <2>2, <2>3 DEF Link, Ordered
<1> QED
  BY <1>3, <1>4 DEF Link, t

\* A flow sends main its message.
LEMMA SentToMain ==
  ASSUME NEW o \in Flows, NEW tm \in Seq(MainMessage), NEW tc \in Seq(ClientMessage),
         NEW path, Link(o, path, tm, tc), NEW m \in MainMessage,
         Unaddressed(m.flow, tm, tc), FitsMain(o, m), o[m.flow].pc # "clearing"
  PROVE  Link(o, path, Append(tm, m), tc)
<1> DEFINE t == Append(tm, m)
<1>1. /\ Len(t) = Len(tm) + 1 /\ Len(tm) \in Nat
      /\ \A n \in 1..Len(tm) : t[n] = tm[n] /\ n \in 1..Len(t)
      /\ t[Len(tm) + 1] = m
      /\ \A n \in 1..Len(t) : n \in 1..Len(tm) \/ n = Len(tm) + 1
  BY AppendAt
<1> HIDE DEF t
<1>2. Linked(o, t, tc)
  <2>1. \A n \in 1..Len(t) : FitsMain(o, t[n])
    BY <1>1 DEF Link, Linked
  <2>2. \A n, k \in 1..Len(t) : t[n].flow = t[k].flow => n = k
    BY <1>1 DEF Link, Linked, Unaddressed
  <2>3. \A n \in 1..Len(t), k \in 1..Len(tc) :
          tc[k].what \in OfFlow => t[n].flow # tc[k].flow
    BY <1>1 DEF Link, Linked, Unaddressed
  <2> QED
    BY <2>1, <2>2, <2>3 DEF Link, Linked
<1>3. Ordered(o, path, t, tc)
  <2>1. \A j \in Ops : (\E n \in 1..Len(tm) : tm[n].flow = j) => \E n \in 1..Len(t) : t[n].flow = j
    BY <1>1
  <2>2. ASSUME \A k \in 1..Len(tc) : tc[k].what # "clear",
               NEW n \in 1..Len(t), Clears(o, t[n]),
               \A k \in 1..Len(t) : k > n => ~Clears(o, t[k])
        PROVE  o[t[n].flow].val.path = path
    <3>1. n \in 1..Len(tm) /\ t[n] = tm[n]
      BY <1>1, <2>2 DEF Clears
    <3>2. \A k \in 1..Len(tm) : k > n => ~Clears(o, tm[k])
      BY <1>1, <2>2
    <3> QED
      BY <2>2, <3>1, <3>2 DEF Link, Ordered
  <2> QED
    BY <2>1, <2>2 DEF Link, Ordered
<1> QED
  BY <1>2, <1>3 DEF Link, t

\* Main sends the client a message other than File.Clear, of a flow or of none.
LEMMA SentToClient ==
  ASSUME NEW o \in Flows, NEW tm \in Seq(MainMessage), NEW tc \in Seq(ClientMessage),
         NEW path, Link(o, path, tm, tc), NEW m \in ClientMessage,
         m.what \in OfFlow => Unaddressed(m.flow, tm, tc), FitsClient(o, m), m.what # "clear"
  PROVE  Link(o, path, tm, Append(tc, m))
<1> DEFINE t == Append(tc, m)
<1>1. /\ Len(t) = Len(tc) + 1 /\ Len(tc) \in Nat
      /\ \A n \in 1..Len(tc) : t[n] = tc[n] /\ n \in 1..Len(t)
      /\ t[Len(tc) + 1] = m
      /\ \A n \in 1..Len(t) : n \in 1..Len(tc) \/ n = Len(tc) + 1
  BY AppendAt
<1> HIDE DEF t
<1>2. Linked(o, tm, t)
  <2>1. \A n \in 1..Len(t) : FitsClient(o, t[n])
    BY <1>1 DEF Link, Linked
  <2>2. \A n, k \in 1..Len(t) :
          t[n].what \in OfFlow /\ t[k].what \in OfFlow /\ t[n].flow = t[k].flow => n = k
    BY <1>1 DEF Link, Linked, Unaddressed
  <2>3. \A n \in 1..Len(tm), k \in 1..Len(t) :
          t[k].what \in OfFlow => tm[n].flow # t[k].flow
    BY <1>1 DEF Link, Linked, Unaddressed
  <2> QED
    BY <2>1, <2>2, <2>3 DEF Link, Linked
<1>3. Ordered(o, path, tm, t)
  <2>1. \A j \in Ops :
          (\E n \in 1..Len(tc) : tc[n].what = "clear" /\ tc[n].flow = j)
            => \E n \in 1..Len(t) : t[n].what = "clear" /\ t[n].flow = j
    BY <1>1
  <2>2. ASSUME NEW n \in 1..Len(t), t[n].what = "clear",
               \A k \in 1..Len(t) : k > n => t[k].what # "clear"
        PROVE  o[t[n].flow].val.path = path
    <3>1. n \in 1..Len(tc) /\ t[n] = tc[n]
      BY <1>1, <2>2
    <3>2. \A k \in 1..Len(tc) : k > n => tc[k].what # "clear"
      BY <1>1, <2>2
    <3> QED
      BY <2>2, <3>1, <3>2 DEF Link, Ordered
  <2>3. (\A k \in 1..Len(t) : t[k].what # "clear") => \A k \in 1..Len(tc) : tc[k].what # "clear"
    BY <1>1
  <2> QED
    BY <2>1, <2>2, <2>3 DEF Link, Ordered
<1> QED
  BY <1>2, <1>3 DEF Link, t

\* setActiveBot() takes botFilePath and asks the client to clear its files.
LEMMA AsksToClear ==
  ASSUME NEW o \in Flows, NEW tm \in Seq(MainMessage), NEW tc \in Seq(ClientMessage),
         NEW path, Link(o, path, tm, tc), NEW i \in Ops, Unaddressed(i, tm, tc),
         NEW x, x.pc = "clearing"
  PROVE  Link([o EXCEPT ![i] = x], x.val.path, tm, Append(tc, Msg("clear", i)))
<1> DEFINE p == [o EXCEPT ![i] = x]
           m == Msg("clear", i)
           t == Append(tc, m)
<1>0. m \in ClientMessage /\ m.what = "clear" /\ m.flow = i /\ m.what \in OfFlow
  BY DEF Msg, ClientMessage, OfFlow
<1>1. p[i] = x /\ \A j \in Ops : j # i => p[j] = o[j]
  BY DEF Flows
<1> HIDE DEF m
<1>2. /\ Len(t) = Len(tc) + 1 /\ Len(tc) \in Nat
      /\ \A n \in 1..Len(tc) : t[n] = tc[n] /\ n \in 1..Len(t)
      /\ t[Len(tc) + 1] = m /\ Len(tc) + 1 \in 1..Len(t)
      /\ \A n \in 1..Len(t) : n \in 1..Len(tc) \/ n = Len(tc) + 1
  BY <1>0, AppendAt
<1>3. \A n \in 1..Len(tm) : tm[n].flow \in Ops
  BY MessageTypes
<1>3a. \A n \in 1..Len(tc) : tc[n].what \in OfFlow => tc[n].flow \in Ops
  BY MessageTypes
<1> HIDE DEF p, t
<1>4. \A n \in 1..Len(tm) : p[tm[n].flow] = o[tm[n].flow]
  BY <1>1, <1>3 DEF Unaddressed
<1>5. \A n \in 1..Len(tc) : tc[n].what \in OfFlow => p[tc[n].flow] = o[tc[n].flow]
  BY <1>1, <1>3a DEF Unaddressed
<1>6. Linked(p, tm, t)
  <2>1. \A n \in 1..Len(tm) : FitsMain(p, tm[n])
    BY <1>4 DEF Link, Linked, FitsMain
  <2>2. ASSUME NEW n \in 1..Len(t) PROVE FitsClient(p, t[n])
    <3>1. CASE n \in 1..Len(tc)
      <4>1. FitsClient(p, tc[n])
        BY <1>5, <3>1 DEF Link, Linked, FitsClient, OfFlow
      <4> QED
        BY <1>2, <3>1, <4>1
    <3>2. CASE n = Len(tc) + 1
      BY <1>0, <1>1, <1>2, <3>2 DEF FitsClient
    <3> QED
      BY <1>2, <3>1, <3>2
  <2>3. \A n, k \in 1..Len(t) :
          t[n].what \in OfFlow /\ t[k].what \in OfFlow /\ t[n].flow = t[k].flow => n = k
    BY <1>0, <1>2 DEF Link, Linked, Unaddressed
  <2>4. \A n \in 1..Len(tm), k \in 1..Len(t) :
          t[k].what \in OfFlow => tm[n].flow # t[k].flow
    BY <1>0, <1>2 DEF Link, Linked, Unaddressed
  <2> QED
    BY <2>1, <2>2, <2>3, <2>4 DEF Link, Linked
<1>7. Ordered(p, x.val.path, tm, t)
  <2>1. ASSUME NEW j \in Ops, p[j].pc = "clearing"
        PROVE  \/ \E n \in 1..Len(tm) : tm[n].flow = j
               \/ \E n \in 1..Len(t) : t[n].what = "clear" /\ t[n].flow = j
    <3>1. CASE j = i
      BY <1>0, <1>2, <3>1
    <3>2. CASE j # i
      <4>1. \/ \E n \in 1..Len(tm) : tm[n].flow = j
            \/ \E n \in 1..Len(tc) : tc[n].what = "clear" /\ tc[n].flow = j
        BY <1>1, <2>1, <3>2 DEF Link, Ordered
      <4> QED
        BY <1>2, <4>1
    <3> QED
      BY <3>1, <3>2
  <2>2. ASSUME NEW n \in 1..Len(t), t[n].what = "clear",
               \A k \in 1..Len(t) : k > n => t[k].what # "clear"
        PROVE  p[t[n].flow].val.path = x.val.path
    <3>1. n = Len(tc) + 1
      BY <1>0, <1>2, <2>2
    <3> QED
      BY <1>0, <1>1, <1>2, <3>1
  <2>3. ~\A k \in 1..Len(t) : t[k].what # "clear"
    BY <1>0, <1>2
  <2> QED
    BY <2>1, <2>2, <2>3 DEF Ordered
<1> QED
  BY <1>6, <1>7 DEF Link, p, m, t

\* The client answers File.Clear, or the paths it is told, at once.
LEMMA AnswerSent ==
  ASSUME NEW o \in Flows, NEW tm \in Seq(MainMessage), NEW tc \in Seq(ClientMessage),
         NEW path, Link(o, path, tm, tc), tc # <<>>, Head(tc).what \in {"clear", "paths"}
  PROVE  Link(o, path, Append(tm, Msg("reply", Head(tc).flow)), Tail(tc))
<1> DEFINE h == Head(tc)
           m == Msg("reply", h.flow)
           a == Append(tm, m)
           t == Tail(tc)
<1>0. h.flow \in Ops /\ h.what \in OfFlow /\ h = tc[1] /\ 1 \in 1..Len(tc)
  BY TailAt, MessageTypes DEF OfFlow
<1>1. m \in MainMessage /\ m.what = "reply" /\ m.flow = h.flow
  BY <1>0 DEF Msg, MainMessage
<1>2. /\ Len(tc) = Len(t) + 1 /\ Len(t) \in Nat
      /\ \A n \in 1..Len(t) : t[n] = tc[n + 1] /\ n + 1 \in 1..Len(tc) /\ n + 1 # 1
      /\ \A n \in 1..Len(tc) : n = 1 \/ (n - 1 \in 1..Len(t) /\ t[n - 1] = tc[n])
  BY TailAt
<1> HIDE DEF m
<1>3. /\ Len(a) = Len(tm) + 1 /\ Len(tm) \in Nat
      /\ \A n \in 1..Len(tm) : a[n] = tm[n] /\ n \in 1..Len(a)
      /\ a[Len(tm) + 1] = m /\ Len(tm) + 1 \in 1..Len(a)
      /\ \A n \in 1..Len(a) : n \in 1..Len(tm) \/ n = Len(tm) + 1
  BY <1>1, AppendAt
<1> HIDE DEF h, a, t
<1>4. Unaddressed(h.flow, tm, t)
  <2>1. \A n \in 1..Len(tm) : tm[n].flow # h.flow
    BY <1>0 DEF Link, Linked
  <2>2. ASSUME NEW n \in 1..Len(t), t[n].what \in OfFlow PROVE t[n].flow # h.flow
    <3>1. n + 1 \in 1..Len(tc) /\ tc[n + 1].what \in OfFlow /\ n + 1 # 1 /\ t[n] = tc[n + 1]
      BY <1>2, <2>2
    <3> QED
      BY <1>0, <3>1 DEF Link, Linked
  <2> QED
    BY <2>1, <2>2 DEF Unaddressed
<1>5. Linked(o, a, t)
  <2>1. FitsMain(o, m)
    <3>1. FitsClient(o, h)
      BY <1>0 DEF Link, Linked
    <3> QED
      BY <1>1, <3>1 DEF FitsMain, FitsClient, h
  <2>2. \A n \in 1..Len(a) : FitsMain(o, a[n])
    BY <1>3, <2>1 DEF Link, Linked
  <2>3. \A n \in 1..Len(t) : FitsClient(o, t[n])
    BY <1>2 DEF Link, Linked
  <2>4. \A n, k \in 1..Len(a) : a[n].flow = a[k].flow => n = k
    BY <1>1, <1>3, <1>4 DEF Link, Linked, Unaddressed
  <2>5. ASSUME NEW n \in 1..Len(t), NEW k \in 1..Len(t),
               t[n].what \in OfFlow, t[k].what \in OfFlow, t[n].flow = t[k].flow
        PROVE  n = k
    <3>1. /\ n + 1 \in 1..Len(tc) /\ k + 1 \in 1..Len(tc)
          /\ tc[n + 1].what \in OfFlow /\ tc[k + 1].what \in OfFlow
          /\ tc[n + 1].flow = tc[k + 1].flow
      BY <1>2, <2>5
    <3>2. n + 1 = k + 1
      BY <3>1 DEF Link, Linked
    <3> QED
      BY <3>2
  <2>6. ASSUME NEW n \in 1..Len(a), NEW k \in 1..Len(t), t[k].what \in OfFlow
        PROVE  a[n].flow # t[k].flow
    <3>1. CASE n \in 1..Len(tm)
      <4>1. t[k] = tc[k + 1] /\ k + 1 \in 1..Len(tc) /\ a[n] = tm[n]
        BY <1>2, <1>3, <3>1
      <4> QED
        BY <2>6, <3>1, <4>1 DEF Link, Linked
    <3>2. CASE n = Len(tm) + 1
      BY <1>1, <1>3, <1>4, <2>6, <3>2 DEF Unaddressed
    <3> QED
      BY <1>3, <3>1, <3>2
  <2> QED
    BY <2>2, <2>3, <2>4, <2>5, <2>6 DEF Linked
<1>6. Ordered(o, path, a, t)
  <2>1. ASSUME NEW j \in Ops, o[j].pc = "clearing"
        PROVE  \/ \E n \in 1..Len(a) : a[n].flow = j
               \/ \E n \in 1..Len(t) : t[n].what = "clear" /\ t[n].flow = j
    <3>1. CASE j = h.flow
      BY <1>1, <1>3, <3>1
    <3>2. CASE j # h.flow
      <4>1. CASE \E n \in 1..Len(tm) : tm[n].flow = j
        BY <1>3, <4>1
      <4>2. CASE \E n \in 1..Len(tc) : tc[n].what = "clear" /\ tc[n].flow = j
        <5>1. PICK n \in 1..Len(tc) : tc[n].what = "clear" /\ tc[n].flow = j
          BY <4>2
        <5>2. n # 1
          BY <1>0, <3>2, <5>1
        <5> QED
          BY <1>2, <5>1, <5>2, SMTT(30)
      <4> QED
        BY <2>1, <4>1, <4>2 DEF Link, Ordered
    <3> QED
      BY <3>1, <3>2
  <2>2. ASSUME NEW n \in 1..Len(t), t[n].what = "clear",
               \A k \in 1..Len(t) : k > n => t[k].what # "clear"
        PROVE  o[t[n].flow].val.path = path
    <3>1. n + 1 \in 1..Len(tc) /\ tc[n + 1] = t[n]
      BY <1>2
    <3>2. ASSUME NEW k \in 1..Len(tc), k > n + 1 PROVE tc[k].what # "clear"
      <4>1. k - 1 > n /\ k - 1 \in 1..Len(t) /\ t[k - 1] = tc[k]
        BY <1>2, <3>2
      <4> QED
        BY <2>2, <4>1
    <3> QED
      BY <2>2, <3>1, <3>2 DEF Link, Ordered
  <2>3. ASSUME \A k \in 1..Len(t) : t[k].what # "clear",
               NEW n \in 1..Len(a), Clears(o, a[n]),
               \A k \in 1..Len(a) : k > n => ~Clears(o, a[k])
        PROVE  o[a[n].flow].val.path = path
    <3>1. \A k \in 1..Len(tc) : k > 1 => tc[k].what # "clear"
      BY <1>2, <2>3
    <3>2. CASE h.what = "clear"
      <4>1. o[h.flow].val.path = path /\ o[h.flow].pc = "clearing"
        BY <1>0, <3>1, <3>2 DEF Link, Ordered, Linked, FitsClient
      <4>2. Clears(o, a[Len(tm) + 1])
        BY <1>1, <1>3, <4>1 DEF Clears
      <4>3. n = Len(tm) + 1
        BY <1>3, <2>3, <4>2
      <4> QED
        BY <1>1, <1>3, <4>1, <4>3
    <3>3. CASE h.what # "clear"
      <4>1. \A k \in 1..Len(tc) : tc[k].what # "clear"
        BY <1>0, <3>1, <3>3
      <4>2. o[h.flow].pc = "updating"
        BY <1>0, <3>3 DEF Link, Linked, FitsClient, h
      <4>3. n \in 1..Len(tm) /\ a[n] = tm[n]
        BY <1>1, <1>3, <2>3, <4>2 DEF Clears
      <4>4. \A k \in 1..Len(tm) : k > n => ~Clears(o, tm[k])
        BY <1>3, <2>3
      <4> QED
        BY <2>3, <4>1, <4>3, <4>4 DEF Link, Ordered
    <3> QED
      BY <3>2, <3>3
  <2> QED
    BY <2>1, <2>2, <2>3 DEF Ordered
<1> QED
  BY <1>5, <1>6 DEF Link, h, m, a, t

-----------------------------------------------------------------------------
(***************************************************************************)
(* A step frees a flow from its message, if it had one, lets it go on and  *)
(* sends its next message.                                                 *)
(***************************************************************************)
Free(o, i, path, tm, tc) ==
  Link([o EXCEPT ![i] = Idle], path, tm, tc) /\ Unaddressed(i, tm, tc)

LEMMA IdleType == Idle \in OpType /\ Idle.pc = "idle" /\ NoBot \in BotValue
<1>1. NoBot \in BotValue
  BY DEF NoBot, BotValue
<1>2. Idle.pc = "idle"
  BY DEF Idle
<1>3. Idle = [kind |-> "none", bot |-> NoPath, services |-> {}, pc |-> "idle", val |-> NoBot]
  BY DEF Idle
<1> QED
  BY <1>1, <1>2, <1>3 DEF OpType, Points, Reading

LEMMA FlowsType ==
  /\ Flows = [Ops -> OpType]
  /\ \A o \in Flows, i \in Ops, x \in OpType :
       /\ [o EXCEPT ![i] = x] \in Flows /\ [o EXCEPT ![i] = x][i] = x
       /\ [[o EXCEPT ![i] = Idle] EXCEPT ![i] = x] = [o EXCEPT ![i] = x]
BY IdleType DEF Flows

LEMMA FreeAlone ==
  ASSUME NEW o \in Flows, NEW tm \in Seq(MainMessage), NEW tc \in Seq(ClientMessage),
         NEW path, Link(o, path, tm, tc), NEW i \in Ops,
         o[i].pc \in ByItself
  PROVE  Free(o, i, path, tm, tc)
BY Alone, GoesOn, IdleType DEF Free, Link

LEMMA FreeByMain ==
  ASSUME NEW o \in Flows, NEW tm \in Seq(MainMessage), NEW tc \in Seq(ClientMessage),
         NEW path, Link(o, path, tm, tc), NEW i \in Ops, tm # <<>>, Head(tm).flow = i
  PROVE  Free(o, i, path, Tail(tm), tc) /\ FitsMain(o, Head(tm)) /\ Tail(tm) \in Seq(MainMessage)
<1>1. Head(tm) = tm[1] /\ 1 \in 1..Len(tm) /\ Tail(tm) \in Seq(MainMessage)
  BY TailAt
<1>2. FitsMain(o, Head(tm))
  BY <1>1 DEF Link, Linked
<1> QED
  BY <1>1, <1>2, TakenByMain, IdleType DEF Free

LEMMA FreeByClient ==
  ASSUME NEW o \in Flows, NEW tm \in Seq(MainMessage), NEW tc \in Seq(ClientMessage),
         NEW path, Link(o, path, tm, tc), NEW i \in Ops, tc # <<>>,
         Head(tc).what \in OfFlow \ {"clear"}, Head(tc).flow = i
  PROVE  Free(o, i, path, tm, Tail(tc)) /\ FitsClient(o, Head(tc)) /\ Tail(tc) \in Seq(ClientMessage)
<1>1. Head(tc) = tc[1] /\ 1 \in 1..Len(tc) /\ Tail(tc) \in Seq(ClientMessage)
  BY TailAt
<1>2. FitsClient(o, Head(tc))
  BY <1>1 DEF Link, Linked
<1> QED
  BY <1>1, <1>2, TakenByClient, IdleType DEF Free

\* A free flow goes on without a message.
LEMMA FreeGoes ==
  ASSUME NEW o \in Flows, NEW tm \in Seq(MainMessage), NEW tc \in Seq(ClientMessage),
         NEW path, NEW i \in Ops, Free(o, i, path, tm, tc),
         NEW x \in OpType, x.pc # "clearing"
  PROVE  Link([o EXCEPT ![i] = x], path, tm, tc)
<1> DEFINE p == [o EXCEPT ![i] = Idle]
<1>1. p \in Flows /\ [p EXCEPT ![i] = x] = [o EXCEPT ![i] = x]
  BY FlowsType, IdleType
<1>2. Link(p, path, tm, tc) /\ Unaddressed(i, tm, tc)
  BY DEF Free
<1> HIDE DEF p
<1>3. Link([p EXCEPT ![i] = x], path, tm, tc)
  BY <1>1, <1>2, GoesOn
<1> QED
  BY <1>1, <1>3

\* ... or calls, answers or syncs with main.
LEMMA FreeSendsMain ==
  ASSUME NEW o \in Flows, NEW tm \in Seq(MainMessage), NEW tc \in Seq(ClientMessage),
         NEW path, NEW i \in Ops, Free(o, i, path, tm, tc),
         NEW x \in OpType, NEW what,
         \/ what = "call" /\ x.pc \in AtCall
         \/ what = "reply" /\ x.pc \in {"updating", "telling"}
         \/ what = "sync" /\ x.pc \in {"echo", "wasSet", "closed"}
  PROVE  /\ Link([o EXCEPT ![i] = x], path, Append(tm, Msg(what, i)), tc)
         /\ Append(tm, Msg(what, i)) \in Seq(MainMessage)
<1> DEFINE p == [o EXCEPT ![i] = x]
<1>1. /\ Msg(what, i) \in MainMessage /\ Msg(what, i).flow = i /\ Msg(what, i).what = what
  BY DEF Msg, MainMessage
<1>2. p[i] = x /\ p \in Flows /\ x.pc # "clearing"
  BY FlowsType DEF AtCall
<1>3. Link(p, path, tm, tc)
  BY <1>2, FreeGoes
<1>4. FitsMain(p, Msg(what, i))
  BY <1>1, <1>2 DEF FitsMain
<1> HIDE DEF p
<1>5. Link(p, path, Append(tm, Msg(what, i)), tc)
  BY <1>1, <1>2, <1>3, <1>4, SentToMain DEF Free
<1> QED
  BY <1>1, <1>5, AppendAt DEF p

\* An action that main forwards.
LEMMA Forwarded ==
  ASSUME NEW o \in Flows, NEW tm \in Seq(MainMessage), NEW tc \in Seq(ClientMessage),
         NEW path, NEW i \in Ops, Free(o, i, path, tm, tc),
         NEW a \in ClientMessage, a.what \notin OfFlow
  PROVE  Free(o, i, path, tm, Append(tc, a)) /\ Append(tc, a) \in Seq(ClientMessage)
<1> DEFINE p == [o EXCEPT ![i] = Idle]
<1>1. p \in Flows
  BY FlowsType, IdleType
<1>2. FitsClient(p, a) /\ a.what # "clear"
  BY DEF FitsClient, OfFlow
<1> HIDE DEF p
<1>3. Link(p, path, tm, tc)
  BY DEF Free, p
<1>4. Link(p, path, tm, Append(tc, a))
  BY <1>1, <1>2, <1>3, SentToClient
<1>5. Unaddressed(i, tm, Append(tc, a))
  <2>1. /\ Len(Append(tc, a)) = Len(tc) + 1 /\ Len(tc) \in Nat
        /\ \A n \in 1..Len(tc) : Append(tc, a)[n] = tc[n]
        /\ Append(tc, a)[Len(tc) + 1] = a
    BY AppendAt
  <2>2. \A n \in 1..Len(Append(tc, a)) : n \in 1..Len(tc) \/ n = Len(tc) + 1
    BY <2>1
  <2> QED
    BY <2>1, <2>2 DEF Free, Unaddressed
<1> QED
  BY <1>4, <1>5, AppendAt DEF Free, p

\* What main forwards before a message: nothing, or one action.
Forwards(acts) ==
  acts = <<>> \/ \E a \in ClientMessage : a.what \notin OfFlow /\ acts = <<a>>

LEMMA ForwardedAll ==
  ASSUME NEW o \in Flows, NEW tm \in Seq(MainMessage), NEW tc \in Seq(ClientMessage),
         NEW path, NEW i \in Ops, Free(o, i, path, tm, tc), NEW acts, Forwards(acts)
  PROVE  Free(o, i, path, tm, tc \o acts) /\ tc \o acts \in Seq(ClientMessage)
<1>1. CASE acts = <<>>
  <2>1. tc \o acts = tc
    BY <1>1
  <2> QED
    BY <2>1
<1>2. ASSUME NEW a \in ClientMessage, a.what \notin OfFlow, acts = <<a>>
      PROVE  Free(o, i, path, tm, tc \o acts) /\ tc \o acts \in Seq(ClientMessage)
  <2>1. tc \o acts = Append(tc, a)
    BY <1>2
  <2> QED
    BY <1>2, <2>1, Forwarded
<1> QED
  BY <1>1, <1>2 DEF Forwards

\* ... or main calls or answers the client.
LEMMA FreeSendsClient ==
  ASSUME NEW o \in Flows, NEW tm \in Seq(MainMessage), NEW tc \in Seq(ClientMessage),
         NEW path, NEW i \in Ops, Free(o, i, path, tm, tc),
         NEW x \in OpType, NEW acts, Forwards(acts), NEW what,
         \/ what = "paths" /\ x.pc = "updating"
         \/ what = "told" /\ x.pc = "telling"
         \/ what = "load" /\ x.pc = "load"
         \/ what = "reply" /\ x.pc \in {"opened", "userSet", "wasSet", "closed", "shown", "ended"}
  PROVE  /\ Link([o EXCEPT ![i] = x], path, tm, tc \o acts \o <<Msg(what, i)>>)
         /\ tc \o acts \o <<Msg(what, i)>> \in Seq(ClientMessage)
<1> DEFINE p == [o EXCEPT ![i] = x]
           t == tc \o acts
<1>1. /\ Msg(what, i) \in ClientMessage /\ Msg(what, i).flow = i
      /\ Msg(what, i).what = what /\ what # "clear"
  BY DEF Msg, ClientMessage, OfFlow
<1>2. p[i] = x /\ p \in Flows /\ x.pc # "clearing"
  BY FlowsType
<1>3. Free(o, i, path, tm, t) /\ t \in Seq(ClientMessage)
  BY ForwardedAll
<1> HIDE DEF t
<1>4. Link(p, path, tm, t)
  BY <1>2, <1>3, FreeGoes
<1>5. FitsClient(p, Msg(what, i))
  BY <1>1, <1>2 DEF FitsClient
<1>6. t \o <<Msg(what, i)>> = Append(t, Msg(what, i))
  BY <1>1, <1>3
<1> HIDE DEF p
<1>7. Link(p, path, tm, Append(t, Msg(what, i)))
  BY <1>1, <1>2, <1>3, <1>4, <1>5, SentToClient DEF Free
<1> QED
  BY <1>1, <1>3, <1>6, <1>7, AppendAt DEF p, t

\* ... or begins setActiveBot().
LEMMA FreeAsksToClear ==
  ASSUME NEW o \in Flows, NEW tm \in Seq(MainMessage), NEW tc \in Seq(ClientMessage),
         NEW path, NEW i \in Ops, Free(o, i, path, tm, tc),
         NEW x \in OpType, x.pc = "clearing"
  PROVE  /\ Link([o EXCEPT ![i] = x], x.val.path, tm, tc \o <<>> \o <<Msg("clear", i)>>)
         /\ tc \o <<>> \o <<Msg("clear", i)>> \in Seq(ClientMessage)
<1> DEFINE p == [o EXCEPT ![i] = Idle]
<1>1. p \in Flows /\ [p EXCEPT ![i] = x] = [o EXCEPT ![i] = x]
  BY FlowsType, IdleType
<1>2. Msg("clear", i) \in ClientMessage
  BY DEF Msg, ClientMessage, OfFlow
<1>3. tc \o <<>> \o <<Msg("clear", i)>> = Append(tc, Msg("clear", i))
  BY <1>2
<1>4. Link(p, path, tm, tc) /\ Unaddressed(i, tm, tc)
  BY DEF Free
<1> HIDE DEF p
<1>5. Link([p EXCEPT ![i] = x], x.val.path, tm, Append(tc, Msg("clear", i)))
  BY <1>1, <1>4, AsksToClear
<1>6. Append(tc, Msg("clear", i)) \in Seq(ClientMessage)
  BY <1>2, AppendAt
<1> QED
  BY <1>1, <1>3, <1>5, <1>6

-----------------------------------------------------------------------------
(***************************************************************************)
(* The inductive invariant.  What a flow holds fits the await it is at:    *)
(* it has the path of a bot before it opens, saves or sets one.            *)
(***************************************************************************)
Whole(v) == v.path = NoPath => v = NoBot
NamesBot == {"switch", "open", "create", "forget", "link", "reload"}
HoldsBot == {"save", "saving", "read", "user", "userSet", "set", "tunnel", "clearing",
             "updating", "telling", "echo", "wasSet", "load", "create"}

HoldsAt(o, pc) ==
  /\ pc \in {"loading", "retrying", "prompt", "open", "load"} => o.kind \in NamesBot
  /\ pc \in HoldsBot => o.val.path \in Bots
  /\ pc \in {"opened", "confirm"} => Whole(o.val)
  /\ pc = "confirm" => /\ o.kind \in {"switch", "create", "close", "remove", "forget"}
                       /\ o.kind = "create" => o.val.path \in Bots
  /\ pc = "saving" => o.kind \in {"add", "remove", "pick", "create"}
  /\ pc \in {"add", "remove", "create"} => o.kind = pc
  /\ pc = "save" => o.kind = "pick"
  /\ pc \in {"close", "closed"} => o.kind = "close"
  /\ pc = "read" => o.kind = "reload"
  /\ pc \in {"menus", "shown"} => o.kind = "close" \/ o.val.path \in Bots

OpOK(o) ==
  o \in OpType /\ (o.kind \in NamesBot => o.bot \in Bots) /\ HoldsAt(o, o.pc)

MainOK(m) ==
  /\ m \in [bot : BotValue, dir : Bots \cup {NoPath}, recents : SUBSET Bots,
            path : Bots \cup {NoPath}, watching : Bots \cup {NoPath}, endpoints : BotValue]
  /\ Whole(m.bot)
ClientOK(c) ==
  c \in [bot : BotValue, recents : SUBSET Bots, tabs : BOOLEAN] /\ Whole(c.bot)
FilesOK ==
  /\ file \in [Bots -> SUBSET Services] /\ kept \in [Bots -> SUBSET Services]
  /\ changed \in BOOLEAN /\ (changed => main.watching \in Bots)
FlowsOK == op \in Flows /\ \A i \in Ops : OpOK(op[i])
MessagesOK == toMain \in Seq(MainMessage) /\ toClient \in Seq(ClientMessage)

BotInv ==
  /\ MainOK(main) /\ ClientOK(client) /\ FilesOK /\ FlowsOK /\ MessagesOK
  /\ blocked \in Ops \cup {NoOp}
  /\ Link(op, main.path, toMain, toClient)
  /\ WatcherFollowsPath

\* The next await of a flow which holds what it needs there.
LEMMA AtType ==
  ASSUME NEW o, OpOK(o), NEW pc \in Points, HoldsAt(o, pc)
  PROVE  /\ OpOK(At(o, pc)) /\ At(o, pc) \in OpType /\ At(o, pc).pc = pc
         /\ At(o, pc).kind = o.kind /\ At(o, pc).bot = o.bot
         /\ At(o, pc).val = o.val /\ At(o, pc).services = o.services
<1>1. /\ At(o, pc) \in OpType /\ At(o, pc).pc = pc
      /\ At(o, pc).kind = o.kind /\ At(o, pc).bot = o.bot
      /\ At(o, pc).val = o.val /\ At(o, pc).services = o.services
  BY DEF OpOK, OpType, At, Points, Reading
<1> QED
  BY <1>1 DEF OpOK, HoldsAt

LEMMA IdleOK == OpOK(Idle) /\ Idle \in OpType /\ Idle.pc = "idle"
BY IdleType DEF OpOK, HoldsAt, Idle, NamesBot, HoldsBot

\* One flow goes on.
LEMMA FlowGoes ==
  ASSUME FlowsOK, NEW i \in Ops, NEW x, OpOK(x), Goes(i, x)
  PROVE  /\ FlowsOK' /\ op'[i] = x /\ op' = [op EXCEPT ![i] = x]
         /\ \A j \in Ops : j # i => op'[j] = op[j]
BY DEF FlowsOK, Goes, Flows, OpOK

\* A switch that awaits File.Clear still does, and the watcher is the same or none.
LEMMA WatcherKept ==
  ASSUME WatcherFollowsPath, main'.path = main.path,
         main'.watching \in {main.watching, NoPath},
         \A j \in Ops : op[j].pc = "clearing" => op'[j].pc = "clearing"
  PROVE  WatcherFollowsPath'
BY DEF WatcherFollowsPath

\* A step of a flow in the client, or of one that has no message.
LEMMA ClientStep ==
  ASSUME BotInv, NEW i \in Ops, NEW x, OpOK(x), Goes(i, x), op[i].pc # "clearing",
         main' = main, ClientOK(client'), FilesOK', MessagesOK',
         blocked' \in Ops \cup {NoOp},
         Link([op EXCEPT ![i] = x], main.path, toMain', toClient')
  PROVE  BotInv'
<1>1. /\ FlowsOK' /\ op' = [op EXCEPT ![i] = x]
      /\ \A j \in Ops : j # i => op'[j] = op[j]
  BY FlowGoes DEF BotInv
<1>2. WatcherFollowsPath'
  BY <1>1, WatcherKept DEF BotInv
<1>3. Link(op', main'.path, toMain', toClient')
  BY <1>1
<1> HIDE DEF Goes
<1> QED
  BY <1>1, <1>2, <1>3 DEF BotInv

\* A step of a flow in main that leaves botFilePath alone.
LEMMA MainStep ==
  ASSUME BotInv, NEW i \in Ops, NEW x, OpOK(x), Goes(i, x), op[i].pc # "clearing",
         MainOK(main'), main'.path = main.path, main'.watching \in {main.watching, NoPath},
         ClientOK(client'), FilesOK', MessagesOK', blocked' \in Ops \cup {NoOp},
         Link([op EXCEPT ![i] = x], main.path, toMain', toClient')
  PROVE  BotInv'
<1>1. /\ FlowsOK' /\ op' = [op EXCEPT ![i] = x]
      /\ \A j \in Ops : j # i => op'[j] = op[j]
  BY FlowGoes DEF BotInv
<1>2. WatcherFollowsPath'
  BY <1>1, WatcherKept DEF BotInv
<1>3. Link(op', main'.path, toMain', toClient')
  BY <1>1
<1> QED
  BY <1>1, <1>2, <1>3 DEF BotInv

\* A flow at rest, or that waits for the user, ngrok or a file, is free.
LEMMA FreeInState ==
  ASSUME BotInv, NEW i \in Ops,
         op[i].pc \in ByItself
  PROVE  Free(op, i, main.path, toMain, toClient) /\ op[i].pc # "clearing"
BY FreeAlone DEF BotInv, FlowsOK, MessagesOK, ByItself

-----------------------------------------------------------------------------
(* The client's gestures *)

LEMMA FirstCallType ==
  ASSUME NEW o, OpOK(o), Whole(o.val),
         o.kind \in {"switch", "open", "create", "close"},
         o.kind = "create" => o.val.path \in Bots
  PROVE  OpOK(At(o, FirstCall(o))) /\ FirstCall(o) \in AtCall
<1>1. /\ FirstCall(o) \in {"open", "set", "create", "close"}
      /\ FirstCall(o) = "open" => o.kind \in {"switch", "open"}
      /\ FirstCall(o) = "set" => o.val # NoBot
      /\ FirstCall(o) = "create" => o.kind = "create"
      /\ FirstCall(o) = "close" => o.kind = "close"
  BY DEF FirstCall
<1>2. o.val.path \in Bots \cup {NoPath}
  BY DEF OpOK, OpType, BotValue
<1>3. HoldsAt(o, FirstCall(o))
  BY <1>1, <1>2 DEF HoldsAt, Whole, NamesBot, HoldsBot
<1> QED
  BY <1>1, <1>3, AtType DEF AtCall, Points, Reading

\* closeNonGlobalTabs() and the first call; tc is the channel as the client leaves it.
LEMMA ProceedsKeeps ==
  ASSUME BotInv, NEW g \in Ops, NEW o, OpOK(o), Whole(o.val),
         o.kind \in {"switch", "open", "create", "close"},
         o.kind = "create" => o.val.path \in Bots,
         op[g].pc # "clearing", Proceeds(g, o), UNCHANGED <<main, file, changed, kept>>,
         Free(op, g, main.path, toMain, toClient'), toClient' \in Seq(ClientMessage)
  PROVE  BotInv'
<1> DEFINE x == At(o, FirstCall(o))
<1>1. OpOK(x) /\ x.pc \in AtCall /\ x \in OpType
  BY FirstCallType DEF At, OpOK, OpType
<1> HIDE DEF x
<1>2. /\ Goes(g, x) /\ toMain' = Append(toMain, Msg("call", g)) /\ blocked' = blocked
      /\ client' = [client EXCEPT !.tabs = FALSE]
  BY DEF Proceeds, ClientCalls, x
<1>3. /\ Link([op EXCEPT ![g] = x], main.path, toMain', toClient')
      /\ toMain' \in Seq(MainMessage)
  BY <1>1, <1>2, FreeSendsMain DEF BotInv, FlowsOK, MessagesOK
<1>4. ClientOK(client') /\ FilesOK'
  BY <1>2 DEF BotInv, ClientOK, FilesOK, Whole
<1> QED
  BY <1>1, <1>2, <1>3, <1>4, ClientStep DEF BotInv, MessagesOK

\* A flow goes on without a message.
LEMMA QuietKeeps ==
  ASSUME BotInv, NEW g \in Ops, NEW x, OpOK(x), x.pc # "clearing", op[g].pc # "clearing",
         Goes(g, x), UNCHANGED <<main, file, changed, kept, toMain, blocked>>,
         ClientOK(client'),
         Free(op, g, main.path, toMain, toClient'), toClient' \in Seq(ClientMessage)
  PROVE  BotInv'
<1>1. Link([op EXCEPT ![g] = x], main.path, toMain', toClient')
  BY FreeGoes DEF BotInv, FlowsOK, MessagesOK, OpOK
<1>2. FilesOK'
  BY DEF BotInv, FilesOK
<1> QED
  BY <1>1, <1>2, ClientStep DEF BotInv, MessagesOK

LEMMA AsksFirstKeeps ==
  ASSUME BotInv, NEW g \in Ops, NEW o, OpOK(o), Whole(o.val),
         o.kind \in {"switch", "create", "close"}, o.kind = "create" => o.val.path \in Bots,
         op[g].pc # "clearing", AsksFirst(g, o), UNCHANGED <<main, file, changed, kept>>,
         Free(op, g, main.path, toMain, toClient'), toClient' \in Seq(ClientMessage)
  PROVE  BotInv'
<1>1. CASE client.tabs
  <2>1. OpOK(At(o, "confirm")) /\ At(o, "confirm").pc = "confirm"
    <3>1. HoldsAt(o, "confirm")
      BY DEF HoldsAt, HoldsBot
    <3> QED
      BY <3>1, AtType DEF Points, Reading, AtUser
  <2>2. Goes(g, At(o, "confirm")) /\ UNCHANGED <<client, toMain, blocked>>
    BY <1>1 DEF AsksFirst
  <2> QED
    BY <2>1, <2>2, QuietKeeps DEF BotInv
<1>2. CASE ~client.tabs
  BY <1>2, ProceedsKeeps DEF AsksFirst
<1> QED
  BY <1>1, <1>2

LEMMA SwitchToKeeps ==
  ASSUME BotInv, NEW g \in Ops, NEW o, OpOK(o), Whole(o.val), o.kind = "switch",
         op[g].pc # "clearing", SwitchTo(g, o), UNCHANGED <<main, file, changed, kept>>,
         Free(op, g, main.path, toMain, toClient'), toClient' \in Seq(ClientMessage)
  PROVE  BotInv'
<1>1. CASE client.bot.path = o.bot
  <2>1. Goes(g, Idle) /\ UNCHANGED <<toMain, blocked>>
    BY <1>1 DEF SwitchTo, NewLiveChat, Ends
  <2>2. ClientOK(client')
    BY <1>1 DEF SwitchTo, NewLiveChat, BotInv, ClientOK, Whole
  <2>3. OpOK(Idle) /\ Idle.pc # "clearing"
    BY IdleOK
  <2> QED
    BY <2>1, <2>2, <2>3, QuietKeeps
<1>2. CASE client.bot.path # o.bot
  BY <1>2, AsksFirstKeeps DEF SwitchTo
<1> QED
  BY <1>1, <1>2

\* The gestures of the user.
LEMMA GestureKeeps ==
  ASSUME BotInv, NEW g \in Gestures, ClientGesture(g)
  PROVE  BotInv'
<1>0. g \in Ops
  BY DEF Ops
<1> DEFINE Quiet == UNCHANGED <<main, file, changed, kept>> /\ toClient' = toClient
<1>1. ASSUME op[g] = Idle
      PROVE  /\ Free(op, g, main.path, toMain, toClient) /\ op[g].pc # "clearing"
             /\ toClient \in Seq(ClientMessage)
  BY <1>0, <1>1, FreeInState, IdleType DEF BotInv, MessagesOK, ByItself
<1>2. ASSUME NEW b \in Bots, ConfirmAndSwitchBots(g, b) PROVE BotInv'
  <2> DEFINE o == [Idle EXCEPT !.kind = "switch", !.bot = b]
  <2>1. OpOK(o) /\ o.val = NoBot /\ o.kind = "switch"
    BY IdleType DEF OpOK, HoldsAt, Idle, NamesBot, HoldsBot, OpType
  <2>2. SwitchTo(g, o) /\ op[g] = Idle /\ Quiet
    BY <1>2 DEF ConfirmAndSwitchBots, Starts
  <2> HIDE DEF o
  <2> QED
    BY <1>0, <1>1, <2>1, <2>2, SwitchToKeeps DEF Whole
<1>3. ASSUME NEW b \in Bots, ConfirmAndOpenBotFromFile(g, b) PROVE BotInv'
  <2> DEFINE o == [Idle EXCEPT !.kind = "open", !.bot = b]
  <2>1. OpOK(o) /\ o.val = NoBot /\ o.kind = "open" /\ o.bot = b
    BY IdleType DEF OpOK, HoldsAt, Idle, NamesBot, HoldsBot, OpType
  <2>2. op[g] = Idle /\ Quiet
    BY <1>3 DEF ConfirmAndOpenBotFromFile, Starts
  <2>3. CASE client.bot.path = b
    <3>1. SwitchTo(g, o)
      BY <1>3, <2>3 DEF ConfirmAndOpenBotFromFile
    <3>2. Goes(g, Idle) /\ UNCHANGED <<toMain, blocked>> /\ ClientOK(client')
      BY <2>1, <2>3, <3>1 DEF SwitchTo, NewLiveChat, Ends, BotInv, ClientOK, Whole
    <3> QED
      BY <1>0, <1>1, <2>2, <3>2, IdleOK, QuietKeeps
  <2>4. CASE client.bot.path # b
    <3>1. Proceeds(g, o)
      BY <1>3, <2>4 DEF ConfirmAndOpenBotFromFile
    <3> HIDE DEF o
    <3> QED
      BY <1>0, <1>1, <2>1, <2>2, <3>1, ProceedsKeeps DEF Whole
  <2> QED
    BY <2>3, <2>4
<1>4. ASSUME NEW b \in Bots, ConfirmAndCreateBot(g, b) PROVE BotInv'
  <2> DEFINE o == [Idle EXCEPT !.kind = "create", !.bot = b, !.val = BotAt(b, {})]
  <2>1. OpOK(o) /\ o.val.path = b /\ o.kind = "create" /\ Whole(o.val)
    <3>1. BotAt(b, {}) \in BotValue /\ BotAt(b, {}).path = b
      BY DEF BotAt, BotValue
    <3> QED
      BY <3>1, IdleType, PathAssumption DEF OpOK, HoldsAt, Idle, NamesBot, HoldsBot, OpType, Whole
  <2>2. AsksFirst(g, o) /\ op[g] = Idle /\ Quiet
    BY <1>4 DEF ConfirmAndCreateBot, Starts
  <2> HIDE DEF o
  <2> QED
    BY <1>0, <1>1, <2>1, <2>2, AsksFirstKeeps
<1>5. CASE ConfirmAndCloseBot(g)
  <2> DEFINE o == [Idle EXCEPT !.kind = "close"]
  <2>1. OpOK(o) /\ o.val = NoBot /\ o.kind = "close"
    BY IdleType DEF OpOK, HoldsAt, Idle, NamesBot, HoldsBot, OpType
  <2>2. AsksFirst(g, o) /\ op[g] = Idle /\ Quiet
    BY <1>5 DEF ConfirmAndCloseBot, Starts
  <2> HIDE DEF o
  <2> QED
    BY <1>0, <1>1, <2>1, <2>2, AsksFirstKeeps DEF Whole
<1>6. ASSUME NEW x, OpOK(x), x.pc # "clearing", op[g] = Idle, Goes(g, x), Quiet,
             UNCHANGED <<client, toMain, blocked>>
      PROVE  BotInv'
  BY <1>0, <1>1, <1>6, QuietKeeps DEF BotInv
<1>7. ASSUME NEW b \in Bots, RemoveFromRecentBots(g, b) PROVE BotInv'
  <2> DEFINE o == [Idle EXCEPT !.kind = "forget", !.bot = b, !.pc = "confirm"]
  <2>1. OpOK(o) /\ o.pc # "clearing"
    BY IdleType DEF OpOK, HoldsAt, Idle, NamesBot, HoldsBot, OpType, Whole, Points, Reading, AtUser
  <2>2. Goes(g, o) /\ op[g] = Idle /\ Quiet /\ UNCHANGED <<client, toMain, blocked>>
    BY <1>7 DEF RemoveFromRecentBots, Starts
  <2> QED
    BY <1>6, <2>1, <2>2
<1>8. ASSUME NEW b \in Bots, NEW v \in BOOLEAN, OpenDeepLink(g, b, v) PROVE BotInv'
  <2> DEFINE o == [Idle EXCEPT !.kind = "link", !.bot = b, !.pc = "loading", !.val.overrides = v]
  <2>1. OpOK(o) /\ o.pc # "clearing"
    <3>1. [NoBot EXCEPT !.overrides = v] \in BotValue /\ Idle.val = NoBot
      BY DEF NoBot, BotValue, Idle
    <3>2. /\ o.kind = "link" /\ o.bot = b /\ o.pc = "loading"
          /\ o.val = [NoBot EXCEPT !.overrides = v]
      BY <3>1, IdleType DEF OpType, Idle
    <3>3. o \in OpType
      BY <3>1, <3>2, IdleType DEF OpType, Idle, Points, Reading
    <3> HIDE DEF o
    <3> QED
      BY <3>2, <3>3 DEF OpOK, HoldsAt, NamesBot, HoldsBot
  <2>2. Goes(g, o) /\ op[g] = Idle /\ Quiet /\ UNCHANGED <<client, toMain, blocked>>
    BY <1>8 DEF OpenDeepLink
  <2> QED
    BY <1>6, <2>1, <2>2
<1>9. ASSUME NEW s \in Services, RemoveServiceFromActiveBot(g, s) PROVE BotInv'
  <2> DEFINE o == [Idle EXCEPT !.kind = "remove", !.services = {s}, !.pc = "confirm"]
  <2>1. OpOK(o) /\ o.pc # "clearing"
    BY IdleType DEF OpOK, HoldsAt, Idle, NamesBot, HoldsBot, OpType, Whole, Points, Reading, AtUser
  <2>2. Goes(g, o) /\ op[g] = Idle /\ Quiet /\ UNCHANGED <<client, toMain, blocked>>
    BY <1>9 DEF RemoveServiceFromActiveBot, Starts
  <2> QED
    BY <1>6, <2>1, <2>2
<1>10. ASSUME NEW x, OpOK(x), x.pc \in AtCall, op[g] = Idle, ClientCalls(g, x), Quiet,
              UNCHANGED client
       PROVE  BotInv'
  <2>1. Goes(g, x) /\ toMain' = Append(toMain, Msg("call", g)) /\ blocked' = blocked
    BY <1>10 DEF ClientCalls
  <2>2. /\ Link([op EXCEPT ![g] = x], main.path, toMain', toClient')
        /\ toMain' \in Seq(MainMessage)
    BY <1>0, <1>1, <1>10, <2>1, FreeSendsMain DEF BotInv, FlowsOK, MessagesOK, OpOK
  <2>3. ClientOK(client') /\ FilesOK'
    BY <1>10 DEF BotInv, FilesOK
  <2> QED
    BY <1>0, <1>1, <1>10, <2>1, <2>2, <2>3, ClientStep DEF BotInv, MessagesOK
<1>11. ASSUME NEW s \in Services, LaunchConnectedServiceEditor(g, s) PROVE BotInv'
  <2> DEFINE o == [Idle EXCEPT !.kind = "add", !.services = {s}, !.pc = "add"]
  <2>1. OpOK(o) /\ o.pc \in AtCall
    BY IdleType DEF OpOK, HoldsAt, Idle, NamesBot, HoldsBot, OpType, Points, Reading, AtCall
  <2>2. ClientCalls(g, o) /\ op[g] = Idle /\ Quiet /\ UNCHANGED client
    BY <1>11 DEF LaunchConnectedServiceEditor, Starts
  <2> QED
    BY <1>10, <2>1, <2>2
<1>12. ASSUME NEW picked \in SUBSET Services, LaunchConnectedServicePicker(g, picked)
       PROVE  BotInv'
  <2> DEFINE v == [client.bot EXCEPT !.services = @ \cup picked]
             o == [Idle EXCEPT !.kind = "pick", !.services = picked, !.pc = "save", !.val = v]
  <2>1. client.bot # NoBot /\ ClientCalls(g, o) /\ op[g] = Idle /\ Quiet /\ UNCHANGED client
    BY <1>12 DEF LaunchConnectedServicePicker, Starts
  <2>2. v \in BotValue /\ v.path \in Bots
    <3>1. client.bot \in BotValue /\ Whole(client.bot)
      BY DEF BotInv, ClientOK
    <3> QED
      BY <2>1, <3>1 DEF BotValue, Whole
  <2> HIDE DEF v
  <2>3. OpOK(o) /\ o.pc \in AtCall
    BY <2>2, IdleType DEF OpOK, HoldsAt, Idle, NamesBot, HoldsBot, OpType, Points, Reading, AtCall
  <2> QED
    BY <1>10, <2>1, <2>3 DEF v
<1> QED
  BY <1>2, <1>3, <1>4, <1>5, <1>7, <1>8, <1>9, <1>11, <1>12 DEF ClientGesture

\* The user answers a question of the client's.
LEMMA ConfirmKeeps ==
  ASSUME BotInv, NEW g \in Ops, Confirm(g)
  PROVE  BotInv'
<1>1. /\ op[g].pc = "confirm" /\ toClient' = toClient
      /\ UNCHANGED <<main, file, changed, kept>>
  BY DEF Confirm
<1>2. /\ Free(op, g, main.path, toMain, toClient) /\ op[g].pc # "clearing"
      /\ toClient \in Seq(ClientMessage) /\ OpOK(op[g])
  BY <1>1, FreeInState DEF BotInv, MessagesOK, FlowsOK, ByItself
<1>3. /\ op[g].kind \in {"switch", "create", "close", "remove", "forget"} /\ Whole(op[g].val)
      /\ op[g].kind = "create" => op[g].val.path \in Bots
  BY <1>1, <1>2 DEF OpOK, HoldsAt
<1>4. CASE Ends(g) /\ UNCHANGED <<client, toMain, blocked>>
  BY <1>1, <1>2, <1>4, IdleOK, QuietKeeps DEF Ends, BotInv
<1>5. CASE /\ op[g].kind \in {"remove", "forget"} /\ UNCHANGED client
           /\ ClientCalls(g, At(op[g], op[g].kind))
  <2> DEFINE x == At(op[g], op[g].kind)
  <2>1. HoldsAt(op[g], op[g].kind) /\ op[g].kind \in Points /\ op[g].kind \in AtCall
    BY <1>5 DEF HoldsAt, HoldsBot, Points, Reading, AtCall
  <2>2. OpOK(x) /\ x \in OpType /\ x.pc \in AtCall
    BY <1>2, <2>1, AtType
  <2>3. Goes(g, x) /\ toMain' = Append(toMain, Msg("call", g)) /\ blocked' = blocked
    BY <1>5 DEF ClientCalls
  <2> HIDE DEF x
  <2>4. /\ Link([op EXCEPT ![g] = x], main.path, toMain', toClient')
        /\ toMain' \in Seq(MainMessage)
    BY <1>1, <1>2, <2>2, <2>3, FreeSendsMain DEF BotInv, FlowsOK, MessagesOK
  <2>5. ClientOK(client') /\ FilesOK'
    BY <1>1, <1>5 DEF BotInv, FilesOK
  <2> QED
    BY <1>1, <1>2, <2>2, <2>3, <2>4, <2>5, ClientStep DEF BotInv, MessagesOK
<1>6. CASE op[g].kind \notin {"remove", "forget"} /\ Proceeds(g, op[g])
  BY <1>1, <1>2, <1>3, <1>6, ProceedsKeeps
<1> QED
  BY <1>4, <1>5, <1>6 DEF Confirm

\* A step that leaves the flows, the messages and main alone.
LEMMA ClientAlone ==
  ASSUME BotInv, UNCHANGED <<main, op, toMain, toClient, blocked>>, ClientOK(client'), FilesOK'
  PROVE  BotInv'
<1>1. WatcherFollowsPath' /\ FlowsOK' /\ MessagesOK'
  BY DEF BotInv, WatcherFollowsPath, FlowsOK, MessagesOK
<1> QED
  BY <1>1 DEF BotInv

\* Tabs come and go, and files are edited.
LEMMA ExternalKeeps ==
  ASSUME BotInv, TabsChange \/ \E b \in Bots, s \in Services : EditFile(b, s)
  PROVE  BotInv'
<1>1. CASE TabsChange
  <2>1. ClientOK(client') /\ FilesOK'
    BY <1>1 DEF TabsChange, BotInv, ClientOK, FilesOK, Whole
  <2> QED
    BY <1>1, <2>1, ClientAlone DEF TabsChange
<1>2. ASSUME NEW b \in Bots, NEW s \in Services, EditFile(b, s) PROVE BotInv'
  <2>1. FilesOK'
    BY <1>2 DEF EditFile, BotInv, FilesOK
  <2> QED
    BY <1>2, <2>1, ClientAlone DEF EditFile, BotInv
<1> QED
  BY <1>1, <1>2

-----------------------------------------------------------------------------
(* The client's messages *)

\* The client takes a message of a flow.
LEMMA ClientTakes ==
  ASSUME BotInv, Receives, Head(toClient).what \in OfFlow \ {"clear"},
         NEW i, i = Head(toClient).flow, toClient' = Rest
  PROVE  /\ i \in Ops /\ Free(op, i, main.path, toMain, toClient')
         /\ FitsClient(op, Head(toClient)) /\ OpOK(op[i])
         /\ toClient' \in Seq(ClientMessage)
<1>1. toClient # <<>> /\ Head(toClient) \in ClientMessage
  BY TailAt DEF Receives, BotInv, MessagesOK
<1>2. i \in Ops
  BY <1>1, MessageTypes
<1> QED
  BY <1>1, <1>2, FreeByClient DEF BotInv, FlowsOK, MessagesOK, Rest

\* The client dispatches and is blocked.
LEMMA DispatchKeeps ==
  ASSUME BotInv, NEW i \in Ops, NEW x, OpOK(x), x.pc \in {"echo", "wasSet", "closed"},
         op[i].pc # "clearing", Dispatches(i, x), UNCHANGED <<main, client, file, changed, kept>>,
         Free(op, i, main.path, toMain, toClient'), toClient' \in Seq(ClientMessage)
  PROVE  BotInv'
<1>1. Goes(i, x) /\ toMain' = Append(toMain, Msg("sync", i)) /\ blocked' = i
  BY DEF Dispatches
<1>2. /\ Link([op EXCEPT ![i] = x], main.path, toMain', toClient')
      /\ toMain' \in Seq(MainMessage)
  BY <1>1, FreeSendsMain DEF BotInv, FlowsOK, MessagesOK, OpOK
<1>3. ClientOK(client') /\ FilesOK'
  BY DEF BotInv, FilesOK
<1> QED
  BY <1>1, <1>2, <1>3, ClientStep DEF BotInv, MessagesOK

\* Bot.Load.
LEMMA LoadBotKeeps ==
  ASSUME BotInv, NEW i \in Ops, NEW o, OpOK(o), o.val.path \in Bots, o.kind \in NamesBot,
         o.pc \in {"load", "wasSet"}, op[i].pc # "clearing", LoadBot(i, o),
         UNCHANGED <<main, file, changed, kept>>,
         Free(op, i, main.path, toMain, toClient'), toClient' \in Seq(ClientMessage)
  PROVE  BotInv'
<1>1. Whole(o.val)
  BY PathAssumption DEF Whole
<1>2. ASSUME NEW k \in {"create", "switch"}
      PROVE  /\ OpOK([o EXCEPT !.kind = k]) /\ [o EXCEPT !.kind = k].val = o.val
             /\ [o EXCEPT !.kind = k].kind = k
  BY <1>2 DEF OpOK, OpType, HoldsAt, HoldsBot, NamesBot
<1>3. CASE o.bot \notin client.recents
  <2>1. AsksFirst(i, [o EXCEPT !.kind = "create"])
    BY <1>3 DEF LoadBot
  <2> QED
    BY <1>1, <1>2, <2>1, AsksFirstKeeps
<1>4. CASE o.bot \in client.recents
  <2>1. SwitchTo(i, [o EXCEPT !.kind = "switch"])
    BY <1>4 DEF LoadBot
  <2> QED
    BY <1>1, <1>2, <2>1, SwitchToKeeps
<1> QED
  BY <1>3, <1>4

\* The steps of the client's event loop.
LEMMA ClientKeeps ==
  ASSUME BotInv, ClientSteps
  PROVE  BotInv'
<1>1. CASE StoreFollows
  <2>1. /\ Receives /\ toClient' = Tail(toClient) /\ toClient # <<>>
        /\ Head(toClient).what \in {"active", "closed", "recents"}
        /\ UNCHANGED <<main, file, changed, op, toMain, blocked, kept>>
    BY <1>1 DEF StoreFollows, Rest, Receives
  <2>2. Head(toClient) \in ClientMessage /\ toClient' \in Seq(ClientMessage)
    BY <2>1, TailAt DEF BotInv, MessagesOK
  <2>3. Link(op, main.path, toMain, toClient')
    BY <2>1, ActionTaken DEF BotInv, FlowsOK, MessagesOK, OfFlow
  <2>4. ClientOK(client')
    <3>1. CASE Head(toClient).what = "active"
      <4>1. /\ client' = [client EXCEPT !.bot = Reduced(@, Head(toClient).val)]
            /\ Head(toClient).val \in BotValue /\ Head(toClient).val.path \in Bots
        BY <1>1, <2>2, <3>1, MessageTypes DEF StoreFollows
      <4>2. /\ Reduced(client.bot, Head(toClient).val) \in BotValue
            /\ Reduced(client.bot, Head(toClient).val).path \in Bots
        BY <4>1 DEF Reduced, BotValue, BotInv, ClientOK
      <4> QED
        BY <4>1, <4>2, PathAssumption DEF BotInv, ClientOK, Whole
    <3>2. CASE Head(toClient).what = "closed"
      <4>1. client' = [client EXCEPT !.bot = NoBot]
        BY <1>1, <3>2 DEF StoreFollows
      <4> QED
        BY <4>1, IdleType DEF BotInv, ClientOK, Whole
    <3>3. CASE Head(toClient).what = "recents"
      <4>1. client' = [client EXCEPT !.recents = Head(toClient).list]
        BY <1>1, <3>3 DEF StoreFollows
      <4> QED
        BY <2>2, <3>3, <4>1, MessageTypes DEF BotInv, ClientOK, Whole
    <3> QED
      BY <2>1, <3>1, <3>2, <3>3
  <2>5. WatcherFollowsPath' /\ FilesOK' /\ FlowsOK' /\ MessagesOK'
    BY <2>1, <2>2 DEF BotInv, WatcherFollowsPath, FilesOK, FlowsOK, MessagesOK
  <2> QED
    BY <2>1, <2>3, <2>4, <2>5 DEF BotInv
<1>2. CASE AnswersAtOnce
  <2>1. /\ toClient' = Tail(toClient) /\ toClient # <<>>
        /\ Head(toClient).what \in {"clear", "paths"}
        /\ toMain' = Append(toMain, Msg("reply", Head(toClient).flow))
        /\ UNCHANGED <<main, client, file, changed, op, blocked, kept>>
    BY <1>2 DEF AnswersAtOnce, Rest, Receives
  <2>2. Head(toClient) \in ClientMessage /\ toClient' \in Seq(ClientMessage)
    BY <2>1, TailAt DEF BotInv, MessagesOK
  <2>3. Msg("reply", Head(toClient).flow) \in MainMessage
    BY <2>1, <2>2, MessageTypes DEF Msg, MainMessage, OfFlow
  <2>4. toMain' \in Seq(MainMessage)
    BY <2>1, <2>3, AppendAt DEF BotInv, MessagesOK
  <2>5. Link(op, main.path, toMain', toClient')
    BY <2>1, AnswerSent DEF BotInv, FlowsOK, MessagesOK
  <2>6. WatcherFollowsPath' /\ FilesOK' /\ FlowsOK' /\ MessagesOK'
    BY <2>1, <2>2, <2>4 DEF BotInv, WatcherFollowsPath, FilesOK, FlowsOK, MessagesOK
  <2> QED
    BY <2>1, <2>5, <2>6 DEF BotInv
<1>3. CASE SetActiveInClient
  <2> DEFINE i == Head(toClient).flow
  <2>1. /\ Receives /\ Head(toClient).what = "told" /\ toClient' = Rest
        /\ Dispatches(i, At(op[i], "echo")) /\ UNCHANGED <<main, client, file, changed, kept>>
    BY <1>3 DEF SetActiveInClient
  <2> HIDE DEF i
  <2>2. /\ i \in Ops /\ Free(op, i, main.path, toMain, toClient') /\ OpOK(op[i])
        /\ FitsClient(op, Head(toClient)) /\ toClient' \in Seq(ClientMessage)
    BY <2>1, ClientTakes DEF OfFlow, i
  <2>3. op[i].pc = "telling"
    BY <2>1, <2>2 DEF FitsClient, i
  <2>4. HoldsAt(op[i], "echo") /\ "echo" \in Points
    BY <2>2, <2>3 DEF OpOK, HoldsAt, HoldsBot, Points, Reading
  <2>5. OpOK(At(op[i], "echo")) /\ At(op[i], "echo").pc = "echo"
    BY <2>2, <2>4, AtType
  <2> QED
    BY <2>1, <2>2, <2>3, <2>5, DispatchKeeps
<1>4. CASE LoadIsCalled
  <2> DEFINE i == Head(toClient).flow
  <2>1. /\ Receives /\ Head(toClient).what = "load" /\ toClient' = Rest
        /\ LoadBot(i, op[i]) /\ UNCHANGED <<main, file, changed, kept>>
    BY <1>4 DEF LoadIsCalled
  <2> HIDE DEF i
  <2>2. /\ i \in Ops /\ Free(op, i, main.path, toMain, toClient') /\ OpOK(op[i])
        /\ FitsClient(op, Head(toClient)) /\ toClient' \in Seq(ClientMessage)
    BY <2>1, ClientTakes DEF OfFlow, i
  <2>3. op[i].pc = "load"
    BY <2>1, <2>2 DEF FitsClient, i
  <2>4. op[i].val.path \in Bots /\ op[i].kind \in NamesBot
    BY <2>2, <2>3 DEF OpOK, HoldsAt, HoldsBot
  <2> QED
    BY <2>1, <2>2, <2>3, <2>4, LoadBotKeeps
<1>5. ASSUME NEW i \in Ops, Answered(i), op[i].pc # "clearing"
      PROVE  /\ Free(op, i, main.path, toMain, toClient') /\ OpOK(op[i])
             /\ toClient' \in Seq(ClientMessage)
             /\ UNCHANGED <<main, file, changed, kept>>
  <2>1. /\ Receives /\ toClient' = Rest /\ Head(toClient) = Msg("reply", i)
        /\ UNCHANGED <<main, file, changed, kept>>
    BY <1>5 DEF Answered
  <2>2. Head(toClient).what \in OfFlow \ {"clear"} /\ i = Head(toClient).flow
    BY <2>1 DEF Msg, OfFlow
  <2> QED
    BY <2>1, <2>2, ClientTakes
<1>6. ASSUME NEW i \in Ops, OpenAnswered(i) PROVE BotInv'
  <2>1. op[i].pc \in {"opened", "userSet"} /\ Answered(i)
    BY <1>6 DEF OpenAnswered
  <2>2. /\ Free(op, i, main.path, toMain, toClient') /\ OpOK(op[i])
        /\ toClient' \in Seq(ClientMessage) /\ UNCHANGED <<main, file, changed, kept>>
    BY <1>5, <2>1
  <2>3. CASE op[i].pc = "opened" /\ op[i].val = NoBot
    <3>1. Goes(i, Idle) /\ UNCHANGED <<client, toMain, blocked>>
      BY <1>6, <2>3 DEF OpenAnswered, Ends
    <3> QED
      BY <2>1, <2>2, <3>1, IdleOK, QuietKeeps DEF BotInv
  <2>4. ASSUME NEW pc \in {"user", "set"}, ClientCalls(i, At(op[i], pc)), UNCHANGED client,
               ~(op[i].pc = "opened" /\ op[i].val = NoBot)
        PROVE  BotInv'
    <3> DEFINE x == At(op[i], pc)
    <3>1. /\ Goes(i, x) /\ toMain' = Append(toMain, Msg("call", i))
          /\ UNCHANGED <<client, blocked>>
      BY <2>4 DEF ClientCalls
    <3>2. op[i].val.path \in Bots
      BY <2>1, <2>2, <2>4 DEF OpOK, HoldsAt, Whole, HoldsBot, OpType, BotValue
    <3>3. HoldsAt(op[i], pc) /\ pc \in Points
      BY <2>4, <3>2 DEF HoldsAt, HoldsBot, Points
    <3>4. OpOK(x) /\ x.pc \in AtCall /\ x \in OpType
      BY <2>2, <3>3, AtType DEF AtCall
    <3> HIDE DEF x
    <3>5. /\ Link([op EXCEPT ![i] = x], main.path, toMain', toClient')
          /\ toMain' \in Seq(MainMessage)
      BY <2>2, <3>1, <3>4, FreeSendsMain DEF BotInv, FlowsOK, MessagesOK
    <3>6. ClientOK(client') /\ FilesOK'
      BY <2>2, <3>1 DEF BotInv, FilesOK
    <3> QED
      BY <2>1, <2>2, <3>1, <3>4, <3>5, <3>6, ClientStep DEF BotInv, MessagesOK
  <2> QED
    BY <1>6, <2>3, <2>4 DEF OpenAnswered
<1>7. ASSUME NEW i \in Ops, SetActiveAnswered(i) PROVE BotInv'
  <2>1. op[i].pc = "wasSet" /\ Answered(i)
    BY <1>7 DEF SetActiveAnswered
  <2>2. /\ Free(op, i, main.path, toMain, toClient') /\ OpOK(op[i])
        /\ toClient' \in Seq(ClientMessage) /\ UNCHANGED <<main, file, changed, kept>>
        /\ op[i].val.path \in Bots
    BY <1>5, <2>1 DEF OpOK, HoldsAt, HoldsBot
  <2>3. CASE op[i].kind = "open"
    <3>1. LoadBot(i, op[i]) /\ op[i].kind \in NamesBot
      BY <1>7, <2>3 DEF SetActiveAnswered, NamesBot
    <3> QED
      BY <2>1, <2>2, <3>1, LoadBotKeeps
  <2>4. CASE op[i].kind # "open"
    <3>1. Dispatches(i, op[i]) /\ UNCHANGED client
      BY <1>7, <2>4 DEF SetActiveAnswered
    <3> QED
      BY <2>1, <2>2, <3>1, DispatchKeeps
  <2> QED
    BY <2>3, <2>4
<1>8. ASSUME NEW i \in Ops, CloseAnswered(i) PROVE BotInv'
  <2>1. /\ op[i].pc = "closed" /\ Answered(i) /\ Dispatches(i, op[i]) /\ UNCHANGED client
    BY <1>8 DEF CloseAnswered
  <2> QED
    BY <1>5, <2>1, DispatchKeeps
<1>9. ASSUME NEW i \in Ops, OtherAnswered(i) PROVE BotInv'
  <2>1. /\ op[i].pc = "ended" /\ Answered(i) /\ Goes(i, Idle)
        /\ UNCHANGED <<client, toMain, blocked>>
    BY <1>9 DEF OtherAnswered, Ends
  <2> QED
    BY <1>5, <2>1, IdleOK, QuietKeeps DEF BotInv
<1>10. ASSUME NEW i \in Ops, MenusAnswered(i) PROVE BotInv'
  <2>1. op[i].pc = "shown" /\ Answered(i)
    BY <1>10 DEF MenusAnswered
  <2>2. /\ Free(op, i, main.path, toMain, toClient') /\ OpOK(op[i])
        /\ toClient' \in Seq(ClientMessage) /\ UNCHANGED <<main, file, changed, kept>>
    BY <1>5, <2>1
  <2>3. CASE op[i].kind \in {"add", "remove", "reload"}
    <3> DEFINE x == At(op[i], "telling")
    <3>1. /\ Goes(i, x) /\ toMain' = Append(toMain, Msg("reply", i))
          /\ UNCHANGED <<client, blocked>>
      BY <1>10, <2>3 DEF MenusAnswered
    <3>2. HoldsAt(op[i], "telling") /\ "telling" \in Points
      BY <2>1, <2>2, <2>3 DEF OpOK, HoldsAt, HoldsBot, Points
    <3>3. OpOK(x) /\ x.pc = "telling" /\ x \in OpType
      BY <2>2, <3>2, AtType
    <3> HIDE DEF x
    <3>4. /\ Link([op EXCEPT ![i] = x], main.path, toMain', toClient')
          /\ toMain' \in Seq(MainMessage)
      BY <2>2, <3>1, <3>3, FreeSendsMain DEF BotInv, FlowsOK, MessagesOK
    <3>5. ClientOK(client') /\ FilesOK'
      BY <2>2, <3>1 DEF BotInv, FilesOK
    <3> QED
      BY <2>1, <2>2, <3>1, <3>3, <3>4, <3>5, ClientStep DEF BotInv, MessagesOK
  <2>4. CASE op[i].kind \notin {"add", "remove", "reload"}
    <3>1. /\ Goes(i, Idle) /\ UNCHANGED <<toMain, blocked>>
          /\ \E chat \in BOOLEAN : client' = [client EXCEPT !.tabs = @ \/ chat]
      BY <1>10, <2>4 DEF MenusAnswered, Ends
    <3>2. ClientOK(client')
      BY <3>1 DEF BotInv, ClientOK, Whole
    <3> QED
      BY <2>1, <2>2, <3>1, <3>2, IdleOK, QuietKeeps
  <2> QED
    BY <2>3, <2>4
<1> QED
  BY <1>1, <1>2, <1>3, <1>4, <1>6, <1>7, <1>8, <1>9, <1>10 DEF ClientSteps

-----------------------------------------------------------------------------
(* The main process *)

\* Main takes a message of flow i.
LEMMA MainTakes ==
  ASSUME BotInv, NEW i \in Ops, NEW what \in {"call", "reply", "sync"},
         toMain # <<>>, Head(toMain) = Msg(what, i)
  PROVE  /\ Free(op, i, main.path, Tail(toMain), toClient)
         /\ Tail(toMain) \in Seq(MainMessage) /\ toClient \in Seq(ClientMessage)
         /\ op \in Flows /\ OpOK(op[i])
         /\ what = "call" => op[i].pc \in AtCall
         /\ what = "sync" => op[i].pc \in {"echo", "wasSet", "closed"}
<1>1. Head(toMain).flow = i /\ Head(toMain).what = what
  BY DEF Msg
<1>2. /\ Free(op, i, main.path, Tail(toMain), toClient) /\ FitsMain(op, Head(toMain))
      /\ Tail(toMain) \in Seq(MainMessage)
  BY <1>1, FreeByMain DEF BotInv, FlowsOK, MessagesOK
<1> QED
  BY <1>1, <1>2 DEF FitsMain, BotInv, FlowsOK, MessagesOK

\* Main goes on and sends the client a message of the flow.
LEMMA MainSendsKeeps ==
  ASSUME BotInv, NEW i \in Ops, NEW x, OpOK(x), NEW acts, Forwards(acts), NEW what,
         MainSends(i, x, acts, what),
         \/ what = "told" /\ x.pc = "telling"
         \/ what = "load" /\ x.pc = "load"
         \/ what = "reply" /\ x.pc \in {"opened", "userSet", "wasSet", "closed", "shown", "ended"},
         op[i].pc # "clearing", Free(op, i, main.path, toMain', toClient),
         toMain' \in Seq(MainMessage), MainOK(main'), main'.path = main.path,
         main'.watching \in {main.watching, NoPath}, FilesOK', UNCHANGED <<client, blocked>>
  PROVE  BotInv'
<1>1. Goes(i, x) /\ toClient' = toClient \o acts \o <<Msg(what, i)>>
  BY DEF MainSends
<1>2. /\ Link([op EXCEPT ![i] = x], main.path, toMain', toClient')
      /\ toClient' \in Seq(ClientMessage)
  BY <1>1, FreeSendsClient DEF BotInv, FlowsOK, MessagesOK, OpOK
<1> QED
  BY <1>1, <1>2, MainStep DEF BotInv, MessagesOK

\* Main goes on without a message.
LEMMA MainGoesKeeps ==
  ASSUME BotInv, NEW i \in Ops, NEW x, OpOK(x), x.pc # "clearing", Goes(i, x),
         op[i].pc # "clearing", Free(op, i, main.path, toMain', toClient),
         toMain' \in Seq(MainMessage), UNCHANGED <<main, toClient, client, blocked>>, FilesOK'
  PROVE  BotInv'
<1>1. Link([op EXCEPT ![i] = x], main.path, toMain', toClient')
  BY FreeGoes DEF BotInv, FlowsOK, MessagesOK, OpOK
<1> QED
  BY <1>1, MainStep DEF BotInv, MessagesOK

\* What the stores hold is the bot of a path, or none.
LEMMA ReducedType ==
  ASSUME NEW cur \in BotValue, NEW v \in BotValue
  PROVE  /\ Reduced(cur, v) \in BotValue /\ Reduced(cur, v).path = v.path
         /\ Whole(cur) /\ Whole(v) => Whole(Reduced(cur, v))
BY DEF Reduced, BotValue, Whole, NoBot

\* An action or none.
LEMMA ForwardsOne ==
  /\ Forwards(<<>>) /\ Forwards(<<Closing>>)
  /\ \A v \in BotValue : v.path \in Bots => Forwards(<<Active(v)>>)
  /\ \A l \in SUBSET Bots : Forwards(<<Recents(l)>>)
BY DEF Forwards, Closing, Active, Recents, ClientMessage, OfFlow

\* setActiveBot() begins.
LEMMA BeginsKeeps ==
  ASSUME BotInv, NEW i \in Ops, OpOK(op[i]), op[i].val.path \in Bots,
         BeginsSetActive(i), op[i].pc # "clearing",
         Free(op, i, main.path, toMain', toClient), toMain' \in Seq(MainMessage),
         UNCHANGED <<client, file, changed, blocked, kept>>
  PROVE  BotInv'
<1> DEFINE x == At(op[i], "clearing")
<1>1. /\ Goes(i, x) /\ main' = [main EXCEPT !.path = op[i].val.path]
      /\ toClient' = toClient \o <<>> \o <<Msg("clear", i)>>
  BY DEF BeginsSetActive, MainSends
<1>2. HoldsAt(op[i], "clearing") /\ "clearing" \in Points
  BY DEF HoldsAt, HoldsBot, Points, Reading
<1>3. OpOK(x) /\ x \in OpType /\ x.pc = "clearing" /\ x.val = op[i].val
  BY <1>2, AtType
<1> HIDE DEF x
<1>4. /\ MainOK(main') /\ main'.path = x.val.path /\ main'.watching = main.watching
  BY <1>1, <1>3 DEF BotInv, MainOK, Whole
<1>5. /\ Link([op EXCEPT ![i] = x], main'.path, toMain', toClient')
      /\ toClient' \in Seq(ClientMessage)
  BY <1>1, <1>3, <1>4, FreeAsksToClear DEF BotInv, FlowsOK, MessagesOK
<1>6. FlowsOK' /\ op'[i] = x /\ op' = [op EXCEPT ![i] = x]
  BY <1>1, <1>3, FlowGoes DEF BotInv
<1>7. WatcherFollowsPath'
  BY <1>3, <1>6 DEF WatcherFollowsPath
<1>8. FilesOK' /\ ClientOK(client') /\ blocked' \in Ops \cup {NoOp}
  BY <1>4 DEF BotInv, FilesOK
<1>9. Link(op', main'.path, toMain', toClient')
  BY <1>5, <1>6
<1> QED
  BY <1>4, <1>5, <1>6, <1>7, <1>8, <1>9 DEF BotInv, MessagesOK

\* The last setActiveBot() to begin is the last to be answered, with botFilePath; before
\* it, another one still awaits File.Clear.
LEMMA LastCleared ==
  ASSUME BotInv, NEW i \in Ops, Replied(i, "clearing")
  PROVE  \/ op[i].val.path = main.path
         \/ \E j \in Ops : j # i /\ op[j].pc = "clearing"
<1> SUFFICES ASSUME \A j \in Ops : j # i => op[j].pc # "clearing"
             PROVE  op[i].val.path = main.path
  OBVIOUS
<1>1. /\ op[i].pc = "clearing" /\ toMain # <<>> /\ toMain \in Seq(MainMessage)
      /\ toClient \in Seq(ClientMessage) /\ Head(toMain) = Msg("reply", i)
  BY DEF Replied, BotInv, MessagesOK
<1>2. toMain[1] = Head(toMain) /\ 1 \in 1..Len(toMain) /\ toMain[1].flow = i
  BY <1>1, TailAt DEF Msg
<1>3. Linked(op, toMain, toClient) /\ Ordered(op, main.path, toMain, toClient)
  BY DEF BotInv, Link
<1>4. ASSUME NEW k \in 1..Len(toClient) PROVE toClient[k].what # "clear"
  <2> SUFFICES ASSUME toClient[k].what = "clear" PROVE FALSE
    OBVIOUS
  <2>1. toClient[k] \in ClientMessage /\ toClient[k].what \in OfFlow
    BY <1>1 DEF OfFlow
  <2>2. toClient[k].flow \in Ops /\ op[toClient[k].flow].pc = "clearing"
    BY <1>3, <2>1, MessageTypes DEF Linked, FitsClient
  <2>3. toClient[k].flow # i
    BY <1>2, <1>3, <2>1 DEF Linked
  <2> QED
    BY <2>2, <2>3
<1>5. ASSUME NEW k \in 1..Len(toMain), k > 1 PROVE ~Clears(op, toMain[k])
  <2>1. toMain[k].flow \in Ops
    BY <1>1, MessageTypes
  <2>2. toMain[k].flow # i
    BY <1>2, <1>3, <1>5 DEF Linked
  <2> QED
    BY <2>1, <2>2 DEF Clears
<1>6. Clears(op, toMain[1])
  BY <1>1, <1>2 DEF Clears
<1> QED
  BY <1>2, <1>3, <1>4, <1>5, <1>6 DEF Ordered

\* setActiveBot() goes on when File.Clear is answered.
LEMMA ClearedKeeps ==
  ASSUME BotInv, NEW i \in Ops, Cleared(i)
  PROVE  BotInv'
<1> DEFINE v == op[i].val
           b == Reduced(main.bot, v)
           x == At(op[i], "updating")
<1>1. /\ Replied(i, "clearing") /\ op[i].pc = "clearing"
      /\ toMain' = Tail(toMain) /\ toMain # <<>> /\ Head(toMain) = Msg("reply", i)
      /\ main' = [main EXCEPT !.watching = v.path, !.bot = b, !.dir = v.path, !.endpoints = b]
      /\ Goes(i, x) /\ toClient' = toClient \o <<Active(v)>> \o <<Msg("paths", i)>>
      /\ changed' = FALSE /\ UNCHANGED <<client, file, blocked, kept>>
  BY DEF Cleared, Replied, MainSends
<1>2. /\ Free(op, i, main.path, toMain', toClient) /\ toMain' \in Seq(MainMessage)
      /\ op \in Flows /\ OpOK(op[i]) /\ toClient \in Seq(ClientMessage)
  BY <1>1, MainTakes
<1>3. v \in BotValue /\ v.path \in Bots /\ HoldsAt(op[i], "updating") /\ "updating" \in Points
  BY <1>1, <1>2 DEF OpOK, OpType, HoldsAt, HoldsBot, Points, Reading
<1>4. OpOK(x) /\ x \in OpType /\ x.pc = "updating"
  BY <1>2, <1>3, AtType
<1>5. Forwards(<<Active(v)>>) /\ b \in BotValue /\ b.path \in Bots
  BY <1>3, ForwardsOne, ReducedType DEF BotInv, MainOK
<1> HIDE DEF v, b, x
<1>6. /\ MainOK(main') /\ main'.path = main.path /\ main'.watching = v.path
  BY <1>1, <1>3, <1>5, PathAssumption DEF BotInv, MainOK, Whole
<1>7. /\ Link([op EXCEPT ![i] = x], main.path, toMain', toClient')
      /\ toClient' \in Seq(ClientMessage)
  BY <1>1, <1>2, <1>4, <1>5, FreeSendsClient
<1>8. /\ FlowsOK' /\ op' = [op EXCEPT ![i] = x]
      /\ \A j \in Ops : j # i => op'[j] = op[j]
  BY <1>1, <1>4, FlowGoes DEF BotInv
<1>9. WatcherFollowsPath'
  <2>1. v.path = main.path \/ \E j \in Ops : j # i /\ op[j].pc = "clearing"
    BY <1>1, LastCleared DEF v
  <2> QED
    BY <1>6, <1>8, <2>1 DEF WatcherFollowsPath
<1>10. FilesOK' /\ ClientOK(client') /\ blocked' \in Ops \cup {NoOp}
  BY <1>1 DEF BotInv, FilesOK
<1>11. Link(op', main'.path, toMain', toClient')
  BY <1>6, <1>7, <1>8
<1> QED
  BY <1>2, <1>6, <1>7, <1>8, <1>9, <1>10, <1>11 DEF BotInv, MessagesOK

\* Main forwards an action, if any, and goes on without a message.
LEMMA MainForwardsKeeps ==
  ASSUME BotInv, NEW i \in Ops, NEW x, OpOK(x), x.pc # "clearing", Goes(i, x),
         op[i].pc # "clearing", NEW acts, Forwards(acts), toClient' = toClient \o acts,
         Free(op, i, main.path, toMain', toClient), toMain' \in Seq(MainMessage),
         MainOK(main'), main'.path = main.path, main'.watching = main.watching,
         UNCHANGED <<client, blocked>>, FilesOK'
  PROVE  BotInv'
<1>1. Free(op, i, main.path, toMain', toClient') /\ toClient' \in Seq(ClientMessage)
  BY ForwardedAll DEF BotInv, FlowsOK, MessagesOK
<1>2. Link([op EXCEPT ![i] = x], main.path, toMain', toClient')
  BY <1>1, FreeGoes DEF BotInv, FlowsOK, OpOK
<1> QED
  BY <1>1, <1>2, MainStep DEF BotInv, MessagesOK

\* The commands of main and the ends of its awaits.
LEMMA MainKeeps ==
  ASSUME BotInv, NEW i \in Ops, MainSteps(i)
  PROVE  BotInv'
<1>1. ASSUME NEW pc, Called(i, pc)
      PROVE  /\ Free(op, i, main.path, toMain', toClient) /\ toMain' \in Seq(MainMessage)
             /\ OpOK(op[i]) /\ op[i].pc = pc /\ op[i].pc # "clearing"
  BY <1>1, MainTakes DEF Called, AtCall
<1>2. ASSUME NEW pc, Replied(i, pc)
      PROVE  /\ Free(op, i, main.path, toMain', toClient) /\ toMain' \in Seq(MainMessage)
             /\ OpOK(op[i]) /\ op[i].pc = pc
  BY <1>2, MainTakes DEF Replied
<1>3. ASSUME UNCHANGED <<main, file, changed, kept>> PROVE FilesOK' /\ MainOK(main')
  BY <1>3 DEF BotInv, FilesOK
<1>4. CASE OpenBot(i)
  <2>1. /\ Called(i, "open") /\ Goes(i, At(op[i], "loading"))
        /\ UNCHANGED <<main, client, file, changed, toClient, blocked, kept>>
    BY <1>4 DEF OpenBot
  <2>2. HoldsAt(op[i], "loading") /\ "loading" \in Points
    BY <1>1, <2>1 DEF OpOK, HoldsAt, HoldsBot, Points, Reading
  <2>3. OpOK(At(op[i], "loading")) /\ At(op[i], "loading").pc = "loading"
    BY <1>1, <2>1, <2>2, AtType
  <2> QED
    BY <1>1, <1>3, <2>1, <2>3, MainGoesKeeps
<1>5. CASE SetActiveBot(i)
  <2>1. Called(i, "set") /\ BeginsSetActive(i) /\ UNCHANGED <<client, file, changed, blocked, kept>>
    BY <1>5 DEF SetActiveBot
  <2>2. op[i].val.path \in Bots
    BY <1>1, <2>1 DEF OpOK, HoldsAt, HoldsBot
  <2> QED
    BY <1>1, <2>1, <2>2, BeginsKeeps
<1>6. CASE SetActiveEnds(i)
  <2>1. /\ Replied(i, "updating") /\ UNCHANGED <<main, client, file, changed, blocked, kept>>
        /\ IF op[i].kind = "link" THEN MainSends(i, At(op[i], "load"), <<>>, "load")
           ELSE MainSends(i, At(op[i], "wasSet"), <<>>, "reply")
    BY <1>6 DEF SetActiveEnds
  <2>2. /\ op[i].kind = "link" => HoldsAt(op[i], "load")
        /\ HoldsAt(op[i], "wasSet") /\ "load" \in Points /\ "wasSet" \in Points
    BY <1>2, <2>1 DEF OpOK, HoldsAt, HoldsBot, NamesBot, Points, Reading
  <2>3. /\ OpOK(At(op[i], "wasSet")) /\ At(op[i], "wasSet").pc = "wasSet"
        /\ op[i].kind = "link" => OpOK(At(op[i], "load")) /\ At(op[i], "load").pc = "load"
    BY <1>2, <2>1, <2>2, AtType
  <2> QED
    BY <1>2, <1>3, <2>1, <2>3, ForwardsOne, MainSendsKeeps
<1>7. CASE CloseBot(i)
  <2>1. /\ Called(i, "close") /\ main' = [main EXCEPT !.watching = NoPath, !.bot = NoBot]
        /\ changed' = FALSE /\ MainSends(i, At(op[i], "closed"), <<Closing>>, "reply")
        /\ UNCHANGED <<client, file, blocked, kept>>
    BY <1>7 DEF CloseBot
  <2>2. HoldsAt(op[i], "closed") /\ "closed" \in Points
    BY <1>1, <2>1 DEF OpOK, HoldsAt, HoldsBot, Points
  <2>3. OpOK(At(op[i], "closed")) /\ At(op[i], "closed").pc = "closed"
    BY <1>1, <2>1, <2>2, AtType
  <2>4. MainOK(main') /\ main'.path = main.path /\ main'.watching = NoPath
    BY <2>1, IdleType DEF BotInv, MainOK, Whole
  <2>5. FilesOK'
    BY <2>1 DEF BotInv, FilesOK
  <2> QED
    BY <1>1, <2>1, <2>3, <2>4, <2>5, ForwardsOne, MainSendsKeeps
<1>8. ASSUME NEW pc \in {"add", "remove"}, NEW v, Changes(i, pc, v),
             main.bot # NoBot => v \in BotValue /\ v.path = main.bot.path
      PROVE  BotInv'
  <2>1. Called(i, pc) /\ UNCHANGED <<main, client, file, changed, blocked, kept>>
    BY <1>8 DEF Changes
  <2>2. CASE main.bot # NoBot /\ main.bot.path \in main.recents
    <3> DEFINE x == [op[i] EXCEPT !.pc = "saving", !.val = v]
    <3>1. Goes(i, x) /\ UNCHANGED toClient
      BY <1>8, <2>2 DEF Changes
    <3>2. v \in BotValue /\ v.path \in Bots
      BY <1>8, <2>2 DEF BotInv, MainOK
    <3>3. OpOK(x) /\ x.pc = "saving"
      BY <1>1, <1>8, <2>1, <3>2 DEF OpOK, OpType, HoldsAt, HoldsBot, NamesBot, Points, Reading
    <3> QED
      BY <1>1, <1>3, <2>1, <3>1, <3>3, MainGoesKeeps
  <2>3. CASE ~(main.bot # NoBot /\ main.bot.path \in main.recents)
    <3>1. MainSends(i, At(op[i], "ended"), <<>>, "reply")
      BY <1>8, <2>3 DEF Changes
    <3>2. HoldsAt(op[i], "ended") /\ "ended" \in Points
      BY DEF HoldsAt, HoldsBot, Points, Reading
    <3>3. OpOK(At(op[i], "ended")) /\ At(op[i], "ended").pc = "ended"
      BY <1>1, <2>1, <3>2, AtType
    <3> QED
      BY <1>1, <1>3, <2>1, <3>1, <3>3, ForwardsOne, MainSendsKeeps
  <2> QED
    BY <2>2, <2>3
<1>9. CASE AddOrUpdateService(i)
  <2> DEFINE v == [main.bot EXCEPT !.services = @ \cup op[i].services]
  <2>1. v \in BotValue /\ v.path = main.bot.path
    BY DEF BotInv, MainOK, FlowsOK, Flows, OpType, BotValue
  <2> QED
    BY <1>8, <1>9, <2>1 DEF AddOrUpdateService
<1>10. CASE RemoveService(i)
  <2> DEFINE v == [main.bot EXCEPT !.services = @ \ op[i].services]
  <2>1. v \in BotValue /\ v.path = main.bot.path
    BY DEF BotInv, MainOK, FlowsOK, Flows, OpType, BotValue
  <2> QED
    BY <1>8, <1>10, <2>1 DEF RemoveService
<1>11. CASE SaveBot(i)
  <2>1. /\ Called(i, "save") /\ Goes(i, At(op[i], "saving"))
        /\ UNCHANGED <<main, client, file, changed, toClient, blocked, kept>>
    BY <1>11 DEF SaveBot
  <2>2. HoldsAt(op[i], "saving") /\ "saving" \in Points
    BY <1>1, <2>1 DEF OpOK, HoldsAt, HoldsBot, Points, Reading
  <2>3. OpOK(At(op[i], "saving")) /\ At(op[i], "saving").pc = "saving"
    BY <1>1, <2>1, <2>2, AtType
  <2> QED
    BY <1>1, <1>3, <2>1, <2>3, MainGoesKeeps
<1>12. CASE CreateBot(i)
  <2> DEFINE known == main.recents \cup {op[i].bot}
  <2>1. /\ Called(i, "create") /\ main' = [main EXCEPT !.recents = known]
        /\ toClient' = Append(toClient, Recents(known)) /\ Goes(i, At(op[i], "saving"))
        /\ UNCHANGED <<client, file, changed, blocked, kept>>
    BY <1>12 DEF CreateBot
  <2>2. /\ HoldsAt(op[i], "saving") /\ "saving" \in Points /\ op[i].bot \in Bots
        /\ OpOK(op[i]) /\ op[i].pc = "create"
    BY <1>1, <2>1 DEF OpOK, HoldsAt, HoldsBot, Points, Reading, NamesBot
  <2>3. OpOK(At(op[i], "saving")) /\ At(op[i], "saving").pc = "saving"
    BY <2>2, AtType
  <2>4. known \in SUBSET Bots
    BY <2>2 DEF BotInv, MainOK
  <2> HIDE DEF known
  <2>5. MainOK(main') /\ main'.path = main.path /\ main'.watching = main.watching
    BY <2>1, <2>4 DEF BotInv, MainOK, Whole
  <2>6. Forwards(<<Recents(known)>>) /\ Recents(known) \in ClientMessage
    BY <2>4, ForwardsOne DEF Recents, ClientMessage
  <2>7. toClient' = toClient \o <<Recents(known)>>
    BY <2>1, <2>6 DEF BotInv, MessagesOK
  <2>8. FilesOK'
    BY <2>1, <2>5 DEF BotInv, FilesOK
  <2> QED
    BY <1>1, <2>1, <2>3, <2>5, <2>6, <2>7, <2>8, MainForwardsKeeps
<1>13. CASE RemoveFromBotList(i)
  <2> DEFINE known == main.recents \ {op[i].bot}
  <2>1. /\ Called(i, "forget") /\ main' = [main EXCEPT !.recents = known]
        /\ MainSends(i, At(op[i], "ended"), <<Recents(known)>>, "reply")
        /\ UNCHANGED <<client, file, changed, blocked, kept>>
    BY <1>13 DEF RemoveFromBotList
  <2>2. HoldsAt(op[i], "ended") /\ "ended" \in Points
    BY DEF HoldsAt, HoldsBot, Points, Reading
  <2>3. OpOK(At(op[i], "ended")) /\ At(op[i], "ended").pc = "ended"
    BY <1>1, <2>1, <2>2, AtType
  <2>4. known \in SUBSET Bots
    BY DEF BotInv, MainOK
  <2> HIDE DEF known
  <2>5. MainOK(main') /\ main'.path = main.path /\ main'.watching = main.watching
    BY <2>1, <2>4 DEF BotInv, MainOK, Whole
  <2>6. FilesOK'
    BY <2>1, <2>5 DEF BotInv, FilesOK
  <2> QED
    BY <1>1, <2>1, <2>3, <2>4, <2>5, <2>6, ForwardsOne, MainSendsKeeps
<1>14. CASE ClientWasTold(i)
  <2>1. Replied(i, "telling") /\ UNCHANGED <<main, client, file, changed, blocked, kept>>
    BY <1>14 DEF ClientWasTold
  <2>2. CASE op[i].kind = "reload"
    <3>1. Goes(i, Idle) /\ UNCHANGED toClient
      BY <1>14, <2>2 DEF ClientWasTold, Ends
    <3> QED
      BY <1>2, <1>3, <2>1, <3>1, IdleOK, MainGoesKeeps
  <2>3. CASE op[i].kind # "reload"
    <3>1. MainSends(i, At(op[i], "ended"), <<>>, "reply")
      BY <1>14, <2>3 DEF ClientWasTold
    <3>2. HoldsAt(op[i], "ended") /\ "ended" \in Points
      BY DEF HoldsAt, HoldsBot, Points, Reading
    <3>3. OpOK(At(op[i], "ended")) /\ At(op[i], "ended").pc = "ended"
      BY <1>2, <2>1, <3>2, AtType
    <3> QED
      BY <1>2, <1>3, <2>1, <3>1, <3>3, ForwardsOne, MainSendsKeeps
  <2> QED
    BY <2>2, <2>3
<1>15. CASE MainSyncs(i)
  <2> DEFINE v == IF op[i].pc = "closed" THEN NoBot ELSE op[i].val
             x == At(op[i], "menus")
  <2>1. /\ toMain # <<>> /\ Head(toMain) = Msg("sync", i)
        /\ main' = [main EXCEPT !.bot = Reduced(@, v)]
        /\ client' = [client EXCEPT !.bot = Reduced(@, v)]
        /\ toMain' = Append(Tail(toMain), Msg("call", i)) /\ Goes(i, x)
        /\ blocked' = NoOp /\ UNCHANGED <<file, changed, toClient, kept>>
    BY <1>15 DEF MainSyncs
  <2>2. /\ Free(op, i, main.path, Tail(toMain), toClient) /\ OpOK(op[i]) /\ op \in Flows
        /\ Tail(toMain) \in Seq(MainMessage) /\ toClient \in Seq(ClientMessage)
        /\ op[i].pc \in {"echo", "wasSet", "closed"}
    BY <2>1, MainTakes
  <2>3. v \in BotValue /\ Whole(v)
    BY <2>2, IdleType, PathAssumption DEF OpOK, OpType, HoldsAt, HoldsBot, Whole
  <2>4. HoldsAt(op[i], "menus") /\ "menus" \in Points
    BY <2>2 DEF OpOK, HoldsAt, HoldsBot, Points
  <2>5. OpOK(x) /\ x.pc \in AtCall /\ x \in OpType
    BY <2>2, <2>4, AtType DEF AtCall
  <2> HIDE DEF v, x
  <2>6. /\ Reduced(main.bot, v) \in BotValue /\ Whole(Reduced(main.bot, v))
        /\ Reduced(client.bot, v) \in BotValue /\ Whole(Reduced(client.bot, v))
    BY <2>3, ReducedType DEF BotInv, MainOK, ClientOK
  <2>7. /\ MainOK(main') /\ main'.path = main.path /\ main'.watching = main.watching
        /\ ClientOK(client')
    BY <2>1, <2>6 DEF BotInv, MainOK, ClientOK
  <2>8. FilesOK' /\ blocked' \in Ops \cup {NoOp}
    BY <2>1, <2>7 DEF BotInv, FilesOK
  <2>9. /\ Link([op EXCEPT ![i] = x], main.path, toMain', toClient')
        /\ toMain' \in Seq(MainMessage)
    BY <2>1, <2>2, <2>5, FreeSendsMain
  <2>10. op[i].pc # "clearing"
    BY <2>2
  <2> QED
    BY <2>1, <2>2, <2>5, <2>7, <2>8, <2>9, <2>10, MainStep DEF MessagesOK
<1>16. ASSUME NEW from \in {"user", "menus"}, NEW to \in {"userSet", "shown"}, Called(i, from),
              from = "user" <=> to = "userSet", MainSends(i, At(op[i], to), <<>>, "reply"),
              UNCHANGED <<main, client, file, changed, blocked, kept>>
       PROVE  BotInv'
  <2>1. HoldsAt(op[i], to) /\ to \in Points
    BY <1>1, <1>16 DEF OpOK, HoldsAt, HoldsBot, Points
  <2>2. OpOK(At(op[i], to)) /\ At(op[i], to).pc = to
    BY <1>1, <1>16, <2>1, AtType
  <2> QED
    BY <1>1, <1>3, <1>16, <2>2, ForwardsOne, MainSendsKeeps
<1>17. CASE SetCurrentUser(i) \/ UpdateMenus(i)
  BY <1>16, <1>17 DEF SetCurrentUser, UpdateMenus
<1> QED
  BY <1>4, <1>5, <1>6, <1>7, <1>9, <1>10, <1>11, <1>12, <1>13, <1>14, <1>15, <1>17, ClearedKeeps
     DEF MainSteps

-----------------------------------------------------------------------------
(* Files, deep links and the watcher *)

\* loadBotWithRetry() ends, with a bot of a path or with none.
LEMMA LoadedKeeps ==
  ASSUME BotInv, NEW i \in Ops, op[i].pc \in Reading \cup {"prompt"}, NEW v \in BotValue,
         Whole(v), NEW acts, Forwards(acts), Loaded(i, v, acts),
         MainOK(main'), main'.path = main.path, main'.watching = main.watching,
         UNCHANGED <<client, file, changed, toMain, blocked, kept>>
  PROVE  BotInv'
<1>1. /\ Free(op, i, main.path, toMain, toClient) /\ op[i].pc # "clearing"
      /\ OpOK(op[i]) /\ toMain' = toMain /\ toMain \in Seq(MainMessage)
  BY FreeInState DEF BotInv, FlowsOK, MessagesOK, Reading, ByItself
<1>2. FilesOK'
  BY DEF BotInv, FilesOK
<1>3. CASE op[i].kind \in {"link", "reload"} /\ v = NoBot
  <2>1. Goes(i, Idle) /\ toClient' = toClient \o acts
    BY <1>3 DEF Loaded, Ends
  <2> QED
    BY <1>1, <1>2, <2>1, IdleOK, MainForwardsKeeps
<1>4. CASE op[i].kind = "link" /\ v # NoBot
  <2> DEFINE w == [v EXCEPT !.overrides = op[i].val.overrides]
             x == [op[i] EXCEPT !.pc = "tunnel", !.val = w]
  <2>1. Goes(i, x) /\ toClient' = toClient \o acts
    BY <1>4 DEF Loaded
  <2>2. op[i].val \in BotValue
    BY <1>1 DEF OpOK, OpType
  <2>3. w \in BotValue /\ w.path \in Bots
    BY <1>4, <2>2 DEF BotValue, Whole
  <2> HIDE DEF w
  <2>4. OpOK(x) /\ x.pc = "tunnel"
    BY <1>1, <2>3 DEF OpOK, OpType, HoldsAt, HoldsBot, NamesBot, Points, AtUser
  <2> HIDE DEF x
  <2> QED
    BY <1>1, <1>2, <2>1, <2>4, MainForwardsKeeps
<1>5. CASE op[i].kind = "reload" /\ v # NoBot
  <2> DEFINE x == [op[i] EXCEPT !.pc = "read", !.val = v]
  <2>1. Goes(i, x) /\ toClient' = toClient \o acts
    BY <1>5 DEF Loaded
  <2>2. v.path \in Bots
    BY <1>5 DEF BotValue, Whole
  <2>3. OpOK(x) /\ x.pc = "read"
    BY <1>1, <1>5, <2>2 DEF OpOK, OpType, HoldsAt, HoldsBot, NamesBot, Points
  <2> HIDE DEF x
  <2> QED
    BY <1>1, <1>2, <2>1, <2>3, MainForwardsKeeps
<1>6. CASE op[i].kind \notin {"link", "reload"}
  <2> DEFINE x == [op[i] EXCEPT !.pc = "opened", !.val = v]
  <2>1. MainSends(i, x, acts, "reply")
    BY <1>6 DEF Loaded
  <2>2. OpOK(x) /\ x.pc = "opened"
    BY <1>1 DEF OpOK, OpType, HoldsAt, HoldsBot, NamesBot, Points
  <2> HIDE DEF x
  <2> QED
    BY <1>1, <1>2, <2>1, <2>2, MainSendsKeeps
<1> QED
  BY <1>3, <1>4, <1>5, <1>6

\* A flow whose bot is being read asks for a secret, or tries one, perhaps again.
LEMMA ReadingKeeps ==
  ASSUME BotInv, NEW i \in Ops, op[i].pc \in Reading \cup {"prompt"},
         UNCHANGED <<main, client, file, changed, toMain, toClient, blocked, kept>>,
         NEW pc \in Reading \cup {"prompt"}, Goes(i, At(op[i], pc))
  PROVE  BotInv'
<1>1. /\ Free(op, i, main.path, toMain, toClient) /\ op[i].pc # "clearing"
      /\ OpOK(op[i]) /\ toMain \in Seq(MainMessage)
  BY FreeInState DEF BotInv, FlowsOK, MessagesOK, Reading, ByItself
<1>2. FilesOK'
  BY DEF BotInv, FilesOK
<1>3. OpOK(At(op[i], pc)) /\ At(op[i], pc).pc = pc /\ pc # "clearing"
  <2>1. HoldsAt(op[i], pc) /\ pc \in Points
    BY <1>1 DEF OpOK, HoldsAt, HoldsBot, Points, Reading, AtUser
  <2> QED
    BY <1>1, <2>1, AtType DEF Reading
<1> QED
  BY <1>1, <1>2, <1>3, MainGoesKeeps

\* loadBotWithRetry() has nothing.
LEMMA LoadFailsKeeps ==
  ASSUME BotInv, NEW i \in Ops, op[i].pc \in Reading \cup {"prompt"}, LoadFails(i),
         UNCHANGED <<client, file, changed, toMain, blocked, kept>>
  PROVE  BotInv'
<1>1. Loaded(i, NoBot, <<>>) /\ UNCHANGED main /\ MainOK(main)
  BY DEF LoadFails, BotInv
<1> QED
  BY <1>1, IdleType, ForwardsOne, LoadedKeeps DEF Whole

\* A bot as it is read from a file.
LEMMA BotAtType ==
  ASSUME NEW b \in Bots, NEW s \in SUBSET Services
  PROVE  /\ BotAt(b, s) \in BotValue /\ BotAt(b, s).path = b /\ Whole(BotAt(b, s))
         /\ BotAt(b, s) # NoBot
<1>1. BotAt(b, s) \in BotValue /\ BotAt(b, s).path = b
  BY DEF BotAt, BotValue
<1>2. NoBot.path = NoPath /\ b # NoPath
  BY PathAssumption DEF NoBot
<1> QED
  BY <1>1, <1>2 DEF Whole

\* A reload fills the store, the endpoints and the client's store.
LEMMA ReloadKeeps ==
  ASSUME BotInv, NEW r \in Ops, ReloadEnds(r)
  PROVE  BotInv'
<1> DEFINE v == op[r].val
           b == Reduced(main.bot, v)
           x == At(op[r], "telling")
<1>1. /\ main' = [main EXCEPT !.bot = b, !.endpoints = b] /\ op[r].pc = "read"
      /\ MainSends(r, x, <<Active(v)>>, "told")
      /\ kept' = [kept EXCEPT ![v.path] = @ \cap v.services]
      /\ UNCHANGED <<client, file, changed, toMain, blocked>>
  BY DEF ReloadEnds
<1>2. OpOK(op[r])
  BY DEF BotInv, FlowsOK
<1>3. v \in BotValue /\ v.path \in Bots /\ HoldsAt(op[r], "telling") /\ "telling" \in Points
  BY <1>1, <1>2 DEF OpOK, OpType, HoldsAt, HoldsBot, Points
<1>4. OpOK(x) /\ x.pc = "telling"
  BY <1>2, <1>3, AtType
<1>5. b \in BotValue /\ b.path \in Bots /\ Forwards(<<Active(v)>>)
  BY <1>3, ReducedType, ForwardsOne DEF BotInv, MainOK
<1> HIDE DEF b, x
<1>6. MainOK(main') /\ main'.path = main.path /\ main'.watching = main.watching
  BY <1>1, <1>5, PathAssumption DEF BotInv, MainOK, Whole
<1>7. /\ Free(op, r, main.path, toMain, toClient) /\ op[r].pc # "clearing"
      /\ toMain \in Seq(MainMessage) /\ toMain' = toMain
  BY <1>1, FreeInState DEF BotInv, MessagesOK, ByItself
<1>8. FilesOK'
  BY <1>1, <1>3, <1>6 DEF BotInv, FilesOK
<1> QED
  BY <1>1, <1>4, <1>5, <1>6, <1>7, <1>8, MainSendsKeeps

\* Reads and writes of bot files end.
LEMMA FilesKeep ==
  ASSUME BotInv, NEW i \in Ops, FileSteps(i) \/ PromptAnswered(i)
  PROVE  BotInv'
<1>0. OpOK(op[i])
  BY DEF BotInv, FlowsOK
<1>1. CASE LoadEnds(i)
  <2> DEFINE b == op[i].bot
             known == main.recents \cup {b}
             acts == IF b \in main.recents THEN <<>> ELSE <<Recents(known)>>
  <2>1. op[i].pc \in Reading /\ UNCHANGED <<client, file, changed, toMain, blocked, kept>>
    BY <1>1 DEF LoadEnds
  <2>2. b \in Bots /\ known \in SUBSET Bots /\ file[b] \in SUBSET Services
    BY <1>0, <2>1 DEF OpOK, HoldsAt, BotInv, MainOK, FilesOK, Reading
  <2>3. Forwards(acts)
    BY <2>2, ForwardsOne
  <2>4. MainOK(main)
    BY DEF BotInv
  <2>5. ASSUME Loaded(i, BotAt(b, file[b]), acts), main' = [main EXCEPT !.recents = known]
        PROVE  BotInv'
    <3>1. MainOK(main') /\ main'.path = main.path /\ main'.watching = main.watching
      BY <2>2, <2>4, <2>5 DEF MainOK, Whole
    <3> HIDE DEF acts, known, b
    <3> QED
      BY <2>1, <2>2, <2>3, <2>5, <3>1, BotAtType, LoadedKeeps
  <2>6. ASSUME LoadFails(i) PROVE BotInv'
    BY <2>1, <2>6, LoadFailsKeeps
  <2>7. ASSUME NEW pc \in {"retrying", "prompt"}, Goes(i, At(op[i], pc)),
               UNCHANGED <<main, toClient>>
        PROVE  BotInv'
    BY <2>1, <2>7, ReadingKeeps DEF Reading
  <2> QED
    BY <1>1, <2>5, <2>6, <2>7 DEF LoadEnds
<1>2. CASE SaveEnds(i)
  <2> DEFINE v == op[i].val
  <2>1. /\ op[i].pc = "saving" /\ Saved(i) /\ UNCHANGED <<client, toMain, blocked>>
        /\ file' = [file EXCEPT ![v.path] = v.services]
        /\ changed' = (changed \/ main.watching = v.path)
        /\ kept' = [kept EXCEPT ![v.path] = KeptAfter(op[i])]
    BY <1>2 DEF SaveEnds
  <2>2. /\ v \in BotValue /\ v.path \in Bots /\ v.services \in SUBSET Services
        /\ op[i].services \in SUBSET Services
        /\ op[i].kind \in {"add", "remove", "pick", "create"}
    BY <1>0, <2>1 DEF OpOK, OpType, HoldsAt, HoldsBot, BotValue
  <2>3. KeptAfter(op[i]) \in SUBSET Services
    <3>1. kept[v.path] \in SUBSET Services
      BY <2>2 DEF BotInv, FilesOK
    <3> QED
      BY <2>2, <3>1 DEF KeptAfter
  <2> HIDE DEF v
  <2>4. ASSUME main'.watching = main.watching PROVE FilesOK'
    <3>1. file' \in [Bots -> SUBSET Services] /\ kept' \in [Bots -> SUBSET Services]
      BY <2>1, <2>2, <2>3 DEF BotInv, FilesOK
    <3>2. changed' \in BOOLEAN /\ (changed' => main'.watching \in Bots)
      BY <2>1, <2>2, <2>4 DEF BotInv, FilesOK
    <3> QED
      BY <3>1, <3>2 DEF FilesOK
  <2>5. /\ Free(op, i, main.path, toMain, toClient) /\ op[i].pc # "clearing"
        /\ toMain \in Seq(MainMessage) /\ toMain' = toMain
    BY <2>1, FreeInState DEF BotInv, MessagesOK, ByItself
  <2>6. CASE op[i].kind \in {"add", "remove"}
    <3>1. /\ main' = [main EXCEPT !.bot = Reduced(@, v)]
          /\ MainSends(i, At(op[i], "telling"), <<Active(v)>>, "told")
      BY <2>1, <2>6 DEF Saved, v
    <3>2. HoldsAt(op[i], "telling") /\ "telling" \in Points
      BY <2>2 DEF HoldsAt, HoldsBot, Points, Reading, v
    <3>3. OpOK(At(op[i], "telling")) /\ At(op[i], "telling").pc = "telling"
      BY <1>0, <3>2, AtType
    <3>4. Forwards(<<Active(v)>>)
      BY <2>2, ForwardsOne
    <3>5. Reduced(main.bot, v) \in BotValue /\ Reduced(main.bot, v).path \in Bots
      BY <2>2, ReducedType DEF BotInv, MainOK
    <3>6. MainOK(main') /\ main'.path = main.path /\ main'.watching = main.watching
      BY <3>1, <3>5, PathAssumption DEF BotInv, MainOK, Whole
    <3> QED
      BY <2>1, <2>4, <2>5, <3>1, <3>3, <3>4, <3>6, MainSendsKeeps
  <2>7. CASE op[i].kind \notin {"add", "remove"}
    <3> DEFINE pc == IF op[i].kind = "create" THEN "opened" ELSE "ended"
    <3>1. MainSends(i, At(op[i], pc), <<>>, "reply") /\ UNCHANGED main
      BY <2>1, <2>7 DEF Saved
    <3>2. HoldsAt(op[i], pc) /\ pc \in Points
      BY <2>2, PathAssumption DEF HoldsAt, HoldsBot, Points, Reading, Whole, v
    <3>3. OpOK(At(op[i], pc)) /\ At(op[i], pc).pc = pc
      BY <1>0, <3>2, AtType
    <3>4. MainOK(main') /\ main'.path = main.path /\ main'.watching = main.watching
      BY <3>1 DEF BotInv
    <3> QED
      BY <2>1, <2>4, <2>5, <3>1, <3>3, <3>4, ForwardsOne, MainSendsKeeps
  <2> QED
    BY <2>6, <2>7
<1>3. CASE SaveFails(i)
  <2> DEFINE x == IF op[i].kind = "create" THEN [op[i] EXCEPT !.pc = "opened", !.val = NoBot]
                  ELSE At(op[i], "ended")
  <2>1. /\ op[i].pc = "saving" /\ MainSends(i, x, <<>>, "reply")
        /\ UNCHANGED <<main, client, file, changed, toMain, blocked, kept>>
    BY <1>3 DEF SaveFails
  <2>2. OpOK(x) /\ x.pc \in {"opened", "ended"}
    <3>1. CASE op[i].kind = "create"
      BY <1>0, <3>1, IdleType DEF OpOK, OpType, HoldsAt, HoldsBot, NamesBot, Points, Reading, Whole
    <3>2. CASE op[i].kind # "create"
      <4>1. HoldsAt(op[i], "ended") /\ "ended" \in Points
        BY DEF HoldsAt, HoldsBot, Points, Reading
      <4> QED
        BY <1>0, <3>2, <4>1, AtType
    <3> QED
      BY <3>1, <3>2
  <2> HIDE DEF x
  <2>3. /\ Free(op, i, main.path, toMain, toClient) /\ op[i].pc # "clearing"
        /\ toMain \in Seq(MainMessage) /\ toMain' = toMain
    BY <2>1, FreeInState DEF BotInv, MessagesOK, ByItself
  <2>4. FilesOK' /\ MainOK(main')
    BY <2>1 DEF BotInv, FilesOK
  <2> QED
    BY <2>1, <2>2, <2>3, <2>4, ForwardsOne, MainSendsKeeps
<1>4. CASE PromptAnswered(i)
  <2>1. op[i].pc = "prompt" /\ UNCHANGED <<client, file, changed, toMain, blocked, kept>>
    BY <1>4 DEF PromptAnswered
  <2>2. ASSUME Goes(i, At(op[i], "loading")), UNCHANGED <<main, toClient>> PROVE BotInv'
    BY <2>1, <2>2, ReadingKeeps DEF Reading
  <2>3. ASSUME LoadFails(i) PROVE BotInv'
    BY <2>1, <2>3, LoadFailsKeeps
  <2> QED
    BY <1>4, <2>2, <2>3 DEF PromptAnswered
<1> QED
  BY <1>1, <1>2, <1>3, <1>4, ReloadKeeps DEF FileSteps

\* A deep link goes on when ngrok runs, or fails.
LEMMA TunnelKeeps ==
  ASSUME BotInv, NEW i \in Ops, Tunnel(i)
  PROVE  BotInv'
<1>1. /\ op[i].pc = "tunnel" /\ UNCHANGED <<client, file, changed, toMain, blocked, kept>>
  BY DEF Tunnel, TunnelConnects, TunnelFails
<1>2. /\ Free(op, i, main.path, toMain, toClient) /\ op[i].pc # "clearing"
      /\ OpOK(op[i]) /\ toMain \in Seq(MainMessage) /\ toMain' = toMain
  BY <1>1, FreeInState DEF BotInv, FlowsOK, MessagesOK, ByItself
<1>3. CASE TunnelConnects(i)
  <2>1. BeginsSetActive(i) /\ op[i].val.path \in Bots
    BY <1>1, <1>2, <1>3 DEF TunnelConnects, OpOK, HoldsAt, HoldsBot
  <2> QED
    BY <1>1, <1>2, <2>1, BeginsKeeps
<1>4. CASE TunnelFails(i)
  <2>1. Goes(i, Idle) /\ UNCHANGED <<main, toClient>> /\ FilesOK'
    BY <1>4 DEF TunnelFails, Ends, BotInv, FilesOK
  <2> QED
    BY <1>1, <1>2, <2>1, IdleOK, MainGoesKeeps
<1> QED
  BY <1>3, <1>4 DEF Tunnel

\* A change of the watched file is reported.
LEMMA FileChangeKeeps ==
  ASSUME BotInv, NEW r \in Reloads, OnFileChange(r)
  PROVE  BotInv'
<1> DEFINE p == main.watching
           o == [Idle EXCEPT !.kind = "reload", !.bot = p, !.pc = "loading"]
<1>0. r \in Ops
  BY DEF Ops
<1>1. /\ changed /\ op[r] = Idle /\ changed' = FALSE
      /\ UNCHANGED <<client, file, toMain, blocked, kept>>
  BY DEF OnFileChange
<1>2. p \in Bots /\ file[p] \in SUBSET Services
  BY <1>1 DEF BotInv, FilesOK
<1>3. OpOK(o) /\ o.pc = "loading"
  BY <1>2, IdleType DEF OpOK, OpType, HoldsAt, HoldsBot, NamesBot, Points, Reading, Idle
<1>4. FilesOK'
  BY <1>1 DEF BotInv, FilesOK
<1>5. /\ Free(op, r, main.path, toMain, toClient) /\ op[r].pc = "idle"
      /\ toMain \in Seq(MainMessage) /\ toMain' = toMain
  BY <1>0, <1>1, FreeInState, IdleType DEF BotInv, MessagesOK, ByItself
<1> HIDE DEF o
<1>6. UNCHANGED <<main, toClient>>
  BY DEF OnFileChange
<1>7. CASE UNCHANGED op
  BY <1>1, <1>4, <1>6, <1>7, ClientAlone DEF BotInv
<1>8. CASE Goes(r, o)
  BY <1>0, <1>1, <1>3, <1>4, <1>5, <1>6, <1>8, MainGoesKeeps
<1> QED
  BY <1>7, <1>8 DEF OnFileChange, o

-----------------------------------------------------------------------------
\* Every flow holds what it needs at each await and has at most one message, and the
\* calls of File.Clear are answered in the order of the switches that await them.
THEOREM BotInvariant == Spec => []BotInv
<1>1. Init => BotInv
  <2> SUFFICES ASSUME Init PROVE BotInv
    OBVIOUS
  <2>1. /\ toMain = <<>> /\ toClient = <<>> /\ Len(toMain) = 0 /\ Len(toClient) = 0
        /\ toMain \in Seq(MainMessage) /\ toClient \in Seq(ClientMessage)
    BY DEF Init
  <2>2. op = [i \in Ops |-> Idle] /\ \A i \in Ops : op[i].pc # "clearing"
    BY IdleType DEF Init
  <2>3. FlowsOK
    BY <2>2, IdleOK DEF FlowsOK, Flows
  <2>4. MainOK(main) /\ ClientOK(client) /\ main.watching = NoPath
    BY IdleType DEF Init, MainOK, ClientOK, Whole
  <2>5. FilesOK /\ blocked \in Ops \cup {NoOp}
    BY DEF Init, FilesOK
  <2>6. Link(op, main.path, toMain, toClient)
    BY <2>1, <2>2 DEF Link, Linked, Ordered
  <2>7. WatcherFollowsPath
    BY <2>4 DEF WatcherFollowsPath
  <2> QED
    BY <2>1, <2>3, <2>4, <2>5, <2>6, <2>7 DEF BotInv, MessagesOK
<1>2. BotInv /\ [Next]_vars => BotInv'
  <2> SUFFICES ASSUME BotInv, [Next]_vars PROVE BotInv'
    OBVIOUS
  <2>1. ASSUME NEW i \in Ops, UserAnswers(i) \/ MainSteps(i) \/ FileSteps(i) \/ Tunnel(i)
        PROVE  BotInv'
    BY <2>1, ConfirmKeeps, MainKeeps, FilesKeep, TunnelKeeps DEF UserAnswers
  <2>2. CASE UNCHANGED vars
    <3>1. FilesOK' /\ ClientOK(client')
      BY <2>2 DEF vars, BotInv, FilesOK
    <3> QED
      BY <2>2, <3>1, ClientAlone DEF vars
  <2> QED
    BY <2>1, <2>2, GestureKeeps, ClientKeeps, ExternalKeeps, FileChangeKeeps DEF Next
<1> QED
  BY <1>1, <1>2, PTL DEF Spec

\* The history is true or false.
DoubtOK == doubt \in BOOLEAN

LEMMA DoubtType ==
  ASSUME doubt \in BOOLEAN, [Next]_vars
  PROVE  doubt' \in BOOLEAN
<1>1. ASSUME NEW g \in Gestures, ClientGesture(g) PROVE doubt' = doubt
  BY <1>1 DEF ClientGesture, ConfirmAndSwitchBots, ConfirmAndOpenBotFromFile,
     ConfirmAndCreateBot, RemoveFromRecentBots, OpenDeepLink, ConfirmAndCloseBot,
     LaunchConnectedServiceEditor, RemoveServiceFromActiveBot, LaunchConnectedServicePicker
<1>2. CASE ClientSteps \/ TabsChange
  BY <1>2 DEF ClientSteps, TabsChange, StoreFollows, AnswersAtOnce, SetActiveInClient,
     LoadIsCalled, OpenAnswered, SetActiveAnswered, CloseAnswered, MenusAnswered,
     OtherAnswered, Answered
<1>3. ASSUME NEW i \in Ops, MainSteps(i) PROVE doubt' \in BOOLEAN
  BY <1>3 DEF MainSteps, OpenBot, SetCurrentUser, UpdateMenus, SetActiveBot, Cleared,
     SetActiveEnds, CloseBot, AddOrUpdateService, RemoveService, Changes, SaveBot, CreateBot,
     RemoveFromBotList, ClientWasTold, MainSyncs
<1>4. ASSUME NEW i \in Ops, LoadFails(i) \/ LoadEnds(i) PROVE doubt' \in BOOLEAN
  BY <1>4 DEF LoadEnds, LoadFails
<1>5. ASSUME NEW i \in Ops, FileSteps(i) \/ Tunnel(i) \/ UserAnswers(i) PROVE doubt' \in BOOLEAN
  BY <1>4, <1>5 DEF FileSteps, SaveEnds, SaveFails, ReloadEnds, Tunnel, TunnelConnects,
     TunnelFails, UserAnswers, Confirm, PromptAnswered
<1>6. CASE UNCHANGED vars
  BY <1>6 DEF vars
<1>7. ASSUME NEW r \in Reloads, OnFileChange(r) PROVE doubt' = doubt
  BY <1>7 DEF OnFileChange
<1>8. ASSUME NEW b \in Bots, NEW s \in Services, EditFile(b, s) PROVE doubt' = doubt
  BY <1>8 DEF EditFile
<1> QED
  BY <1>1, <1>2, <1>3, <1>5, <1>6, <1>7, <1>8 DEF Next

\* Every variable keeps its type: a bot file is read, saved and watched only under the
\* path of a bot.
THEOREM TypeCorrect == Spec => []TypeOK
<1>1. BotInv /\ DoubtOK => TypeOK
  BY DEF BotInv, MainOK, ClientOK, FilesOK, FlowsOK, Flows, TypeOK, DoubtOK
<1>2. Init => DoubtOK
  BY DEF Init, DoubtOK
<1>3. DoubtOK /\ [Next]_vars => DoubtOK'
  BY DoubtType DEF DoubtOK
<1> QED
  BY <1>1, <1>2, <1>3, BotInvariant, PTL DEF Spec

\* Of any number of switches that overlap, in the client, by deep links and with reloads,
\* none leaves its watcher behind.
THEOREM WatcherOfLastSwitch == Spec => []WatcherFollowsPath
<1>1. BotInv => WatcherFollowsPath
  BY DEF BotInv
<1> QED
  BY <1>1, BotInvariant, PTL

-----------------------------------------------------------------------------
(***************************************************************************)
(* Both stores end with the same bot.  What main has dispatched is on its  *)
(* way to the client; behind it comes the call or the answer of the flow   *)
(* that dispatched it, upon which the client dispatches the bot of that    *)
(* flow itself and both stores reduce it at once.  Until then they may     *)
(* differ, and some flow is still to do so.  Of bots opened by a file or   *)
(* by a deep link this cannot be said: their overrides stay in one store.  *)
(***************************************************************************)
Syncing == {"updating", "wasSet", "echo", "closed"}
Replaces == {"active", "closed"}

\* Flow i will dispatch its bot in the client.
WillSync(o, tc, i) ==
  \/ o[i].pc \in Syncing
  \/ \E n \in 1..Len(tc) : tc[n].what = "told" /\ tc[n].flow = i
FollowedBy(o, tc, n, s) ==
  \E k \in 1..Len(s) : k > n /\ s[k].what \in OfFlow /\ WillSync(o, tc, s[k].flow)
Followed(o, tc) ==
  \A n \in 1..Len(tc) : tc[n].what \in Replaces => FollowedBy(o, tc, n, tc)

Plain(v) == v.overrides = FALSE
PlainFlow(x) ==
  x.kind \notin {"open", "link"} /\ x.pc \notin {"load", "tunnel"} /\ Plain(x.val)
FlowsPlain == \A i \in Ops : PlainFlow(op[i])
StoresPlain == Plain(main.bot) /\ Plain(client.bot)
ActionsPlain(tc) == \A n \in 1..Len(tc) : tc[n].what = "active" => Plain(tc[n].val)

StoreInv ==
  /\ FlowsPlain /\ StoresPlain /\ ActionsPlain(toClient)
  /\ Followed(op, toClient)
  /\ client.bot = main.bot \/ \E i \in Ops : WillSync(op, toClient, i)

\* The flows that are to dispatch their bot still are.
StillSync(o, p) == \A i \in Ops : o[i].pc \in Syncing => p[i].pc \in Syncing

\* What a sequence is after others are sent.
LEMMA SentAt ==
  ASSUME NEW S, NEW s \in Seq(S), NEW t \in Seq(S)
  PROVE  /\ s \o t \in Seq(S) /\ Len(s \o t) = Len(s) + Len(t)
         /\ Len(s) \in Nat /\ Len(t) \in Nat
         /\ \A n \in 1..Len(s) : (s \o t)[n] = s[n] /\ n \in 1..Len(s \o t)
         /\ \A n \in 1..Len(t) : (s \o t)[Len(s) + n] = t[n] /\ Len(s) + n \in 1..Len(s \o t)
         /\ \A n \in 1..Len(s \o t) : n \in 1..Len(s) \/ (n - Len(s) \in 1..Len(t) /\ n = Len(s) + (n - Len(s)))
OBVIOUS

\* Messages are sent behind the others, or none.
LEMMA SentMeets ==
  ASSUME BotInv, StoreInv, FlowsPlain', StoresPlain', StillSync(op, op'),
         NEW s \in Seq(ClientMessage), toClient' = toClient \o s, ActionsPlain(s),
         \A n \in 1..Len(s) : s[n].what \in Replaces => FollowedBy(op', toClient', n, s),
         \/ client'.bot = client.bot /\ main'.bot = main.bot
         \/ \E i \in Ops : WillSync(op', toClient', i)
  PROVE  StoreInv'
<1>0. toClient \in Seq(ClientMessage)
  BY DEF BotInv, MessagesOK
<1>1. /\ Len(toClient') = Len(toClient) + Len(s)
      /\ Len(toClient) \in Nat /\ Len(s) \in Nat
      /\ \A n \in 1..Len(toClient) : toClient'[n] = toClient[n] /\ n \in 1..Len(toClient')
      /\ \A n \in 1..Len(s) : /\ toClient'[Len(toClient) + n] = s[n]
                              /\ Len(toClient) + n \in 1..Len(toClient')
      /\ \A n \in 1..Len(toClient') :
           n \in 1..Len(toClient) \/ (n - Len(toClient) \in 1..Len(s) /\ n = Len(toClient) + (n - Len(toClient)))
  BY <1>0, SentAt
<1>2. ASSUME NEW i \in Ops, WillSync(op, toClient, i) PROVE WillSync(op', toClient', i)
  BY <1>1, <1>2 DEF WillSync, StillSync
<1>3. ActionsPlain(toClient')
  BY <1>1 DEF ActionsPlain, StoreInv
<1>4. ASSUME NEW n \in 1..Len(toClient'), toClient'[n].what \in Replaces
      PROVE  FollowedBy(op', toClient', n, toClient')
  <2>1. CASE n \in 1..Len(toClient)
    <3>1. PICK k \in 1..Len(toClient) :
            k > n /\ toClient[k].what \in OfFlow /\ WillSync(op, toClient, toClient[k].flow)
      BY <1>1, <1>4, <2>1 DEF StoreInv, Followed, FollowedBy
    <3>2. toClient[k].flow \in Ops
      BY <1>0, <3>1, MessageTypes
    <3>3. WillSync(op', toClient', toClient[k].flow)
      BY <1>2, <3>1, <3>2
    <3> QED
      BY <1>1, <3>1, <3>3 DEF FollowedBy
  <2>2. CASE n \notin 1..Len(toClient)
    <3> DEFINE m == n - Len(toClient)
    <3>1. m \in 1..Len(s) /\ n = Len(toClient) + m /\ toClient'[n] = s[m]
      BY <1>1, <2>2
    <3>2. PICK k \in 1..Len(s) :
            k > m /\ s[k].what \in OfFlow /\ WillSync(op', toClient', s[k].flow)
      BY <1>4, <3>1 DEF FollowedBy
    <3> HIDE DEF m
    <3>3. Len(toClient) + k > n /\ toClient'[Len(toClient) + k] = s[k]
          /\ Len(toClient) + k \in 1..Len(toClient')
      BY <1>1, <3>1, <3>2
    <3> QED
      BY <3>2, <3>3 DEF FollowedBy
  <2> QED
    BY <2>1, <2>2
<1>5. client'.bot = main'.bot \/ \E i \in Ops : WillSync(op', toClient', i)
  BY <1>2 DEF StoreInv
<1> QED
  BY <1>3, <1>4, <1>5 DEF StoreInv, Followed

\* The client takes a message.
LEMMA TakenMeets ==
  ASSUME BotInv, StoreInv, FlowsPlain', StoresPlain', StillSync(op, op'),
         toClient # <<>>, toClient' = Tail(toClient), main'.bot = main.bot,
         Head(toClient).what = "told" => op'[Head(toClient).flow].pc \in Syncing,
         client'.bot = client.bot \/ Head(toClient).what \in Replaces
  PROVE  StoreInv'
<1>0. toClient \in Seq(ClientMessage)
  BY DEF BotInv, MessagesOK
<1>1. /\ Len(toClient) = Len(toClient') + 1 /\ Len(toClient') \in Nat
      /\ \A n \in 1..Len(toClient') : toClient'[n] = toClient[n + 1] /\ n + 1 \in 1..Len(toClient)
      /\ \A n \in 1..Len(toClient) :
           n = 1 \/ (n - 1 \in 1..Len(toClient') /\ toClient'[n - 1] = toClient[n])
      /\ Head(toClient) = toClient[1] /\ 1 \in 1..Len(toClient)
  BY <1>0, TailAt
<1>2. ASSUME NEW i \in Ops, WillSync(op, toClient, i) PROVE WillSync(op', toClient', i)
  <2>1. CASE op[i].pc \in Syncing
    BY <2>1 DEF StillSync, WillSync
  <2>2. ASSUME NEW n \in 1..Len(toClient), toClient[n].what = "told", toClient[n].flow = i
        PROVE  WillSync(op', toClient', i)
    <3>1. CASE n = 1
      BY <1>1, <2>2, <3>1 DEF WillSync
    <3>2. CASE n # 1
      <4>1. n - 1 \in 1..Len(toClient') /\ toClient'[n - 1] = toClient[n]
        BY <1>1, <3>2
      <4> QED
        BY <2>2, <4>1 DEF WillSync
    <3> QED
      BY <3>1, <3>2
  <2> QED
    BY <1>2, <2>1, <2>2 DEF WillSync
<1>3. ActionsPlain(toClient')
  BY <1>1 DEF ActionsPlain, StoreInv
<1>4. ASSUME NEW n \in 1..Len(toClient), toClient[n].what \in Replaces
      PROVE  \E k \in 1..Len(toClient) : /\ k > n /\ toClient[k].what \in OfFlow
                                         /\ toClient[k].flow \in Ops
                                         /\ WillSync(op', toClient', toClient[k].flow)
  <2>1. PICK k \in 1..Len(toClient) :
          k > n /\ toClient[k].what \in OfFlow /\ WillSync(op, toClient, toClient[k].flow)
    BY <1>4 DEF StoreInv, Followed, FollowedBy
  <2>2. toClient[k].flow \in Ops
    BY <1>0, <2>1, MessageTypes
  <2> QED
    BY <1>2, <2>1, <2>2
<1>5. ASSUME NEW n \in 1..Len(toClient'), toClient'[n].what \in Replaces
      PROVE  FollowedBy(op', toClient', n, toClient')
  <2>1. n + 1 \in 1..Len(toClient) /\ toClient[n + 1].what \in Replaces
    BY <1>1, <1>5
  <2>2. PICK k \in 1..Len(toClient) : /\ k > n + 1 /\ toClient[k].what \in OfFlow
                                      /\ WillSync(op', toClient', toClient[k].flow)
    BY <1>4, <2>1
  <2>3. k - 1 \in 1..Len(toClient') /\ toClient'[k - 1] = toClient[k] /\ k - 1 > n
    BY <1>1, <2>2
  <2> QED
    BY <2>2, <2>3 DEF FollowedBy
<1>6. client'.bot = main'.bot \/ \E i \in Ops : WillSync(op', toClient', i)
  <2>1. CASE Head(toClient).what \in Replaces
    BY <1>1, <1>4, <2>1
  <2>2. CASE client'.bot = client.bot
    BY <1>2, <2>2 DEF StoreInv
  <2> QED
    BY <2>1, <2>2
<1> QED
  BY <1>3, <1>5, <1>6 DEF StoreInv, Followed

\* A flow goes on, or ends, which is not to dispatch its bot or still is.
LEMMA FlowStays ==
  ASSUME BotInv, StoreInv, NEW i \in Ops, NEW x, Goes(i, x), PlainFlow(x),
         op[i].pc \in Syncing => x.pc \in Syncing
  PROVE  FlowsPlain' /\ StillSync(op, op') /\ op'[i] = x
<1>1. op'[i] = x /\ \A j \in Ops : j # i => op'[j] = op[j]
  BY DEF Goes, BotInv, FlowsOK, Flows
<1> QED
  BY <1>1 DEF FlowsPlain, StillSync, StoreInv

LEMMA QuietMeets ==
  ASSUME BotInv, StoreInv, FlowsPlain', StillSync(op, op'), toClient' = toClient,
         main'.bot = main.bot, client'.bot = client.bot
  PROVE  StoreInv'
<1>1. /\ <<>> \in Seq(ClientMessage) /\ Len(<<>>) = 0
      /\ toClient \o <<>> = toClient
  BY DEF BotInv, MessagesOK
<1>2. ActionsPlain(<<>>) /\ \A n \in 1..Len(<<>>) : FALSE
  BY <1>1 DEF ActionsPlain
<1>3. StoresPlain'
  BY DEF StoreInv, StoresPlain
<1> QED
  BY <1>1, <1>2, <1>3, SentMeets

\* Two messages sent one after the other.
LEMMA TwoSent ==
  ASSUME NEW S, NEW a \in S, NEW b \in S
  PROVE  /\ <<a>> \o <<b>> \in Seq(S) /\ Len(<<a>> \o <<b>>) = 2
         /\ (<<a>> \o <<b>>)[1] = a /\ (<<a>> \o <<b>>)[2] = b
<1>1. <<a>> \in Seq(S) /\ <<b>> \in Seq(S) /\ Len(<<a>>) = 1 /\ Len(<<b>>) = 1
  OBVIOUS
<1> QED
  BY <1>1

\* Main calls or answers the client, and tells it at most of recent bots before.
LEMMA CallMeets ==
  ASSUME BotInv, StoreInv, FlowsPlain', StillSync(op, op'), NEW i \in Ops,
         NEW acts, acts = <<>> \/ \E l \in SUBSET Bots : acts = <<Recents(l)>>,
         NEW what \in OfFlow, toClient' = toClient \o acts \o <<Msg(what, i)>>,
         main'.bot = main.bot, client'.bot = client.bot
  PROVE  StoreInv'
<1> DEFINE s == acts \o <<Msg(what, i)>>
<1>1. Msg(what, i) \in ClientMessage /\ Msg(what, i).what = what
  BY DEF Msg, ClientMessage
<1>2. what # "active" /\ what \notin Replaces
  BY DEF OfFlow, Replaces
<1>3. CASE acts = <<>>
  <2>1. s = <<Msg(what, i)>> /\ s \in Seq(ClientMessage) /\ Len(s) = 1 /\ s[1] = Msg(what, i)
    BY <1>1, <1>3
  <2>2. toClient' = toClient \o s
    BY <1>1, <1>3 DEF BotInv, MessagesOK
  <2> HIDE DEF s
  <2>3. ActionsPlain(s) /\ \A n \in 1..Len(s) : s[n].what \notin Replaces
    BY <1>1, <1>2, <2>1 DEF ActionsPlain
  <2>4. StoresPlain'
    BY DEF StoreInv, StoresPlain
  <2> QED
    BY <2>1, <2>2, <2>3, <2>4, SentMeets
<1>4. ASSUME NEW l \in SUBSET Bots, acts = <<Recents(l)>> PROVE StoreInv'
  <2>1. Recents(l) \in ClientMessage /\ Recents(l).what = "recents"
    BY DEF Recents, ClientMessage
  <2>2. /\ s \in Seq(ClientMessage) /\ Len(s) = 2
        /\ s[1] = Recents(l) /\ s[2] = Msg(what, i)
    BY <1>1, <1>4, <2>1, TwoSent
  <2>4. toClient' = toClient \o s
    BY <1>1, <1>4, <2>1 DEF BotInv, MessagesOK
  <2> HIDE DEF s
  <2>5. \A n \in 1..Len(s) : n = 1 \/ n = 2
    BY <2>2
  <2>6. ActionsPlain(s) /\ \A n \in 1..Len(s) : s[n].what \notin Replaces
    BY <1>1, <1>2, <2>1, <2>2, <2>5 DEF ActionsPlain, Replaces
  <2>7. StoresPlain'
    BY DEF StoreInv, StoresPlain
  <2> QED
    BY <2>2, <2>4, <2>6, <2>7, SentMeets
<1> QED
  BY <1>3, <1>4

\* Main tells the client of recent bots only.
LEMMA RecentsMeet ==
  ASSUME BotInv, StoreInv, FlowsPlain', StillSync(op, op'),
         NEW acts, acts = <<>> \/ \E l \in SUBSET Bots : acts = <<Recents(l)>>,
         toClient' = toClient \o acts, main'.bot = main.bot, client'.bot = client.bot
  PROVE  StoreInv'
<1>1. CASE acts = <<>>
  <2>1. toClient' = toClient
    BY <1>1 DEF BotInv, MessagesOK
  <2> QED
    BY <2>1, QuietMeets
<1>2. ASSUME NEW l \in SUBSET Bots, acts = <<Recents(l)>> PROVE StoreInv'
  <2>1. Recents(l) \in ClientMessage /\ Recents(l).what = "recents"
    BY DEF Recents, ClientMessage
  <2>2. acts \in Seq(ClientMessage) /\ Len(acts) = 1 /\ acts[1] = Recents(l)
    BY <1>2, <2>1
  <2>3. ActionsPlain(acts) /\ \A n \in 1..Len(acts) : acts[n].what \notin Replaces
    BY <2>1, <2>2 DEF ActionsPlain, Replaces
  <2>4. StoresPlain'
    BY DEF StoreInv, StoresPlain
  <2> QED
    BY <2>2, <2>3, <2>4, SentMeets
<1> QED
  BY <1>1, <1>2

\* Main dispatches the bot of a flow, or closes it, and calls or answers the client in
\* the name of the same flow, which is then to dispatch it there.
LEMMA ForwardMeets ==
  ASSUME BotInv, StoreInv, FlowsPlain', StillSync(op, op'), StoresPlain', NEW i \in Ops,
         NEW a \in ClientMessage, a.what \in Replaces, a.what = "active" => Plain(a.val),
         NEW what \in OfFlow, toClient' = toClient \o <<a>> \o <<Msg(what, i)>>,
         what = "told" \/ op'[i].pc \in Syncing
  PROVE  StoreInv'
<1> DEFINE s == <<a, Msg(what, i)>>
           m == Msg(what, i)
<1>1. m \in ClientMessage /\ m.what = what /\ m.flow = i
  BY DEF Msg, ClientMessage
<1>2. s \in Seq(ClientMessage) /\ Len(s) = 2 /\ s[1] = a /\ s[2] = m
  BY <1>1
<1>3. toClient' = toClient \o s /\ toClient \in Seq(ClientMessage)
  BY <1>1 DEF BotInv, MessagesOK
<1> HIDE DEF s, m
<1>4. Len(toClient) + 2 \in 1..Len(toClient') /\ toClient'[Len(toClient) + 2] = m
  BY <1>2, <1>3, SentAt
<1>5. WillSync(op', toClient', i)
  BY <1>1, <1>4 DEF WillSync
<1>6. \A n \in 1..Len(s) : n = 1 \/ n = 2
  BY <1>2
<1>7. ActionsPlain(s)
  BY <1>1, <1>2, <1>6 DEF ActionsPlain, OfFlow
<1>8. ASSUME NEW n \in 1..Len(s), s[n].what \in Replaces
      PROVE  FollowedBy(op', toClient', n, s)
  <2>1. n = 1
    BY <1>1, <1>2, <1>6, <1>8 DEF Replaces, OfFlow
  <2> QED
    BY <1>1, <1>2, <1>5, <2>1 DEF FollowedBy
<1> QED
  BY <1>2, <1>3, <1>5, <1>7, <1>8, SentMeets

\* A flow at its next await.
LEMMA PlainAt ==
  ASSUME NEW o \in OpType, PlainFlow(o), NEW pc, pc \notin {"load", "tunnel"}
  PROVE  PlainFlow(At(o, pc)) /\ At(o, pc).pc = pc /\ At(o, pc).val = o.val
BY DEF PlainFlow, At, OpType

LEMMA PlainIdle == PlainFlow(Idle) /\ Idle.pc \notin Syncing /\ Plain(NoBot)
BY DEF PlainFlow, Idle, NoBot, Plain, Syncing

-----------------------------------------------------------------------------
(* The client *)

LEMMA AsksFirstMeets ==
  ASSUME BotInv, StoreInv, NEW g \in Ops, NEW o \in OpType, PlainFlow(o),
         o.kind \in {"switch", "create", "close"}, op[g].pc \notin Syncing, AsksFirst(g, o),
         main' = main, toClient' = toClient
  PROVE  StoreInv'
<1>1. FirstCall(o) \notin {"load", "tunnel"}
  BY DEF FirstCall
<1>2. client'.bot = client.bot
  BY DEF AsksFirst, Proceeds, BotInv, ClientOK
<1>3. Goes(g, At(o, "confirm")) \/ Goes(g, At(o, FirstCall(o)))
  BY DEF AsksFirst, Proceeds, ClientCalls
<1>4. FlowsPlain' /\ StillSync(op, op')
  BY <1>1, <1>3, PlainAt, FlowStays
<1> QED
  BY <1>2, <1>4, QuietMeets

LEMMA GestureMeets ==
  ASSUME BotInv, StoreInv, Kinds \cap {"open", "link"} = {}, NEW g \in Gestures, ClientGesture(g)
  PROVE  StoreInv'
<1>0. g \in Ops
  BY DEF Ops
<1>1. ASSUME NEW x, PlainFlow(x), op[g] = Idle, Goes(g, x), main' = main, toClient' = toClient,
             client'.bot = client.bot
      PROVE  StoreInv'
  BY <1>0, <1>1, FlowStays, QuietMeets, PlainIdle
<1>2. ASSUME NEW b \in Bots, ConfirmAndSwitchBots(g, b) PROVE StoreInv'
  <2> DEFINE o == [Idle EXCEPT !.kind = "switch", !.bot = b]
  <2>1. o \in OpType /\ PlainFlow(o) /\ o.kind = "switch" /\ o.bot = b
    BY IdleType, PlainIdle DEF OpType, PlainFlow, Idle
  <2>2. SwitchTo(g, o) /\ op[g] = Idle /\ main' = main /\ toClient' = toClient
    BY <1>2 DEF ConfirmAndSwitchBots, Starts
  <2> HIDE DEF o
  <2>3. CASE client.bot.path = o.bot
    <3>1. Goes(g, Idle) /\ client'.bot = client.bot
      BY <2>2, <2>3 DEF SwitchTo, NewLiveChat, Ends, BotInv, ClientOK
    <3> QED
      BY <1>1, <2>2, <3>1, PlainIdle
  <2>4. CASE client.bot.path # o.bot
    BY <1>0, <2>1, <2>2, <2>4, PlainIdle, AsksFirstMeets DEF SwitchTo
  <2> QED
    BY <2>3, <2>4
<1>3. ASSUME NEW b \in Bots, ConfirmAndCreateBot(g, b) PROVE StoreInv'
  <2> DEFINE o == [Idle EXCEPT !.kind = "create", !.bot = b, !.val = BotAt(b, {})]
  <2>1. o \in OpType /\ PlainFlow(o) /\ o.kind = "create"
    <3>1. BotAt(b, {}) \in BotValue /\ Plain(BotAt(b, {}))
      BY BotAtType DEF BotAt, Plain
    <3> QED
      BY <3>1, IdleType, PlainIdle DEF OpType, PlainFlow, Idle
  <2>2. AsksFirst(g, o) /\ op[g] = Idle /\ main' = main /\ toClient' = toClient
    BY <1>3 DEF ConfirmAndCreateBot, Starts
  <2> HIDE DEF o
  <2> QED
    BY <1>0, <2>1, <2>2, PlainIdle, AsksFirstMeets
<1>4. CASE ConfirmAndCloseBot(g)
  <2> DEFINE o == [Idle EXCEPT !.kind = "close"]
  <2>1. o \in OpType /\ PlainFlow(o) /\ o.kind = "close"
    BY IdleType, PlainIdle DEF OpType, PlainFlow, Idle
  <2>2. AsksFirst(g, o) /\ op[g] = Idle /\ main' = main /\ toClient' = toClient
    BY <1>4 DEF ConfirmAndCloseBot, Starts
  <2> HIDE DEF o
  <2> QED
    BY <1>0, <2>1, <2>2, PlainIdle, AsksFirstMeets
<1>5. ASSUME NEW b \in Bots, RemoveFromRecentBots(g, b) PROVE StoreInv'
  <2> DEFINE o == [Idle EXCEPT !.kind = "forget", !.bot = b, !.pc = "confirm"]
  <2>1. PlainFlow(o)
    BY DEF PlainFlow, Idle, Plain, NoBot
  <2> QED
    BY <1>1, <1>5, <2>1 DEF RemoveFromRecentBots, Starts
<1>6. ASSUME NEW s \in Services, RemoveServiceFromActiveBot(g, s) PROVE StoreInv'
  <2> DEFINE o == [Idle EXCEPT !.kind = "remove", !.services = {s}, !.pc = "confirm"]
  <2>1. PlainFlow(o)
    BY DEF PlainFlow, Idle, Plain, NoBot
  <2> QED
    BY <1>1, <1>6, <2>1 DEF RemoveServiceFromActiveBot, Starts
<1>7. ASSUME NEW s \in Services, LaunchConnectedServiceEditor(g, s) PROVE StoreInv'
  <2> DEFINE o == [Idle EXCEPT !.kind = "add", !.services = {s}, !.pc = "add"]
  <2>1. PlainFlow(o)
    BY DEF PlainFlow, Idle, Plain, NoBot
  <2> QED
    BY <1>1, <1>7, <2>1 DEF LaunchConnectedServiceEditor, Starts, ClientCalls
<1>8. ASSUME NEW picked \in SUBSET Services, LaunchConnectedServicePicker(g, picked)
      PROVE  StoreInv'
  <2> DEFINE v == [client.bot EXCEPT !.services = @ \cup picked]
             o == [Idle EXCEPT !.kind = "pick", !.services = picked, !.pc = "save", !.val = v]
  <2>1. Plain(v)
    BY DEF Plain, StoreInv, StoresPlain, BotInv, ClientOK, BotValue
  <2> HIDE DEF v
  <2>2. PlainFlow(o)
    BY <2>1 DEF PlainFlow, Idle
  <2> QED
    BY <1>1, <1>8, <2>2 DEF LaunchConnectedServicePicker, Starts, ClientCalls, v
<1>9. /\ \A b \in Bots : ~ConfirmAndOpenBotFromFile(g, b)
      /\ \A b \in Bots, v \in BOOLEAN : ~OpenDeepLink(g, b, v)
  BY DEF ConfirmAndOpenBotFromFile, OpenDeepLink, Starts
<1> QED
  BY <1>2, <1>3, <1>4, <1>5, <1>6, <1>7, <1>8, <1>9 DEF ClientGesture

LEMMA ConfirmMeets ==
  ASSUME BotInv, StoreInv, NEW g \in Ops, Confirm(g)
  PROVE  StoreInv'
<1>1. /\ op[g].pc = "confirm" /\ main' = main /\ toClient' = toClient
      /\ PlainFlow(op[g]) /\ op[g] \in OpType /\ op[g].pc \notin Syncing
  BY DEF Confirm, StoreInv, FlowsPlain, BotInv, FlowsOK, Flows, Syncing
<1>2. op[g].kind \in {"switch", "create", "close", "remove", "forget"}
  BY <1>1 DEF BotInv, FlowsOK, OpOK, HoldsAt
<1>3. ASSUME NEW x, Goes(g, x), PlainFlow(x), client'.bot = client.bot PROVE StoreInv'
  BY <1>1, <1>3, FlowStays, QuietMeets
<1>4. CASE Ends(g) /\ UNCHANGED <<client, toMain, blocked>>
  BY <1>3, <1>4, PlainIdle DEF Ends
<1>5. CASE ClientCalls(g, At(op[g], op[g].kind)) /\ UNCHANGED client
  <2>1. PlainFlow(At(op[g], op[g].kind))
    BY <1>1, <1>2, PlainAt
  <2> QED
    BY <1>3, <1>5, <2>1 DEF ClientCalls
<1>6. CASE op[g].kind \notin {"remove", "forget"} /\ Proceeds(g, op[g])
  <2>1. FirstCall(op[g]) \notin {"load", "tunnel"}
    BY <1>2, <1>6 DEF FirstCall
  <2>2. PlainFlow(At(op[g], FirstCall(op[g])))
    BY <1>1, <2>1, PlainAt
  <2>3. client'.bot = client.bot /\ Goes(g, At(op[g], FirstCall(op[g])))
    BY <1>6 DEF Proceeds, ClientCalls, BotInv, ClientOK
  <2> QED
    BY <1>3, <2>2, <2>3
<1> QED
  BY <1>4, <1>5, <1>6 DEF Confirm

\* The client takes the head of its messages in the name of flow i.
LEMMA TakenByFlow ==
  ASSUME BotInv, StoreInv, NEW i \in Ops, NEW x, Goes(i, x), PlainFlow(x),
         op[i].pc \in Syncing => x.pc \in Syncing,
         toClient # <<>>, toClient' = Rest, main' = main, client'.bot = client.bot,
         Head(toClient).what = "told" => Head(toClient).flow = i /\ x.pc \in Syncing
  PROVE  StoreInv'
<1>1. FlowsPlain' /\ StillSync(op, op') /\ op'[i] = x
  BY FlowStays
<1>2. StoresPlain'
  BY DEF StoreInv, StoresPlain
<1> QED
  BY <1>1, <1>2, TakenMeets DEF Rest

\* Without overrides a reducer takes the bot as it is.
LEMMA PlainReduced ==
  ASSUME NEW cur \in BotValue, NEW v \in BotValue, Plain(cur), Plain(v)
  PROVE  Reduced(cur, v) = v
BY DEF Reduced, Plain, BotValue

LEMMA ClientMeets ==
  ASSUME BotInv, StoreInv, ClientSteps
  PROVE  StoreInv'
<1>0. /\ toClient \in Seq(ClientMessage)
      /\ \A i \in Ops : PlainFlow(op[i]) /\ op[i] \in OpType
  BY DEF BotInv, MessagesOK, FlowsOK, Flows, StoreInv, FlowsPlain
<1>1. CASE StoreFollows
  <2>1. /\ toClient' = Tail(toClient) /\ toClient # <<>> /\ main' = main /\ op' = op
        /\ Head(toClient).what \in {"active", "closed", "recents"}
    BY <1>1 DEF StoreFollows, Rest, Receives
  <2>2. FlowsPlain' /\ StillSync(op, op')
    BY <2>1 DEF StoreInv, FlowsPlain, StillSync
  <2>3. Head(toClient) = toClient[1] /\ 1 \in 1..Len(toClient) /\ Head(toClient) \in ClientMessage
    BY <1>0, <2>1, TailAt
  <2>4. Plain(client'.bot) /\ (client'.bot = client.bot \/ Head(toClient).what \in Replaces)
    <3>1. CASE Head(toClient).what = "active"
      <4>1. Plain(Head(toClient).val) /\ Head(toClient).val \in BotValue
        BY <2>3, <3>1, MessageTypes DEF StoreInv, ActionsPlain
      <4>2. client'.bot = Reduced(client.bot, Head(toClient).val)
        BY <1>1, <3>1 DEF StoreFollows, BotInv, ClientOK
      <4>3. client.bot \in BotValue /\ Plain(client.bot)
        BY DEF BotInv, ClientOK, StoreInv, StoresPlain
      <4> QED
        BY <3>1, <4>1, <4>2, <4>3, PlainReduced DEF Replaces
    <3>2. CASE Head(toClient).what = "closed"
      BY <1>1, <3>2, PlainIdle DEF StoreFollows, Replaces, BotInv, ClientOK
    <3>3. CASE Head(toClient).what = "recents"
      BY <1>1, <3>3 DEF StoreFollows, BotInv, ClientOK, StoreInv, StoresPlain
    <3> QED
      BY <2>1, <3>1, <3>2, <3>3
  <2>5. StoresPlain'
    BY <2>1, <2>4 DEF StoreInv, StoresPlain
  <2> QED
    BY <2>1, <2>2, <2>4, <2>5, TakenMeets
<1>2. CASE AnswersAtOnce
  <2>1. /\ toClient' = Tail(toClient) /\ toClient # <<>> /\ main' = main /\ op' = op
        /\ Head(toClient).what \in {"clear", "paths"} /\ client' = client
    BY <1>2 DEF AnswersAtOnce, Rest, Receives
  <2>2. FlowsPlain' /\ StillSync(op, op') /\ StoresPlain'
    BY <2>1 DEF StoreInv, FlowsPlain, StillSync, StoresPlain
  <2> QED
    BY <2>1, <2>2, TakenMeets
<1>3. CASE SetActiveInClient
  <2> DEFINE i == Head(toClient).flow
             x == At(op[i], "echo")
  <2>1. /\ Receives /\ Head(toClient).what = "told" /\ toClient' = Rest
        /\ Goes(i, x) /\ UNCHANGED <<main, client>> /\ toClient # <<>>
    BY <1>3 DEF SetActiveInClient, Dispatches, Receives
  <2>2. i \in Ops
    BY <2>1, ClientTakes DEF OfFlow
  <2>3. PlainFlow(x) /\ x.pc \in Syncing
    BY <1>0, <2>2, PlainAt DEF Syncing
  <2> HIDE DEF x
  <2> QED
    BY <2>1, <2>2, <2>3, TakenByFlow
<1>4. CASE LoadIsCalled
  <2> DEFINE i == Head(toClient).flow
  <2>1. Receives /\ Head(toClient).what = "load" /\ toClient' = Rest
    BY <1>4 DEF LoadIsCalled
  <2>2. i \in Ops /\ FitsClient(op, Head(toClient))
    BY <2>1, ClientTakes DEF OfFlow
  <2>3. op[i].pc = "load"
    BY <2>1, <2>2 DEF FitsClient
  <2> QED
    BY <1>0, <2>2, <2>3 DEF PlainFlow
<1>5. ASSUME NEW i \in Ops, Answered(i)
      PROVE  /\ toClient # <<>> /\ toClient' = Rest /\ main' = main
             /\ Head(toClient).what # "told"
  BY <1>5 DEF Answered, Receives, Msg
<1>6. ASSUME NEW i \in Ops, OpenAnswered(i) PROVE StoreInv'
  <2>1. op[i].pc \in {"opened", "userSet"} /\ Answered(i) /\ client' = client
    BY <1>6 DEF OpenAnswered
  <2>2. Goes(i, Idle) \/ Goes(i, At(op[i], "set")) \/ Goes(i, At(op[i], "user"))
    BY <1>6 DEF OpenAnswered, Ends, ClientCalls
  <2>3. /\ PlainFlow(At(op[i], "set")) /\ PlainFlow(At(op[i], "user"))
        /\ op[i].pc \notin Syncing
    BY <1>0, <2>1, PlainAt DEF Syncing
  <2> QED
    BY <1>5, <2>1, <2>2, <2>3, PlainIdle, TakenByFlow
<1>7. ASSUME NEW i \in Ops, SetActiveAnswered(i) \/ CloseAnswered(i) PROVE StoreInv'
  <2>1. Answered(i) /\ op[i].kind # "open"
    BY <1>0, <1>7 DEF SetActiveAnswered, CloseAnswered, PlainFlow
  <2>2. Goes(i, op[i]) /\ client' = client
    BY <1>7, <2>1 DEF SetActiveAnswered, CloseAnswered, Dispatches
  <2> QED
    BY <1>0, <1>5, <2>1, <2>2, TakenByFlow
<1>8. ASSUME NEW i \in Ops, OtherAnswered(i) PROVE StoreInv'
  <2>1. op[i].pc = "ended" /\ Answered(i) /\ client' = client /\ Goes(i, Idle)
    BY <1>8 DEF OtherAnswered, Ends
  <2>2. op[i].pc \notin Syncing
    BY <2>1 DEF Syncing
  <2> QED
    BY <1>5, <2>1, <2>2, PlainIdle, TakenByFlow
<1>9. ASSUME NEW i \in Ops, MenusAnswered(i) PROVE StoreInv'
  <2>1. op[i].pc = "shown" /\ Answered(i) /\ client'.bot = client.bot
    BY <1>9 DEF MenusAnswered, BotInv, ClientOK
  <2>2. Goes(i, Idle) \/ Goes(i, At(op[i], "telling"))
    BY <1>9 DEF MenusAnswered, Ends
  <2>3. PlainFlow(At(op[i], "telling")) /\ op[i].pc \notin Syncing
    BY <1>0, <2>1, PlainAt DEF Syncing
  <2> QED
    BY <1>5, <2>1, <2>2, <2>3, PlainIdle, TakenByFlow
<1> QED
  BY <1>1, <1>2, <1>3, <1>4, <1>6, <1>7, <1>8, <1>9 DEF ClientSteps

\* Both stores reduce what the client dispatches, at once.
LEMMA SyncMeets ==
  ASSUME BotInv, StoreInv, NEW i \in Ops, MainSyncs(i)
  PROVE  StoreInv'
<1> DEFINE v == IF op[i].pc = "closed" THEN NoBot ELSE op[i].val
<1>1. /\ toMain # <<>> /\ Head(toMain) = Msg("sync", i) /\ toClient' = toClient
      /\ main' = [main EXCEPT !.bot = Reduced(@, v)]
      /\ Goes(i, At(op[i], "menus"))
  BY DEF MainSyncs
<1>2. client'.bot = Reduced(client.bot, v)
  BY DEF MainSyncs, BotInv, ClientOK
<1>3. /\ op[i] \in OpType /\ PlainFlow(op[i]) /\ toClient \in Seq(ClientMessage)
      /\ main.bot \in BotValue /\ client.bot \in BotValue
      /\ Plain(main.bot) /\ Plain(client.bot)
      /\ main \in [bot : BotValue, dir : Bots \cup {NoPath}, recents : SUBSET Bots,
                   path : Bots \cup {NoPath}, watching : Bots \cup {NoPath}, endpoints : BotValue]
  BY DEF BotInv, MainOK, ClientOK, FlowsOK, Flows, StoreInv, FlowsPlain, StoresPlain, MessagesOK
<1>4. v \in BotValue /\ Plain(v)
  BY <1>3, IdleType, PlainIdle DEF OpType, PlainFlow
<1> HIDE DEF v
<1>5. main'.bot = v /\ client'.bot = v
  BY <1>1, <1>2, <1>3, <1>4, PlainReduced
<1>6. PICK x : Goes(i, x) /\ PlainFlow(x)
  BY <1>1, <1>3, PlainAt, PlainIdle
<1>7. /\ op'[i] = x /\ \A j \in Ops : j # i => op'[j] = op[j]
  BY <1>6 DEF Goes, BotInv, FlowsOK, Flows
<1>8. FlowsPlain'
  BY <1>6, <1>7 DEF FlowsPlain, StoreInv
<1>9. \A k \in 1..Len(toClient) : toClient[k].what \in OfFlow => toClient[k].flow # i
  BY <1>1, MainTakes DEF Free, Unaddressed
<1>10. ASSUME NEW n \in 1..Len(toClient), toClient[n].what \in Replaces
       PROVE  FollowedBy(op', toClient, n, toClient)
  <2>1. PICK k \in 1..Len(toClient) :
          k > n /\ toClient[k].what \in OfFlow /\ WillSync(op, toClient, toClient[k].flow)
    BY <1>10 DEF StoreInv, Followed, FollowedBy
  <2>2. toClient[k].flow \in Ops /\ toClient[k].flow # i
    BY <1>3, <1>9, <2>1, MessageTypes
  <2>3. WillSync(op', toClient, toClient[k].flow)
    BY <1>7, <2>1, <2>2 DEF WillSync
  <2> QED
    BY <2>1, <2>3 DEF FollowedBy
<1>11. Followed(op', toClient') /\ ActionsPlain(toClient')
  BY <1>1, <1>10 DEF Followed, StoreInv
<1> QED
  BY <1>4, <1>5, <1>8, <1>11 DEF StoreInv, StoresPlain

-----------------------------------------------------------------------------
(* The main process *)

\* Main calls or answers the client in the name of flow i.
LEMMA FlowCalls ==
  ASSUME BotInv, StoreInv, NEW i \in Ops, NEW x, PlainFlow(x),
         op[i].pc \in Syncing => x.pc \in Syncing,
         NEW acts, acts = <<>> \/ \E l \in SUBSET Bots : acts = <<Recents(l)>>,
         NEW what \in OfFlow, MainSends(i, x, acts, what),
         main'.bot = main.bot, client' = client
  PROVE  StoreInv'
<1>1. FlowsPlain' /\ StillSync(op, op') /\ toClient' = toClient \o acts \o <<Msg(what, i)>>
  BY FlowStays DEF MainSends
<1> QED
  BY <1>1, CallMeets

\* A flow goes on without a message.
LEMMA FlowGoesOn ==
  ASSUME BotInv, StoreInv, NEW i \in Ops, NEW x, PlainFlow(x), Goes(i, x),
         op[i].pc \in Syncing => x.pc \in Syncing,
         main'.bot = main.bot, client' = client, toClient' = toClient
  PROVE  StoreInv'
BY FlowStays, QuietMeets

\* Main dispatches the bot of flow i, and calls or answers the client.
LEMMA FlowForwards ==
  ASSUME BotInv, StoreInv, NEW i \in Ops, NEW x, PlainFlow(x),
         op[i].pc \in Syncing => x.pc \in Syncing,
         NEW a \in ClientMessage, a.what \in Replaces, a.what = "active" => Plain(a.val),
         NEW what \in OfFlow, what = "told" \/ x.pc \in Syncing, MainSends(i, x, <<a>>, what),
         Plain(main'.bot), client' = client
  PROVE  StoreInv'
<1>1. /\ FlowsPlain' /\ StillSync(op, op') /\ op'[i] = x
      /\ toClient' = toClient \o <<a>> \o <<Msg(what, i)>>
  BY FlowStays DEF MainSends
<1>2. StoresPlain'
  BY DEF StoreInv, StoresPlain
<1> QED
  BY <1>1, <1>2, ForwardMeets

\* The actions that main forwards.
LEMMA BotActions ==
  /\ Closing \in ClientMessage /\ Closing.what = "closed" /\ "closed" \in Replaces
  /\ "active" \in Replaces
  /\ \A v \in BotValue : v.path \in Bots =>
       Active(v) \in ClientMessage /\ Active(v).what = "active" /\ Active(v).val = v
BY DEF Closing, Active, ClientMessage, Replaces

\* A flow in a state, and the bots that the stores hold.
LEMMA PlainInState ==
  ASSUME BotInv, StoreInv
  PROVE  /\ \A i \in Ops : /\ op[i] \in OpType /\ PlainFlow(op[i]) /\ OpOK(op[i])
                           /\ op[i].val \in BotValue /\ Plain(op[i].val)
         /\ main.bot \in BotValue /\ Plain(main.bot) /\ main.recents \in SUBSET Bots
         /\ main \in [bot : BotValue, dir : Bots \cup {NoPath}, recents : SUBSET Bots,
                      path : Bots \cup {NoPath}, watching : Bots \cup {NoPath},
                      endpoints : BotValue]
BY DEF BotInv, MainOK, FlowsOK, Flows, OpType, PlainFlow, StoreInv, FlowsPlain, StoresPlain

LEMMA MainMeets ==
  ASSUME BotInv, StoreInv, NEW i \in Ops, MainSteps(i)
  PROVE  StoreInv'
<1>0. /\ op[i] \in OpType /\ PlainFlow(op[i]) /\ OpOK(op[i])
      /\ op[i].val \in BotValue /\ Plain(op[i].val) /\ main.bot \in BotValue /\ Plain(main.bot)
      /\ main.recents \in SUBSET Bots
      /\ main \in [bot : BotValue, dir : Bots \cup {NoPath}, recents : SUBSET Bots,
                   path : Bots \cup {NoPath}, watching : Bots \cup {NoPath}, endpoints : BotValue]
  BY PlainInState
<1>1. ASSUME NEW pc, Called(i, pc) PROVE op[i].pc = pc /\ pc \in AtCall
  BY <1>1, MainTakes DEF Called
<1>2. AtCall \cap Syncing = {} /\ "reply" \in OfFlow /\ "paths" \in OfFlow /\ "told" \in OfFlow
      /\ "clear" \in OfFlow
  BY DEF AtCall, Syncing, OfFlow
<1>3. ASSUME NEW pc, pc \notin {"load", "tunnel"} PROVE PlainFlow(At(op[i], pc)) /\ At(op[i], pc).pc = pc
  BY <1>0, <1>3, PlainAt
<1>4. CASE OpenBot(i) \/ SaveBot(i)
  <2>1. /\ op[i].pc \notin Syncing /\ UNCHANGED <<main, client, toClient>>
        /\ Goes(i, At(op[i], "loading")) \/ Goes(i, At(op[i], "saving"))
    BY <1>1, <1>2, <1>4 DEF OpenBot, SaveBot
  <2>2. PlainFlow(At(op[i], "loading")) /\ PlainFlow(At(op[i], "saving"))
    BY <1>3
  <2> QED
    BY <2>1, <2>2, FlowGoesOn
<1>5. CASE SetActiveBot(i)
  <2>1. /\ op[i].pc \notin Syncing /\ client' = client
        /\ main' = [main EXCEPT !.path = op[i].val.path]
        /\ MainSends(i, At(op[i], "clearing"), <<>>, "clear")
    BY <1>1, <1>2, <1>5 DEF SetActiveBot, BeginsSetActive
  <2>2. main'.bot = main.bot
    BY <1>0, <2>1
  <2> QED
    BY <1>2, <1>3, <2>1, <2>2, FlowCalls
<1>6. CASE Cleared(i)
  <2> DEFINE v == op[i].val
             b == Reduced(main.bot, v)
             x == At(op[i], "updating")
  <2>1. /\ op[i].pc = "clearing" /\ client' = client
        /\ main' = [main EXCEPT !.watching = v.path, !.bot = b, !.dir = v.path, !.endpoints = b]
        /\ MainSends(i, x, <<Active(v)>>, "paths")
    BY <1>6 DEF Cleared, Replied
  <2>2. v.path \in Bots /\ b = v
    BY <1>0, <2>1, PlainReduced DEF OpOK, HoldsAt, HoldsBot
  <2>3. PlainFlow(x) /\ x.pc \in Syncing
    BY <1>3 DEF Syncing
  <2> HIDE DEF v, b, x
  <2>4. Plain(main'.bot) /\ v \in BotValue /\ Plain(v)
    BY <1>0, <2>1, <2>2 DEF v
  <2> QED
    BY <1>2, <2>1, <2>2, <2>3, <2>4, BotActions, FlowForwards
<1>7. CASE SetActiveEnds(i)
  <2>1. op[i].pc = "updating" /\ MainSends(i, At(op[i], "wasSet"), <<>>, "reply")
        /\ UNCHANGED <<main, client>>
    BY <1>0, <1>7 DEF SetActiveEnds, PlainFlow, Replied
  <2>2. At(op[i], "wasSet").pc \in Syncing /\ PlainFlow(At(op[i], "wasSet"))
    BY <1>3 DEF Syncing
  <2> QED
    BY <1>2, <2>1, <2>2, FlowCalls
<1>8. CASE CloseBot(i)
  <2> DEFINE x == At(op[i], "closed")
  <2>1. /\ op[i].pc \notin Syncing /\ client' = client
        /\ main' = [main EXCEPT !.watching = NoPath, !.bot = NoBot]
        /\ MainSends(i, x, <<Closing>>, "reply")
    BY <1>1, <1>2, <1>8 DEF CloseBot
  <2>2. PlainFlow(x) /\ x.pc \in Syncing
    BY <1>3 DEF Syncing
  <2> HIDE DEF x
  <2>3. Plain(main'.bot)
    BY <1>0, <2>1, PlainIdle
  <2> QED
    BY <1>2, <2>1, <2>2, <2>3, BotActions, FlowForwards
<1>9. ASSUME NEW pc, NEW v, Changes(i, pc, v), Plain(v) PROVE StoreInv'
  <2>1. op[i].pc \notin Syncing /\ UNCHANGED <<main, client>>
    BY <1>1, <1>2, <1>9 DEF Changes
  <2>2. CASE Goes(i, [op[i] EXCEPT !.pc = "saving", !.val = v]) /\ UNCHANGED toClient
    <3>1. PlainFlow([op[i] EXCEPT !.pc = "saving", !.val = v])
      BY <1>0, <1>9 DEF PlainFlow, OpType
    <3> QED
      BY <2>1, <2>2, <3>1, FlowGoesOn
  <2>3. CASE MainSends(i, At(op[i], "ended"), <<>>, "reply")
    BY <1>2, <1>3, <2>1, <2>3, FlowCalls
  <2> QED
    BY <1>9, <2>2, <2>3 DEF Changes
<1>10. CASE AddOrUpdateService(i) \/ RemoveService(i)
  <2>1. /\ Plain([main.bot EXCEPT !.services = @ \cup op[i].services])
        /\ Plain([main.bot EXCEPT !.services = @ \ op[i].services])
    BY <1>0 DEF Plain, BotValue
  <2> QED
    BY <1>9, <1>10, <2>1 DEF AddOrUpdateService, RemoveService
<1>11. CASE CreateBot(i)
  <2> DEFINE known == main.recents \cup {op[i].bot}
  <2>1. /\ op[i].pc = "create" /\ op[i].pc \notin Syncing /\ client' = client
        /\ main' = [main EXCEPT !.recents = known]
        /\ toClient' = Append(toClient, Recents(known)) /\ Goes(i, At(op[i], "saving"))
    BY <1>1, <1>2, <1>11 DEF CreateBot
  <2>2. known \in SUBSET Bots
    BY <1>0, <2>1 DEF OpOK, HoldsAt, NamesBot
  <2> HIDE DEF known
  <2>3. toClient' = toClient \o <<Recents(known)>>
    BY <2>1, <2>2 DEF BotInv, MessagesOK, Recents, ClientMessage
  <2>4. FlowsPlain' /\ StillSync(op, op')
    BY <1>3, <2>1, FlowStays
  <2>5. main'.bot = main.bot
    BY <1>0, <2>1
  <2> QED
    BY <2>1, <2>2, <2>3, <2>4, <2>5, RecentsMeet
<1>12. CASE RemoveFromBotList(i)
  <2> DEFINE known == main.recents \ {op[i].bot}
  <2>1. /\ op[i].pc \notin Syncing /\ client' = client
        /\ main' = [main EXCEPT !.recents = known]
        /\ MainSends(i, At(op[i], "ended"), <<Recents(known)>>, "reply")
    BY <1>1, <1>2, <1>12 DEF RemoveFromBotList
  <2>2. known \in SUBSET Bots /\ main'.bot = main.bot
    BY <1>0, <2>1
  <2> HIDE DEF known
  <2> QED
    BY <1>2, <1>3, <2>1, <2>2, FlowCalls
<1>13. CASE ClientWasTold(i)
  <2>1. op[i].pc = "telling" /\ op[i].pc \notin Syncing /\ UNCHANGED <<main, client>>
    BY <1>13 DEF ClientWasTold, Replied, Syncing
  <2>2. CASE Goes(i, Idle) /\ UNCHANGED toClient
    BY <2>1, <2>2, PlainIdle, FlowGoesOn
  <2>3. CASE MainSends(i, At(op[i], "ended"), <<>>, "reply")
    BY <1>2, <1>3, <2>1, <2>3, FlowCalls
  <2> QED
    BY <1>13, <2>2, <2>3 DEF ClientWasTold, Ends
<1>14. CASE SetCurrentUser(i) \/ UpdateMenus(i)
  <2>1. /\ op[i].pc \notin Syncing /\ UNCHANGED <<main, client>>
        /\ \/ MainSends(i, At(op[i], "userSet"), <<>>, "reply")
           \/ MainSends(i, At(op[i], "shown"), <<>>, "reply")
    BY <1>1, <1>2, <1>14 DEF SetCurrentUser, UpdateMenus
  <2> QED
    BY <1>2, <1>3, <2>1, FlowCalls
<1> QED
  BY <1>4, <1>5, <1>6, <1>7, <1>8, <1>10, <1>11, <1>12, <1>13, <1>14, SyncMeets DEF MainSteps

-----------------------------------------------------------------------------
(* Files *)

LEMMA LoadedMeets ==
  ASSUME BotInv, StoreInv, NEW i \in Ops, op[i].pc \notin Syncing, NEW v, Plain(v),
         NEW acts, acts = <<>> \/ \E l \in SUBSET Bots : acts = <<Recents(l)>>,
         Loaded(i, v, acts), main'.bot = main.bot, client' = client
  PROVE  StoreInv'
<1>1. op[i] \in OpType /\ PlainFlow(op[i])
  BY PlainInState
<1>2. ASSUME NEW x, PlainFlow(x), Goes(i, x), toClient' = toClient \o acts PROVE StoreInv'
  <2>1. FlowsPlain' /\ StillSync(op, op')
    BY <1>2, FlowStays
  <2> QED
    BY <1>2, <2>1, RecentsMeet
<1>3. CASE op[i].kind \in {"link", "reload"} /\ v = NoBot
  BY <1>2, <1>3, PlainIdle DEF Loaded, Ends
<1>4. CASE op[i].kind = "reload" /\ v # NoBot
  <2> DEFINE x == [op[i] EXCEPT !.pc = "read", !.val = v]
  <2>1. Goes(i, x) /\ toClient' = toClient \o acts /\ PlainFlow(x)
    BY <1>1, <1>4 DEF Loaded, PlainFlow, OpType
  <2> HIDE DEF x
  <2> QED
    BY <1>2, <2>1
<1>5. CASE op[i].kind \notin {"link", "reload"}
  <2> DEFINE x == [op[i] EXCEPT !.pc = "opened", !.val = v]
  <2>1. MainSends(i, x, acts, "reply") /\ PlainFlow(x)
    BY <1>1, <1>5 DEF Loaded, PlainFlow, OpType
  <2> HIDE DEF x
  <2> QED
    BY <2>1, FlowCalls DEF OfFlow
<1> QED
  BY <1>1, <1>3, <1>4, <1>5 DEF PlainFlow

LEMMA ReloadMeets ==
  ASSUME BotInv, StoreInv, NEW r \in Ops, ReloadEnds(r)
  PROVE  StoreInv'
<1> DEFINE v == op[r].val
           x == At(op[r], "telling")
<1>1. /\ op[r] \in OpType /\ PlainFlow(op[r]) /\ OpOK(op[r]) /\ v \in BotValue /\ Plain(v)
      /\ op[r].pc = "read" /\ op[r].pc \notin Syncing /\ client' = client
  BY PlainInState DEF ReloadEnds, Syncing
<1>2. v.path \in Bots
  BY <1>1 DEF OpOK, HoldsAt, HoldsBot
<1>3. PlainFlow(x) /\ Reduced(main.bot, v) = v
  BY <1>1, PlainAt, PlainInState, PlainReduced
<1>4. /\ main' = [main EXCEPT !.bot = Reduced(main.bot, v), !.endpoints = Reduced(main.bot, v)]
      /\ MainSends(r, x, <<Active(v)>>, "told")
  BY DEF ReloadEnds
<1> HIDE DEF v, x
<1>5. Plain(main'.bot)
  BY <1>1, <1>3, <1>4, PlainInState
<1> QED
  BY <1>1, <1>2, <1>3, <1>4, <1>5, BotActions, FlowForwards DEF OfFlow

LEMMA FilesMeet ==
  ASSUME BotInv, StoreInv, NEW i \in Ops, FileSteps(i) \/ PromptAnswered(i) \/ Tunnel(i)
  PROVE  StoreInv'
<1>0. /\ op[i] \in OpType /\ PlainFlow(op[i]) /\ OpOK(op[i])
      /\ op[i].val \in BotValue /\ Plain(op[i].val) /\ main.bot \in BotValue /\ Plain(main.bot)
      /\ main.recents \in SUBSET Bots
      /\ main \in [bot : BotValue, dir : Bots \cup {NoPath}, recents : SUBSET Bots,
                   path : Bots \cup {NoPath}, watching : Bots \cup {NoPath}, endpoints : BotValue]
  BY PlainInState
<1>1. "reply" \in OfFlow /\ "told" \in OfFlow
      /\ {"prompt", "saving"} \cap Syncing = {} /\ Reading \cap Syncing = {}
  BY DEF Syncing, OfFlow, Reading
<1>2. ASSUME NEW pc, pc \notin {"load", "tunnel"} PROVE PlainFlow(At(op[i], pc)) /\ At(op[i], pc).pc = pc
  BY <1>0, <1>2, PlainAt
<1>3. ASSUME op[i].pc \notin Syncing, UNCHANGED <<main, client, toClient>>,
             NEW pc \in Reading \cup {"prompt"}, Goes(i, At(op[i], pc))
      PROVE  StoreInv'
  <2>1. PlainFlow(At(op[i], pc))
    BY <1>2, <1>3 DEF Reading
  <2> QED
    BY <1>3, <2>1, FlowGoesOn
<1>3a. ASSUME op[i].pc \notin Syncing, LoadFails(i), client' = client PROVE StoreInv'
  BY <1>3a, PlainIdle, LoadedMeets DEF LoadFails
<1>4. CASE LoadEnds(i)
  <2> DEFINE b == op[i].bot
             known == main.recents \cup {b}
             acts == IF b \in main.recents THEN <<>> ELSE <<Recents(known)>>
  <2>1. op[i].pc \in Reading /\ op[i].pc \notin Syncing /\ client' = client
    BY <1>1, <1>4 DEF LoadEnds
  <2>2. known \in SUBSET Bots
    BY <1>0, <2>1 DEF OpOK, HoldsAt, Reading
  <2>3. Plain(BotAt(b, file[b]))
    BY DEF Plain, BotAt
  <2>4. ASSUME Loaded(i, BotAt(b, file[b]), acts), main' = [main EXCEPT !.recents = known]
        PROVE  StoreInv'
    <3>1. main'.bot = main.bot
      BY <1>0, <2>4
    <3>2. acts = <<>> \/ \E l \in SUBSET Bots : acts = <<Recents(l)>>
      BY <2>2
    <3> HIDE DEF acts, known, b
    <3> QED
      BY <2>1, <2>3, <2>4, <3>1, <3>2, LoadedMeets
  <2>5. ASSUME LoadFails(i) PROVE StoreInv'
    BY <1>3a, <2>1, <2>5
  <2>6. ASSUME NEW pc \in {"retrying", "prompt"}, Goes(i, At(op[i], pc)),
               UNCHANGED <<main, toClient>>
        PROVE  StoreInv'
    BY <1>3, <2>1, <2>6 DEF Reading
  <2> QED
    BY <1>4, <2>4, <2>5, <2>6 DEF LoadEnds
<1>5. CASE SaveEnds(i)
  <2>1. op[i].pc = "saving" /\ op[i].pc \notin Syncing /\ client' = client /\ Saved(i)
    BY <1>1, <1>5 DEF SaveEnds
  <2>2. CASE op[i].kind \in {"add", "remove"}
    <3> DEFINE v == op[i].val
    <3>1. /\ main' = [main EXCEPT !.bot = Reduced(@, v)]
          /\ MainSends(i, At(op[i], "telling"), <<Active(v)>>, "told")
      BY <2>1, <2>2 DEF Saved
    <3>2. v.path \in Bots
      BY <1>0, <2>1 DEF OpOK, HoldsAt, HoldsBot
    <3>3. PlainFlow(At(op[i], "telling")) /\ Reduced(main.bot, v) = v
      BY <1>0, <1>2, PlainReduced
    <3>4. v \in BotValue /\ Plain(v)
      BY <1>0
    <3> HIDE DEF v
    <3>5. Plain(main'.bot)
      BY <1>0, <3>1, <3>3, <3>4
    <3> QED
      BY <1>1, <2>1, <3>1, <3>2, <3>3, <3>4, <3>5, BotActions, FlowForwards
  <2>3. CASE op[i].kind \notin {"add", "remove"}
    <3> DEFINE pc == IF op[i].kind = "create" THEN "opened" ELSE "ended"
    <3>1. MainSends(i, At(op[i], pc), <<>>, "reply") /\ main' = main
      BY <2>1, <2>3 DEF Saved
    <3>2. PlainFlow(At(op[i], pc))
      BY <1>2
    <3> HIDE DEF pc
    <3> QED
      BY <1>1, <2>1, <3>1, <3>2, FlowCalls
  <2> QED
    BY <2>2, <2>3
<1>6. CASE SaveFails(i)
  <2> DEFINE x == IF op[i].kind = "create" THEN [op[i] EXCEPT !.pc = "opened", !.val = NoBot]
                  ELSE At(op[i], "ended")
  <2>1. /\ op[i].pc = "saving" /\ op[i].pc \notin Syncing /\ UNCHANGED <<main, client>>
        /\ MainSends(i, x, <<>>, "reply")
    BY <1>1, <1>6 DEF SaveFails
  <2>2. PlainFlow([op[i] EXCEPT !.pc = "opened", !.val = NoBot])
    BY <1>0, PlainIdle DEF PlainFlow, OpType
  <2>3. PlainFlow(x)
    BY <1>2, <2>2
  <2> HIDE DEF x
  <2> QED
    BY <1>1, <2>1, <2>3, FlowCalls
<1>7. CASE ReloadEnds(i)
  BY <1>7, ReloadMeets
<1>8. CASE PromptAnswered(i)
  <2>1. op[i].pc = "prompt" /\ op[i].pc \notin Syncing /\ UNCHANGED client
    BY <1>1, <1>8 DEF PromptAnswered
  <2>2. ASSUME Goes(i, At(op[i], "loading")), UNCHANGED <<main, toClient>> PROVE StoreInv'
    BY <1>3, <2>1, <2>2 DEF Reading
  <2> QED
    BY <1>3a, <1>8, <2>1, <2>2 DEF PromptAnswered
<1>9. ~Tunnel(i)
  BY <1>0 DEF Tunnel, TunnelConnects, TunnelFails, PlainFlow
<1> QED
  BY <1>4, <1>5, <1>6, <1>7, <1>8, <1>9 DEF FileSteps

LEMMA OthersMeet ==
  ASSUME BotInv, StoreInv,
         \/ TabsChange \/ \E b \in Bots, s \in Services : EditFile(b, s)
         \/ \E r \in Reloads : OnFileChange(r)
         \/ UNCHANGED vars
  PROVE  StoreInv'
<1>1. ASSUME op' = op, main' = main, client'.bot = client.bot, toClient' = toClient PROVE StoreInv'
  <2>1. FlowsPlain' /\ StillSync(op, op')
    BY <1>1 DEF StoreInv, FlowsPlain, StillSync
  <2> QED
    BY <1>1, <2>1, QuietMeets
<1>2. CASE TabsChange
  BY <1>1, <1>2 DEF TabsChange, BotInv, ClientOK
<1>3. CASE \E b \in Bots, s \in Services : EditFile(b, s)
  BY <1>1, <1>3 DEF EditFile
<1>4. CASE UNCHANGED vars
  BY <1>1, <1>4 DEF vars
<1>5. ASSUME NEW r \in Reloads, OnFileChange(r) PROVE StoreInv'
  <2> DEFINE p == main.watching
             o == [Idle EXCEPT !.kind = "reload", !.bot = p, !.pc = "loading"]
  <2>0. r \in Ops
    BY DEF Ops
  <2>1. changed /\ op[r] = Idle /\ client' = client /\ op[r].pc \notin Syncing
    BY <1>5, PlainIdle DEF OnFileChange
  <2>2. p \in Bots /\ file[p] \in SUBSET Services
    BY <2>1 DEF BotInv, FilesOK
  <2>3. o \in OpType /\ PlainFlow(o)
    BY <2>2, IdleType, PlainIdle DEF OpType, PlainFlow, Idle, Points, Reading
  <2> HIDE DEF o
  <2>4. UNCHANGED <<main, toClient>>
    BY <1>5 DEF OnFileChange
  <2>5. CASE UNCHANGED op
    BY <1>1, <2>1, <2>4, <2>5
  <2>6. CASE Goes(r, o)
    BY <2>0, <2>1, <2>3, <2>4, <2>6, FlowGoesOn
  <2> QED
    BY <1>5, <2>5, <2>6 DEF OnFileChange, o
<1> QED
  BY <1>2, <1>3, <1>4, <1>5

\* As long as no bot is opened from a file dialog or by a deep link, behind every bot that
\* is on its way to the client comes a message of a flow which dispatches its own.
THEOREM StoresInvariant ==
  ASSUME Kinds \cap {"open", "link"} = {}
  PROVE  Spec => []StoreInv
<1>1. Init => StoreInv
  <2> SUFFICES ASSUME Init PROVE StoreInv
    OBVIOUS
  <2>1. FlowsPlain /\ StoresPlain
    BY PlainIdle DEF Init, FlowsPlain, StoresPlain
  <2>2. client.bot = main.bot /\ Len(toClient) = 0
    BY DEF Init
  <2> QED
    BY <2>1, <2>2 DEF StoreInv, ActionsPlain, Followed
<1>2. BotInv /\ StoreInv /\ [Next]_vars => StoreInv'
  <2> SUFFICES ASSUME BotInv, StoreInv, [Next]_vars PROVE StoreInv'
    OBVIOUS
  <2>1. ASSUME NEW i \in Ops, UserAnswers(i) \/ MainSteps(i) \/ FileSteps(i) \/ Tunnel(i)
        PROVE  StoreInv'
    BY <2>1, ConfirmMeets, MainMeets, FilesMeet DEF UserAnswers
  <2> QED
    BY <2>1, GestureMeets, ClientMeets, OthersMeet DEF Next
<1> QED
  BY <1>1, <1>2, BotInvariant, PTL DEF Spec

\* However switches, creations, closings, changes of services and reloads overlap, both
\* stores end with the same bot.
THEOREM StoresAlwaysMeet ==
  ASSUME Kinds \cap {"open", "link"} = {}
  PROVE  Spec => []StoresMeet
<1>1. StoreInv => StoresMeet
  <2> SUFFICES ASSUME StoreInv, AtRest PROVE client.bot = main.bot
    BY DEF StoresMeet
  <2>1. Len(toClient) = 0 /\ \A i \in Ops : op[i] = Idle
    BY DEF AtRest
  <2>2. ASSUME NEW i \in Ops PROVE ~WillSync(op, toClient, i)
    BY <2>1, PlainIdle DEF WillSync
  <2> QED
    BY <2>2 DEF StoreInv
<1> QED
  BY <1>1, StoresInvariant, PTL

-----------------------------------------------------------------------------
(***************************************************************************)
(* A service that was added stays.  The file is replaced by what a flow    *)
(* saves, which it took from main's store, so that store must not lack a   *)
(* service that was added.  It may for a while: main reduces what the      *)
(* client dispatches, and that may be older than the save.  But then a     *)
(* message is on its way, behind the old values, upon which the flow that  *)
(* saved dispatches its own, or that flow has not come to it yet, and      *)
(* until it ends no other service is added.  A reload that read the file   *)
(* before a save and ends after it overlooks what was added: that is then  *)
(* no longer among what is to be kept.                                     *)
(***************************************************************************)

\* The value has all services of its bot that were added and not removed.
Fresh(k, v) == v.path \in Bots => k[v.path] \subseteq v.services

\* What a flow of the user is about to save, or to dispatch.
Saves(k, x) ==
  /\ x.kind = "add" => (k[x.val.path] \cup x.services) \subseteq x.val.services
  /\ x.kind = "remove" => (k[x.val.path] \ x.services) \subseteq x.val.services
Creates(x) == x.pc = "create" \/ (x.pc = "confirm" /\ x.kind = "create")
GestureOK(k, x) ==
  /\ x.kind \notin {"pick", "reload"}
  /\ x.pc = "saving" => Saves(k, x)
  /\ x.pc \notin {"idle", "saving", "ended"} /\ ~Creates(x) => Fresh(k, x.val)
ReloadOK(x) ==
  \/ x.pc = "idle"
  \/ /\ x.kind = "reload"
     /\ x.pc \in {"loading", "retrying", "prompt", "read", "telling", "echo", "menus", "shown"}

\* The flow will dispatch its value, which main's store then has.
Sets(x) ==
  x.pc \in {"user", "userSet", "set", "clearing", "echo"} \/ (x.pc = "opened" /\ x.val # NoBot)
Renews(o, m) ==
  /\ m.what \in {"told", "reply"} /\ m.flow \in Gestures
  /\ m.what = "told" \/ (o[m.flow].pc = "opened" /\ o[m.flow].val # NoBot)
Renewed(o, tc, n) == \E j \in 1..Len(tc) : j > n /\ Renews(o, tc[j])

\* What the client is told to dispatch, and what it dispatches, is fresh or renewed later.
Dispatched(x) == IF x.pc = "closed" THEN NoBot ELSE x.val
ToldFresh(k, o, tc) ==
  \A n \in 1..Len(tc) : tc[n].what = "told" => Fresh(k, o[tc[n].flow].val) \/ Renewed(o, tc, n)
SyncFresh(k, o, tm, tc, bl) ==
  \A n \in 1..Len(tm) : tm[n].what = "sync" =>
    bl = tm[n].flow /\ (Fresh(k, Dispatched(o[tm[n].flow])) \/ Renewed(o, tc, 0))
OnTheWay(k, o, tm, tc, bl) == ToldFresh(k, o, tc) /\ SyncFresh(k, o, tm, tc, bl)

BotKept == \/ Fresh(kept, main.bot) \/ Renewed(op, toClient, 0)
           \/ \E g \in Gestures : Sets(op[g])

KeptInv ==
  /\ ServicesKept
  /\ \A g \in Gestures : GestureOK(kept, op[g])
  /\ \A r \in Reloads : ReloadOK(op[r])
  /\ BotKept
  /\ OnTheWay(kept, op, toMain, toClient, blocked)

OneGesture == \A g, h \in Gestures : g = h

\* No message to the client is of flow i, so none renews if i is the user's.
Silent(i, tc) == \A n \in 1..Len(tc) : tc[n].what \in OfFlow => tc[n].flow # i

LEMMA NotRenewed ==
  ASSUME OneGesture, NEW g \in Gestures, NEW tc, Silent(g, tc)
  PROVE  \A o, n : ~Renewed(o, tc, n)
<1> SUFFICES ASSUME NEW o, NEW n, NEW j \in 1..Len(tc), Renews(o, tc[j]) PROVE FALSE
  BY DEF Renewed
<1>1. tc[j].what \in {"told", "reply"} /\ tc[j].flow \in Gestures
  BY DEF Renews
<1>2. tc[j].flow = g
  BY <1>1 DEF OneGesture
<1> QED
  BY <1>1, <1>2 DEF Silent, OfFlow

\* A flow without a message goes on.
LEMMA FreshGoes ==
  ASSUME NEW k, NEW o \in Flows, NEW tm \in Seq(MainMessage), NEW tc \in Seq(ClientMessage),
         NEW bl, NEW i \in Ops, Unaddressed(i, tm, tc), NEW x, OnTheWay(k, o, tm, tc, bl)
  PROVE  /\ OnTheWay(k, [o EXCEPT ![i] = x], tm, tc, bl)
         /\ \A n \in Nat : Renewed(o, tc, n) => Renewed([o EXCEPT ![i] = x], tc, n)
<1> DEFINE p == [o EXCEPT ![i] = x]
<1>1. \A j \in Ops : j # i => p[j] = o[j]
  BY DEF Flows
<1>2. \A n \in 1..Len(tm) : p[tm[n].flow] = o[tm[n].flow]
  BY <1>1, MessageTypes DEF Unaddressed
<1>3. \A n \in 1..Len(tc) : tc[n].what \in OfFlow => p[tc[n].flow] = o[tc[n].flow]
  BY <1>1, MessageTypes DEF Unaddressed
<1> HIDE DEF p
<1>4. \A n \in 1..Len(tc) : Renews(o, tc[n]) => Renews(p, tc[n])
  BY <1>3 DEF Renews, OfFlow
<1>5. \A n \in Nat : Renewed(o, tc, n) => Renewed(p, tc, n)
  BY <1>4 DEF Renewed
<1>6. \A n \in 1..Len(tc) : n \in Nat
  OBVIOUS
<1>7. ToldFresh(k, p, tc)
  BY <1>3, <1>5, <1>6 DEF OnTheWay, ToldFresh, OfFlow
<1>8. SyncFresh(k, p, tm, tc, bl)
  BY <1>2, <1>5 DEF OnTheWay, SyncFresh
<1> QED
  BY <1>5, <1>7, <1>8 DEF OnTheWay, p

\* The client, which is not blocked, takes a message.
LEMMA FreshTaken ==
  ASSUME NEW k, NEW o \in Flows, NEW tm \in Seq(MainMessage), NEW tc \in Seq(ClientMessage),
         OnTheWay(k, o, tm, tc, NoOp), tc # <<>>
  PROVE  /\ OnTheWay(k, o, tm, Tail(tc), NoOp)
         /\ \A n \in 1..Len(tm) : tm[n].what # "sync"
         /\ Renewed(o, tc, 0) => Renews(o, Head(tc)) \/ Renewed(o, Tail(tc), 0)
         /\ Head(tc).what = "told" =>
              Fresh(k, o[Head(tc).flow].val) \/ Renewed(o, Tail(tc), 0)
<1> DEFINE t == Tail(tc)
<1>1. /\ Len(tc) = Len(t) + 1 /\ Len(t) \in Nat
      /\ \A n \in 1..Len(t) : t[n] = tc[n + 1] /\ n + 1 \in 1..Len(tc)
      /\ \A n \in 1..Len(tc) : n = 1 \/ (n - 1 \in 1..Len(t) /\ t[n - 1] = tc[n])
      /\ Head(tc) = tc[1] /\ 1 \in 1..Len(tc)
  BY TailAt
<1> HIDE DEF t
<1>2. ASSUME NEW n \in Nat, Renewed(o, tc, n + 1) PROVE Renewed(o, t, n)
  <2>1. PICK j \in 1..Len(tc) : j > n + 1 /\ Renews(o, tc[j])
    BY <1>2 DEF Renewed
  <2>2. j - 1 \in 1..Len(t) /\ t[j - 1] = tc[j] /\ j - 1 > n
    BY <1>1, <2>1
  <2> QED
    BY <2>1, <2>2 DEF Renewed
<1>3. ToldFresh(k, o, t)
  <2> SUFFICES ASSUME NEW n \in 1..Len(t), t[n].what = "told"
               PROVE  Fresh(k, o[t[n].flow].val) \/ Renewed(o, t, n)
    BY DEF ToldFresh
  <2>1. n + 1 \in 1..Len(tc) /\ tc[n + 1] = t[n] /\ n \in Nat
    BY <1>1
  <2> QED
    BY <1>2, <2>1 DEF OnTheWay, ToldFresh
<1>4. \A n \in 1..Len(tm) : tm[n].what # "sync"
  <2>1. \A n \in 1..Len(tm) : tm[n].flow # NoOp
    BY MessageTypes, SlotAssumption DEF Ops
  <2> QED
    BY <2>1 DEF OnTheWay, SyncFresh
<1>5. Renewed(o, tc, 0) => Renews(o, Head(tc)) \/ Renewed(o, t, 0)
  <2> SUFFICES ASSUME NEW j \in 1..Len(tc), Renews(o, tc[j]), j # 1 PROVE Renewed(o, t, 0)
    BY <1>1 DEF Renewed
  <2>1. j - 1 \in 1..Len(t) /\ t[j - 1] = tc[j] /\ j - 1 > 0
    BY <1>1
  <2> QED
    BY <2>1 DEF Renewed
<1>6. Head(tc).what = "told" => Fresh(k, o[Head(tc).flow].val) \/ Renewed(o, t, 0)
  BY <1>1, <1>2 DEF OnTheWay, ToldFresh
<1> QED
  BY <1>3, <1>4, <1>5, <1>6 DEF OnTheWay, SyncFresh, t

\* Main takes a message, and after what the client dispatched no more of it is left.
LEMMA FreshRead ==
  ASSUME NEW k, NEW o \in Flows, NEW tm \in Seq(MainMessage), NEW tc \in Seq(ClientMessage),
         NEW path, Link(o, path, tm, tc), NEW bl, OnTheWay(k, o, tm, tc, bl), tm # <<>>
  PROVE  /\ OnTheWay(k, o, Tail(tm), tc, bl)
         /\ Head(tm).what = "sync" =>
              /\ OnTheWay(k, o, Tail(tm), tc, NoOp)
              /\ Fresh(k, Dispatched(o[Head(tm).flow])) \/ Renewed(o, tc, 0)
<1> DEFINE t == Tail(tm)
<1>1. /\ Len(tm) = Len(t) + 1 /\ Len(t) \in Nat
      /\ \A n \in 1..Len(t) : t[n] = tm[n + 1] /\ n + 1 \in 1..Len(tm) /\ n + 1 # 1
      /\ Head(tm) = tm[1] /\ 1 \in 1..Len(tm)
  BY TailAt
<1> HIDE DEF t
<1>2. SyncFresh(k, o, t, tc, bl)
  BY <1>1 DEF OnTheWay, SyncFresh
<1>3. ASSUME Head(tm).what = "sync"
      PROVE  /\ \A n \in 1..Len(t) : t[n].what # "sync"
             /\ Fresh(k, Dispatched(o[Head(tm).flow])) \/ Renewed(o, tc, 0)
  <2>1. /\ bl = Head(tm).flow
        /\ Fresh(k, Dispatched(o[Head(tm).flow])) \/ Renewed(o, tc, 0)
    BY <1>1, <1>3 DEF OnTheWay, SyncFresh
  <2>2. ASSUME NEW n \in 1..Len(t), t[n].what = "sync" PROVE FALSE
    <3>1. n + 1 \in 1..Len(tm) /\ tm[n + 1].what = "sync" /\ n + 1 # 1
      BY <1>1, <2>2
    <3>2. tm[n + 1].flow = tm[1].flow
      BY <1>1, <2>1, <3>1 DEF OnTheWay, SyncFresh
    <3> QED
      BY <1>1, <3>1, <3>2 DEF Link, Linked
  <2> QED
    BY <2>1, <2>2
<1> QED
  BY <1>2, <1>3 DEF OnTheWay, SyncFresh, t

\* A message is sent to main: a call or an answer, or what the client dispatches.
LEMMA FreshToMain ==
  ASSUME NEW k, NEW o \in Flows, NEW tm \in Seq(MainMessage), NEW tc \in Seq(ClientMessage),
         NEW bl, OnTheWay(k, o, tm, tc, bl), NEW i \in Ops
  PROVE  /\ \A what \in {"call", "reply"} : OnTheWay(k, o, Append(tm, Msg(what, i)), tc, bl)
         /\ (\A n \in 1..Len(tm) : tm[n].what # "sync")
              /\ (Fresh(k, Dispatched(o[i])) \/ Renewed(o, tc, 0))
              => OnTheWay(k, o, Append(tm, Msg("sync", i)), tc, i)
<1> SUFFICES ASSUME NEW what \in {"call", "reply", "sync"}, NEW b,
                    \/ what # "sync" /\ b = bl
                    \/ /\ what = "sync" /\ b = i
                       /\ Fresh(k, Dispatched(o[i])) \/ Renewed(o, tc, 0)
                       /\ \A n \in 1..Len(tm) : tm[n].what # "sync"
             PROVE  SyncFresh(k, o, Append(tm, Msg(what, i)), tc, b)
  BY DEF OnTheWay
<1> DEFINE t == Append(tm, Msg(what, i))
<1>1. Msg(what, i) \in MainMessage /\ Msg(what, i).what = what /\ Msg(what, i).flow = i
  BY DEF Msg, MainMessage
<1>2. /\ Len(t) = Len(tm) + 1 /\ Len(tm) \in Nat
      /\ \A n \in 1..Len(tm) : t[n] = tm[n]
      /\ t[Len(tm) + 1] = Msg(what, i)
  BY <1>1, AppendAt
<1>3. \A n \in 1..Len(t) : n \in 1..Len(tm) \/ n = Len(tm) + 1
  BY <1>2
<1> HIDE DEF t
<1> SUFFICES ASSUME NEW n \in 1..Len(t), t[n].what = "sync"
             PROVE  /\ b = t[n].flow
                    /\ Fresh(k, Dispatched(o[t[n].flow])) \/ Renewed(o, tc, 0)
  BY DEF SyncFresh, t
<1>4. CASE n \in 1..Len(tm)
  BY <1>2, <1>4 DEF OnTheWay, SyncFresh
<1>5. CASE n = Len(tm) + 1
  BY <1>1, <1>2, <1>5
<1> QED
  BY <1>3, <1>4, <1>5

\* Main sends to the client, and tells it fresh values only.
LEMMA FreshToClient ==
  ASSUME NEW k, NEW o \in Flows, NEW tm \in Seq(MainMessage), NEW tc \in Seq(ClientMessage),
         NEW bl, OnTheWay(k, o, tm, tc, bl), NEW s \in Seq(ClientMessage),
         \A n \in 1..Len(s) : s[n].what = "told" => Fresh(k, o[s[n].flow].val)
  PROVE  /\ OnTheWay(k, o, tm, tc \o s, bl)
         /\ \A n \in Nat : Renewed(o, tc, n) => Renewed(o, tc \o s, n)
<1> DEFINE t == tc \o s
<1>1. /\ Len(t) = Len(tc) + Len(s) /\ Len(tc) \in Nat /\ Len(s) \in Nat
      /\ \A n \in 1..Len(tc) : t[n] = tc[n] /\ n \in 1..Len(t)
      /\ \A n \in 1..Len(s) : t[Len(tc) + n] = s[n] /\ Len(tc) + n \in 1..Len(t)
      /\ \A n \in 1..Len(t) :
           n \in 1..Len(tc) \/ (n - Len(tc) \in 1..Len(s) /\ n = Len(tc) + (n - Len(tc)))
  BY SentAt
<1> HIDE DEF t
<1>2. \A n \in Nat : Renewed(o, tc, n) => Renewed(o, t, n)
  BY <1>1 DEF Renewed
<1>3. ToldFresh(k, o, t)
  <2> SUFFICES ASSUME NEW n \in 1..Len(t), t[n].what = "told"
               PROVE  Fresh(k, o[t[n].flow].val) \/ Renewed(o, t, n)
    BY DEF ToldFresh
  <2>1. CASE n \in 1..Len(tc)
    <3>1. n \in Nat /\ t[n] = tc[n]
      BY <1>1, <2>1
    <3> QED
      BY <1>2, <2>1, <3>1 DEF OnTheWay, ToldFresh
  <2>2. CASE n \notin 1..Len(tc)
    <3>1. n - Len(tc) \in 1..Len(s) /\ t[n] = s[n - Len(tc)]
      BY <1>1, <2>2
    <3> QED
      BY <3>1
  <2> QED
    BY <2>1, <2>2
<1>4. SyncFresh(k, o, tm, t, bl)
  BY <1>2 DEF OnTheWay, SyncFresh
<1> QED
  BY <1>2, <1>3, <1>4 DEF OnTheWay, t

\* Whatever is on its way, a last message that renews makes it good.
LEMMA FreshAgain ==
  ASSUME NEW k, NEW o \in Flows, NEW tm \in Seq(MainMessage), NEW tc \in Seq(ClientMessage),
         NEW bl, \A n \in 1..Len(tm) : tm[n].what = "sync" => bl = tm[n].flow,
         NEW m \in ClientMessage, Renews(o, m), m.what = "told" => Fresh(k, o[m.flow].val)
  PROVE  OnTheWay(k, o, tm, Append(tc, m), bl) /\ Renewed(o, Append(tc, m), 0)
<1> DEFINE t == Append(tc, m)
<1>1. /\ Len(t) = Len(tc) + 1 /\ Len(tc) \in Nat /\ t[Len(tc) + 1] = m
  BY AppendAt
<1>2. Len(tc) + 1 \in 1..Len(t)
  BY <1>1
<1> HIDE DEF t
<1>3. \A n \in Nat : n < Len(tc) + 1 => Renewed(o, t, n)
  BY <1>1, <1>2 DEF Renewed
<1>4. \A n \in 1..Len(t) : n = Len(tc) + 1 \/ (n \in Nat /\ n < Len(tc) + 1)
  BY <1>1
<1>5. ToldFresh(k, o, t)
  BY <1>1, <1>3, <1>4 DEF ToldFresh
<1>6. Renewed(o, t, 0)
  BY <1>1, <1>3
<1> QED
  BY <1>5, <1>6 DEF OnTheWay, SyncFresh, t

\* Fewer services are to be kept.
LEMMA FreshFewer ==
  ASSUME NEW k, NEW l, \A b \in Bots : l[b] \subseteq k[b]
  PROVE  /\ \A v : Fresh(k, v) => Fresh(l, v)
         /\ \A x \in OpType : x.val.path \in Bots /\ Saves(k, x) => Saves(l, x)
         /\ \A o, tm, tc, bl : OnTheWay(k, o, tm, tc, bl) => OnTheWay(l, o, tm, tc, bl)
<1>1. \A v : Fresh(k, v) => Fresh(l, v)
  BY DEF Fresh
<1>2. \A x \in OpType : x.val.path \in Bots /\ Saves(k, x) => Saves(l, x)
  BY DEF Saves
<1>3. ASSUME NEW o, NEW tm, NEW tc, NEW bl, OnTheWay(k, o, tm, tc, bl)
      PROVE  OnTheWay(l, o, tm, tc, bl)
  <2>1. ToldFresh(l, o, tc)
    BY <1>1, <1>3 DEF OnTheWay, ToldFresh
  <2>2. SyncFresh(l, o, tm, tc, bl)
    BY <1>1, <1>3 DEF OnTheWay, SyncFresh
  <2> QED
    BY <2>1, <2>2 DEF OnTheWay
<1> QED
  BY <1>1, <1>2, <1>3

\* What main sends of flow i: actions, and at most a message of the flow at their end.
SentBy(i, s) ==
  s \in Seq(ClientMessage) /\ \A n \in 1..Len(s) : s[n].what = "told" => s[n].flow = i
Tells(s) == \E n \in 1..Len(s) : s[n].what = "told"

LEMMA SentForms ==
  ASSUME NEW i \in Ops, NEW acts, Forwards(acts)
  PROVE  /\ SentBy(i, acts) /\ ~Tells(acts)
         /\ \A what \in OfFlow : /\ SentBy(i, acts \o <<Msg(what, i)>>)
                                 /\ what # "told" => ~Tells(acts \o <<Msg(what, i)>>)
                                 /\ \A tc \in Seq(ClientMessage) :
                                      tc \o acts \o <<Msg(what, i)>> = tc \o (acts \o <<Msg(what, i)>>)
<1>1. CASE acts = <<>>
  <2>1. SentBy(i, acts) /\ ~Tells(acts)
    BY <1>1 DEF SentBy, Tells
  <2>2. ASSUME NEW what \in OfFlow
        PROVE  /\ SentBy(i, acts \o <<Msg(what, i)>>)
               /\ what # "told" => ~Tells(acts \o <<Msg(what, i)>>)
               /\ \A tc \in Seq(ClientMessage) :
                    tc \o acts \o <<Msg(what, i)>> = tc \o (acts \o <<Msg(what, i)>>)
    <3> DEFINE m == Msg(what, i)
    <3>1. m \in ClientMessage /\ m.what = what /\ m.flow = i
      BY DEF Msg, ClientMessage
    <3> HIDE DEF m
    <3>2. acts \o <<m>> = <<m>> /\ <<m>> \in Seq(ClientMessage) /\ Len(<<m>>) = 1 /\ <<m>>[1] = m
      BY <1>1, <3>1
    <3>3. \A tc \in Seq(ClientMessage) : tc \o acts \o <<m>> = tc \o (acts \o <<m>>)
      BY <1>1, <3>1
    <3>4. SentBy(i, <<m>>) /\ (what # "told" => ~Tells(<<m>>))
      BY <3>1, <3>2 DEF SentBy, Tells
    <3> QED
      BY <3>2, <3>3, <3>4 DEF m
  <2> QED
    BY <2>1, <2>2
<1>2. ASSUME NEW a \in ClientMessage, a.what \notin OfFlow, acts = <<a>>
      PROVE  /\ SentBy(i, acts) /\ ~Tells(acts)
             /\ \A what \in OfFlow : /\ SentBy(i, acts \o <<Msg(what, i)>>)
                                     /\ what # "told" => ~Tells(acts \o <<Msg(what, i)>>)
                                     /\ \A tc \in Seq(ClientMessage) :
                                          tc \o acts \o <<Msg(what, i)>> = tc \o (acts \o <<Msg(what, i)>>)
  <2>0. a.what # "told"
    BY <1>2 DEF OfFlow
  <2>1. acts \in Seq(ClientMessage) /\ Len(acts) = 1 /\ acts[1] = a
    BY <1>2
  <2>2. SentBy(i, acts) /\ ~Tells(acts)
    BY <2>0, <2>1 DEF SentBy, Tells
  <2>3. ASSUME NEW what \in OfFlow
        PROVE  /\ SentBy(i, acts \o <<Msg(what, i)>>)
               /\ what # "told" => ~Tells(acts \o <<Msg(what, i)>>)
               /\ \A tc \in Seq(ClientMessage) :
                    tc \o acts \o <<Msg(what, i)>> = tc \o (acts \o <<Msg(what, i)>>)
    <3> DEFINE m == Msg(what, i)
               s == acts \o <<m>>
    <3>1. m \in ClientMessage /\ m.what = what /\ m.flow = i
      BY DEF Msg, ClientMessage
    <3> HIDE DEF m
    <3>2. s \in Seq(ClientMessage) /\ Len(s) = 2 /\ s[1] = a /\ s[2] = m
      BY <1>2, <3>1, TwoSent
    <3>3. \A tc \in Seq(ClientMessage) : tc \o acts \o <<m>> = tc \o (acts \o <<m>>)
      BY <2>1, <3>1
    <3> HIDE DEF s
    <3>4. \A n \in 1..Len(s) : n = 1 \/ n = 2
      BY <3>2
    <3>5. SentBy(i, s) /\ (what # "told" => ~Tells(s))
      BY <2>0, <3>1, <3>2, <3>4 DEF SentBy, Tells
    <3> QED
      BY <3>3, <3>5 DEF m, s
  <2> QED
    BY <2>2, <2>3
<1> QED
  BY <1>1, <1>2 DEF Forwards

\* What a flow does to the channels, after the message it had was taken.
Queues(i, x, tm, tc, bl) ==
  \/ toMain' = tm /\ blocked' = bl
  \/ toMain' \in {Append(tm, Msg("call", i)), Append(tm, Msg("reply", i))} /\ blocked' = bl
  \/ /\ toMain' = Append(tm, Msg("sync", i)) /\ blocked' = i
     /\ Fresh(kept, Dispatched(x)) \/ Renewed(op, tc, 0)
     /\ \A n \in 1..Len(tm) : tm[n].what # "sync"

LEMMA FreshMoves ==
  ASSUME BotInv, NEW i \in Ops, NEW x \in OpType, Goes(i, x),
         NEW tm \in Seq(MainMessage), NEW tc \in Seq(ClientMessage), NEW bl,
         Unaddressed(i, tm, tc), OnTheWay(kept, op, tm, tc, bl), Queues(i, x, tm, tc, bl),
         NEW s, SentBy(i, s), Tells(s) => Fresh(kept, x.val), toClient' = tc \o s
  PROVE  /\ OnTheWay(kept, op', toMain', toClient', blocked')
         /\ Renewed(op, tc, 0) => Renewed(op', toClient', 0)
<1> DEFINE p == [op EXCEPT ![i] = x]
<1>0. op \in Flows
  BY DEF BotInv, FlowsOK
<1>1. op' = p /\ p \in Flows /\ p[i] = x
  BY <1>0, FlowsType DEF Goes
<1>2. OnTheWay(kept, p, tm, tc, bl) /\ (Renewed(op, tc, 0) => Renewed(p, tc, 0))
  BY <1>0, FreshGoes
<1> HIDE DEF p
<1>3. /\ OnTheWay(kept, p, tm, tc \o s, bl) /\ tc \o s \in Seq(ClientMessage)
      /\ Renewed(p, tc, 0) => Renewed(p, tc \o s, 0)
  <2>1. s \in Seq(ClientMessage)
    BY DEF SentBy
  <2>2. \A n \in 1..Len(s) : s[n].what = "told" => Fresh(kept, p[s[n].flow].val)
    BY <1>1 DEF SentBy, Tells
  <2> QED
    BY <1>1, <1>2, <2>1, <2>2, FreshToClient, SentAt
<1>4. OnTheWay(kept, p, toMain', tc \o s, blocked')
  <2>1. CASE toMain' = tm /\ blocked' = bl
    BY <1>3, <2>1
  <2>2. CASE /\ toMain' \in {Append(tm, Msg("call", i)), Append(tm, Msg("reply", i))}
             /\ blocked' = bl
    BY <1>1, <1>3, <2>2, FreshToMain
  <2>3. CASE /\ toMain' = Append(tm, Msg("sync", i)) /\ blocked' = i
             /\ Fresh(kept, Dispatched(x)) \/ Renewed(op, tc, 0)
             /\ \A n \in 1..Len(tm) : tm[n].what # "sync"
    BY <1>1, <1>2, <1>3, <2>3, FreshToMain
  <2> QED
    BY <2>1, <2>2, <2>3 DEF Queues
<1> QED
  BY <1>1, <1>2, <1>3, <1>4

\* A flow of the user goes on, and then main's bot is fresh or the flow is to set its own.
LEMMA GestureMoves ==
  ASSUME BotInv, KeptInv, OneGesture, NEW g \in Gestures, NEW x \in OpType, Goes(g, x),
         GestureOK(kept, x),
         NEW tm \in Seq(MainMessage), NEW tc \in Seq(ClientMessage), NEW bl,
         Unaddressed(g, tm, tc), OnTheWay(kept, op, tm, tc, bl), Queues(g, x, tm, tc, bl),
         NEW s, SentBy(g, s), ~Tells(s), toClient' = tc \o s,
         Fresh(kept, main'.bot) \/ Sets(x), UNCHANGED <<file, kept>>
  PROVE  KeptInv'
<1>0. g \in Ops /\ \A r \in Reloads : r # g /\ r \in Ops
  BY SlotAssumption DEF Ops
<1>1. op'[g] = x /\ \A j \in Ops : j # g => op'[j] = op[j]
  BY <1>0 DEF Goes, BotInv, FlowsOK, Flows
<1>2. OnTheWay(kept, op', toMain', toClient', blocked')
  BY <1>0, FreshMoves
<1>3. ServicesKept' /\ \A r \in Reloads : ReloadOK(op'[r])
  BY <1>0, <1>1 DEF KeptInv, ServicesKept
<1>4. \A h \in Gestures : GestureOK(kept', op'[h])
  BY <1>1 DEF OneGesture
<1>5. BotKept'
  BY <1>1 DEF BotKept
<1> QED
  BY <1>2, <1>3, <1>4, <1>5 DEF KeptInv

\* A reload goes on, and then main's bot is fresh, or renewed, or the same.
LEMMA ReloadMoves ==
  ASSUME BotInv, KeptInv, NEW r \in Reloads, NEW x \in OpType, Goes(r, x), ReloadOK(x),
         NEW tm \in Seq(MainMessage), NEW tc \in Seq(ClientMessage), NEW bl,
         Unaddressed(r, tm, tc), OnTheWay(kept, op, tm, tc, bl), Queues(r, x, tm, tc, bl),
         NEW s, SentBy(r, s), Tells(s) => Fresh(kept, x.val), toClient' = tc \o s,
         Renewed(op, toClient, 0) => Renewed(op, tc, 0),
         main'.bot = main.bot \/ Fresh(kept, main'.bot) \/ Renewed(op, tc, 0),
         UNCHANGED <<file, kept>>
  PROVE  KeptInv'
<1>0. r \in Ops /\ \A g \in Gestures : g # r /\ g \in Ops
  BY SlotAssumption DEF Ops
<1>1. op'[r] = x /\ \A j \in Ops : j # r => op'[j] = op[j]
  BY <1>0 DEF Goes, BotInv, FlowsOK, Flows
<1>2. /\ OnTheWay(kept, op', toMain', toClient', blocked')
      /\ Renewed(op, tc, 0) => Renewed(op', toClient', 0)
  BY <1>0, FreshMoves
<1>3. ServicesKept' /\ \A h \in Gestures : GestureOK(kept', op'[h]) /\ op'[h] = op[h]
  BY <1>0, <1>1 DEF KeptInv, ServicesKept
<1>4. \A j \in Reloads : ReloadOK(op'[j])
  BY <1>1 DEF KeptInv, Ops
<1>5. BotKept'
  BY <1>2, <1>3 DEF KeptInv, BotKept
<1> QED
  BY <1>2, <1>3, <1>4, <1>5 DEF KeptInv

\* A flow of the user at its next await.
LEMMA AtFields ==
  ASSUME NEW o \in OpType, NEW pc \in Points
  PROVE  /\ At(o, pc) \in OpType /\ At(o, pc).pc = pc /\ At(o, pc).kind = o.kind
         /\ At(o, pc).val = o.val /\ At(o, pc).services = o.services
BY DEF At, OpType

LEMMA FreshAt ==
  ASSUME NEW k, NEW o \in OpType, o.kind \notin {"pick", "reload"},
         NEW pc \in Points, pc # "saving", pc = "ended" \/ Fresh(k, o.val)
  PROVE  GestureOK(k, At(o, pc))
BY AtFields DEF GestureOK

LEMMA FreshNone ==
  ASSUME NEW k
  PROVE  /\ \A v : v.path = NoPath => Fresh(k, v)
         /\ Fresh(k, NoBot) /\ GestureOK(k, Idle) /\ ReloadOK(Idle)
BY PathAssumption DEF Fresh, NoBot, GestureOK, ReloadOK, Idle

LEMMA NothingSent ==
  \A i, tc : tc \in Seq(ClientMessage) => SentBy(i, <<>>) /\ ~Tells(<<>>) /\ tc = tc \o <<>>
BY DEF SentBy, Tells

LEMMA FlowInState ==
  ASSUME BotInv, NEW i \in Ops
  PROVE  /\ op[i] \in OpType /\ OpOK(op[i]) /\ op[i].val \in BotValue
         /\ toMain \in Seq(MainMessage) /\ toClient \in Seq(ClientMessage) /\ op \in Flows
         /\ main.bot \in BotValue /\ Whole(main.bot) /\ main.recents \in SUBSET Bots
         /\ main \in [bot : BotValue, dir : Bots \cup {NoPath}, recents : SUBSET Bots,
                      path : Bots \cup {NoPath}, watching : Bots \cup {NoPath},
                      endpoints : BotValue]
BY DEF BotInv, MainOK, FlowsOK, Flows, OpType, MessagesOK

\* A flow of the user that has no message: main's bot is fresh.
LEMMA GestureAlone ==
  ASSUME BotInv, KeptInv, OneGesture, NEW g \in Gestures,
         op[g].pc \in ByItself
  PROVE  /\ Unaddressed(g, toMain, toClient) /\ Silent(g, toClient)
         /\ OnTheWay(kept, op, toMain, toClient, blocked)
         /\ GestureOK(kept, op[g]) /\ Fresh(kept, main.bot)
<1>1. Unaddressed(g, toMain, toClient)
  BY FreeInState DEF Free, Ops, ByItself
<1>2. Silent(g, toClient)
  BY <1>1 DEF Silent, Unaddressed
<1>3. ~Renewed(op, toClient, 0)
  BY <1>2, NotRenewed
<1>4. \A h \in Gestures : ~Sets(op[h])
  BY DEF Sets, OneGesture, ByItself
<1> QED
  BY <1>1, <1>2, <1>3, <1>4 DEF KeptInv, BotKept

\* ... or one whose message main takes.
LEMMA GestureRead ==
  ASSUME BotInv, KeptInv, OneGesture, NEW g \in Gestures, NEW what \in {"call", "reply", "sync"},
         toMain # <<>>, Head(toMain) = Msg(what, g)
  PROVE  /\ Unaddressed(g, Tail(toMain), toClient) /\ Tail(toMain) \in Seq(MainMessage)
         /\ OnTheWay(kept, op, Tail(toMain), toClient, blocked)
         /\ what = "sync" => /\ OnTheWay(kept, op, Tail(toMain), toClient, NoOp)
                             /\ Fresh(kept, Dispatched(op[g]))
         /\ GestureOK(kept, op[g])
         /\ Sets(op[g]) \/ Fresh(kept, main.bot)
<1>0. g \in Ops
  BY DEF Ops
<1>1. Unaddressed(g, Tail(toMain), toClient) /\ Tail(toMain) \in Seq(MainMessage)
  BY <1>0, MainTakes DEF Free
<1>2. Silent(g, toClient)
  BY <1>1 DEF Silent, Unaddressed
<1>3. ~Renewed(op, toClient, 0)
  BY <1>2, NotRenewed
<1>4. Head(toMain).what = what /\ Head(toMain).flow = g
  BY DEF Msg
<1>5. Link(op, main.path, toMain, toClient) /\ OnTheWay(kept, op, toMain, toClient, blocked)
  BY DEF BotInv, KeptInv
<1>6. /\ OnTheWay(kept, op, Tail(toMain), toClient, blocked)
      /\ what = "sync" => /\ OnTheWay(kept, op, Tail(toMain), toClient, NoOp)
                          /\ Fresh(kept, Dispatched(op[g]))
  BY <1>0, <1>3, <1>4, <1>5, FlowInState, FreshRead
<1>7. Sets(op[g]) \/ Fresh(kept, main.bot)
  BY <1>3 DEF KeptInv, BotKept, OneGesture
<1> QED
  BY <1>1, <1>6, <1>7 DEF KeptInv

\* ... or one whose message the client takes.
LEMMA GestureTaken ==
  ASSUME BotInv, KeptInv, OneGesture, NEW g \in Gestures, Receives,
         Head(toClient).what \in OfFlow \ {"clear"}, Head(toClient).flow = g, toClient' = Rest
  PROVE  /\ Unaddressed(g, toMain, toClient') /\ toClient' \in Seq(ClientMessage)
         /\ OnTheWay(kept, op, toMain, toClient', blocked)
         /\ \A n \in 1..Len(toMain) : toMain[n].what # "sync"
         /\ FitsClient(op, Head(toClient)) /\ GestureOK(kept, op[g])
         /\ Sets(op[g]) \/ Renews(op, Head(toClient)) \/ Fresh(kept, main.bot)
         /\ Head(toClient).what = "told" => Fresh(kept, op[g].val)
<1>0. g \in Ops
  BY DEF Ops
<1>1. /\ Unaddressed(g, toMain, toClient') /\ toClient' \in Seq(ClientMessage)
      /\ FitsClient(op, Head(toClient))
  BY ClientTakes DEF Free
<1>2. Silent(g, toClient')
  BY <1>1 DEF Silent, Unaddressed
<1>3. ~Renewed(op, toClient', 0)
  BY <1>2, NotRenewed
<1>4. /\ toClient # <<>> /\ blocked = NoOp /\ toClient' = Tail(toClient)
      /\ OnTheWay(kept, op, toMain, toClient, NoOp)
  BY DEF KeptInv, Receives, Runs, Rest
<1>5. /\ OnTheWay(kept, op, toMain, toClient', NoOp)
      /\ \A n \in 1..Len(toMain) : toMain[n].what # "sync"
      /\ Renewed(op, toClient, 0) => Renews(op, Head(toClient))
      /\ Head(toClient).what = "told" => Fresh(kept, op[Head(toClient).flow].val)
  BY <1>0, <1>3, <1>4, FlowInState, FreshTaken
<1>6. Sets(op[g]) \/ Renews(op, Head(toClient)) \/ Fresh(kept, main.bot)
  BY <1>5 DEF KeptInv, BotKept, OneGesture
<1> QED
  BY <1>1, <1>4, <1>5, <1>6 DEF KeptInv

-----------------------------------------------------------------------------
(* The client *)

\* A gesture calls or asks, or ends.
LEMMA GestureGoesOn ==
  ASSUME BotInv, KeptInv, OneGesture, NEW g \in Gestures, NEW x \in OpType, Goes(g, x),
         GestureOK(kept, x), Unaddressed(g, toMain, toClient'),
         OnTheWay(kept, op, toMain, toClient', blocked), toClient' \in Seq(ClientMessage),
         Queues(g, x, toMain, toClient', blocked), Fresh(kept, main.bot) \/ Sets(x),
         main' = main, UNCHANGED <<file, kept>>
  PROVE  KeptInv'
<1>1. toMain \in Seq(MainMessage) /\ main'.bot = main.bot
  BY FlowInState DEF Ops
<1> DEFINE s == <<>>
<1>2. SentBy(g, s) /\ ~Tells(s) /\ toClient' = toClient' \o s
  BY NothingSent
<1> HIDE DEF s
<1>3. \E tc \in Seq(ClientMessage) : tc = toClient'
  OBVIOUS
<1>4. PICK tc \in Seq(ClientMessage) : tc = toClient'
  BY <1>3
<1>5. /\ Unaddressed(g, toMain, tc) /\ OnTheWay(kept, op, toMain, tc, blocked)
      /\ toClient' = tc \o s
  BY <1>2, <1>4
<1> QED
  BY <1>1, <1>2, <1>5, GestureMoves

LEMMA AsksFirstFresh ==
  ASSUME BotInv, KeptInv, OneGesture, NEW g \in Gestures, NEW o \in OpType,
         o.kind \in {"switch", "create", "close"}, o.kind = "create" \/ Fresh(kept, o.val),
         Unaddressed(g, toMain, toClient'), OnTheWay(kept, op, toMain, toClient', blocked),
         toClient' \in Seq(ClientMessage), AsksFirst(g, o), Fresh(kept, main.bot),
         main' = main, UNCHANGED <<file, kept>>
  PROVE  KeptInv'
<1> DEFINE pc == FirstCall(o)
<1>1. /\ pc \in {"open", "set", "create", "close"} /\ "confirm" \in Points
      /\ o.kind = "create" => pc = "create"
  BY DEF FirstCall, Points, Reading, AtUser
<1>2. pc \in Points
  BY <1>1 DEF Points, Reading
<1> HIDE DEF pc
<1>3. At(o, "confirm") \in OpType /\ GestureOK(kept, At(o, "confirm"))
  BY <1>1, AtFields DEF GestureOK, Creates
<1>4. At(o, pc) \in OpType /\ GestureOK(kept, At(o, pc))
  BY <1>1, <1>2, AtFields DEF GestureOK, Creates
<1>5. CASE Goes(g, At(o, "confirm")) /\ UNCHANGED <<client, toMain, blocked>>
  BY <1>3, <1>5, GestureGoesOn DEF Queues
<1>6. CASE ClientCalls(g, At(o, pc))
  BY <1>4, <1>6, GestureGoesOn DEF Queues, ClientCalls
<1> QED
  BY <1>5, <1>6 DEF AsksFirst, Proceeds, pc

LEMMA SwitchToFresh ==
  ASSUME BotInv, KeptInv, OneGesture, NEW g \in Gestures, NEW o \in OpType,
         o.kind = "switch" \/ (o.kind = "open" /\ client.bot.path = o.bot), Fresh(kept, o.val),
         Unaddressed(g, toMain, toClient'), OnTheWay(kept, op, toMain, toClient', blocked),
         toClient' \in Seq(ClientMessage), SwitchTo(g, o), Fresh(kept, main.bot),
         main' = main, UNCHANGED <<file, kept>>
  PROVE  KeptInv'
<1>1. CASE client.bot.path = o.bot
  <2>1. Goes(g, Idle) /\ UNCHANGED <<toMain, blocked>>
    BY <1>1 DEF SwitchTo, NewLiveChat, Ends
  <2> QED
    BY <2>1, IdleType, FreshNone, GestureGoesOn DEF Queues
<1>2. CASE client.bot.path # o.bot
  <2>1. AsksFirst(g, o)
    BY <1>2 DEF SwitchTo
  <2> QED
    BY <1>2, <2>1, AsksFirstFresh
<1> QED
  BY <1>1, <1>2

LEMMA GestureFresh ==
  ASSUME BotInv, KeptInv, OneGesture, "pick" \notin Kinds, NEW g \in Gestures, ClientGesture(g)
  PROVE  KeptInv'
<1>0. g \in Ops /\ toClient \in Seq(ClientMessage)
  BY FlowInState DEF Ops
<1>1. op[g] = Idle
  BY DEF ClientGesture, ConfirmAndSwitchBots, ConfirmAndOpenBotFromFile, ConfirmAndCreateBot,
         RemoveFromRecentBots, OpenDeepLink, ConfirmAndCloseBot, LaunchConnectedServiceEditor,
         RemoveServiceFromActiveBot, LaunchConnectedServicePicker, Starts
<1>2. UNCHANGED <<main, file, kept, toClient>>
  BY DEF ClientGesture, ConfirmAndSwitchBots, ConfirmAndOpenBotFromFile, ConfirmAndCreateBot,
         RemoveFromRecentBots, OpenDeepLink, ConfirmAndCloseBot, LaunchConnectedServiceEditor,
         RemoveServiceFromActiveBot, LaunchConnectedServicePicker
<1>3. /\ Unaddressed(g, toMain, toClient) /\ OnTheWay(kept, op, toMain, toClient, blocked)
      /\ Fresh(kept, main.bot)
  BY <1>1, IdleType, GestureAlone DEF ByItself
<1>4. /\ Unaddressed(g, toMain, toClient') /\ OnTheWay(kept, op, toMain, toClient', blocked)
      /\ toClient' \in Seq(ClientMessage)
  BY <1>0, <1>2, <1>3
<1>5. ASSUME NEW x \in OpType, Goes(g, x), GestureOK(kept, x), Queues(g, x, toMain, toClient', blocked)
      PROVE  KeptInv'
  BY <1>2, <1>3, <1>4, <1>5, GestureGoesOn
<1>6. ASSUME NEW b \in Bots, ConfirmAndSwitchBots(g, b) PROVE KeptInv'
  <2> DEFINE o == [Idle EXCEPT !.kind = "switch", !.bot = b]
  <2>1. o \in OpType /\ o.kind = "switch" /\ o.bot = b /\ o.val = NoBot
    BY IdleType DEF OpType, Idle
  <2>2. SwitchTo(g, o)
    BY <1>6 DEF ConfirmAndSwitchBots
  <2> HIDE DEF o
  <2>3. Fresh(kept, o.val)
    BY <2>1, FreshNone
  <2> QED
    BY <1>2, <1>3, <1>4, <2>1, <2>2, <2>3, SwitchToFresh
<1>7. ASSUME NEW b \in Bots, ConfirmAndOpenBotFromFile(g, b) PROVE KeptInv'
  <2> DEFINE o == [Idle EXCEPT !.kind = "open", !.bot = b]
             x == At(o, "open")
  <2>1. o \in OpType /\ o.kind = "open" /\ o.bot = b /\ o.val = NoBot /\ "open" \in Points
    BY IdleType DEF OpType, Idle, Points, Reading
  <2>2. IF client.bot.path = o.bot THEN SwitchTo(g, o) ELSE Proceeds(g, o)
    BY <1>7, <2>1 DEF ConfirmAndOpenBotFromFile
  <2> HIDE DEF o
  <2>3. Fresh(kept, o.val)
    BY <2>1, FreshNone
  <2>4. CASE client.bot.path = o.bot
    <3>1. SwitchTo(g, o) /\ UNCHANGED <<toMain, blocked>>
      BY <2>2, <2>4 DEF SwitchTo
    <3> QED
      BY <1>2, <1>3, <1>4, <2>1, <2>3, <2>4, <3>1, SwitchToFresh
  <2>5. CASE client.bot.path # o.bot
    <3>1. ClientCalls(g, x)
      BY <2>1, <2>2, <2>5 DEF Proceeds, FirstCall
    <3>2. x \in OpType /\ GestureOK(kept, x)
      BY <2>1, <2>3, AtFields, FreshAt
    <3> HIDE DEF x
    <3> QED
      BY <1>5, <3>1, <3>2 DEF ClientCalls, Queues
  <2> QED
    BY <2>4, <2>5
<1>8. ASSUME NEW b \in Bots, ConfirmAndCreateBot(g, b) PROVE KeptInv'
  <2> DEFINE o == [Idle EXCEPT !.kind = "create", !.bot = b, !.val = BotAt(b, {})]
  <2>1. o \in OpType /\ o.kind = "create"
    <3>1. BotAt(b, {}) \in BotValue
      BY BotAtType
    <3> QED
      BY <3>1, IdleType DEF OpType, Idle
  <2>2. AsksFirst(g, o)
    BY <1>8 DEF ConfirmAndCreateBot
  <2> HIDE DEF o
  <2> QED
    BY <1>2, <1>3, <1>4, <2>1, <2>2, AsksFirstFresh
<1>9. CASE ConfirmAndCloseBot(g)
  <2> DEFINE o == [Idle EXCEPT !.kind = "close"]
  <2>1. o \in OpType /\ o.kind = "close" /\ o.val = NoBot
    BY IdleType DEF OpType, Idle
  <2>2. AsksFirst(g, o)
    BY <1>9 DEF ConfirmAndCloseBot
  <2> HIDE DEF o
  <2>3. Fresh(kept, o.val)
    BY <2>1, FreshNone
  <2> QED
    BY <1>2, <1>3, <1>4, <2>1, <2>2, <2>3, AsksFirstFresh
<1>10. ASSUME NEW x \in OpType, x.kind \notin {"pick", "reload"}, x.pc # "saving",
              x.val.path = NoPath, Goes(g, x), Queues(g, x, toMain, toClient', blocked)
       PROVE  KeptInv'
  <2>1. GestureOK(kept, x)
    BY <1>10, FreshNone DEF GestureOK
  <2> QED
    BY <1>5, <1>10, <2>1
<1>11. ASSUME NEW b \in Bots, RemoveFromRecentBots(g, b) PROVE KeptInv'
  <2> DEFINE x == [Idle EXCEPT !.kind = "forget", !.bot = b, !.pc = "confirm"]
  <2>1. /\ x \in OpType /\ x.kind = "forget" /\ x.pc = "confirm" /\ x.val.path = NoPath
    BY IdleType DEF OpType, Idle, NoBot, Points, Reading, AtUser
  <2>2. Goes(g, x) /\ UNCHANGED <<toMain, blocked>>
    BY <1>11 DEF RemoveFromRecentBots
  <2> HIDE DEF x
  <2> QED
    BY <1>10, <2>1, <2>2 DEF Queues
<1>12. ASSUME NEW s \in Services, RemoveServiceFromActiveBot(g, s) PROVE KeptInv'
  <2> DEFINE x == [Idle EXCEPT !.kind = "remove", !.services = {s}, !.pc = "confirm"]
  <2>1. /\ x \in OpType /\ x.kind = "remove" /\ x.pc = "confirm" /\ x.val.path = NoPath
    BY IdleType DEF OpType, Idle, NoBot, Points, Reading, AtUser
  <2>2. Goes(g, x) /\ UNCHANGED <<toMain, blocked>>
    BY <1>12 DEF RemoveServiceFromActiveBot
  <2> HIDE DEF x
  <2> QED
    BY <1>10, <2>1, <2>2 DEF Queues
<1>13. ASSUME NEW s \in Services, LaunchConnectedServiceEditor(g, s) PROVE KeptInv'
  <2> DEFINE x == [Idle EXCEPT !.kind = "add", !.services = {s}, !.pc = "add"]
  <2>1. /\ x \in OpType /\ x.kind = "add" /\ x.pc = "add" /\ x.val.path = NoPath
    BY IdleType DEF OpType, Idle, NoBot, Points, Reading, AtUser
  <2>2. ClientCalls(g, x)
    BY <1>13 DEF LaunchConnectedServiceEditor
  <2> HIDE DEF x
  <2> QED
    BY <1>10, <2>1, <2>2 DEF Queues, ClientCalls
<1>14. ASSUME NEW b \in Bots, NEW v \in BOOLEAN, OpenDeepLink(g, b, v) PROVE KeptInv'
  <2> DEFINE x == [Idle EXCEPT !.kind = "link", !.bot = b, !.pc = "loading", !.val.overrides = v]
  <2>1. /\ x \in OpType /\ x.kind = "link" /\ x.pc = "loading" /\ x.val.path = NoPath
    BY IdleType DEF OpType, Idle, NoBot, Points, Reading, BotValue
  <2>2. Goes(g, x) /\ UNCHANGED <<toMain, blocked>>
    BY <1>14 DEF OpenDeepLink
  <2> HIDE DEF x
  <2> QED
    BY <1>10, <2>1, <2>2 DEF Queues
<1>15. \A picked : ~LaunchConnectedServicePicker(g, picked)
  BY DEF LaunchConnectedServicePicker, Starts
<1> QED
  BY <1>6, <1>7, <1>8, <1>9, <1>11, <1>12, <1>13, <1>14, <1>15 DEF ClientGesture

LEMMA ConfirmFresh ==
  ASSUME BotInv, KeptInv, OneGesture, NEW g \in Ops, Confirm(g)
  PROVE  KeptInv'
<1>1. /\ op[g].pc = "confirm" /\ UNCHANGED <<main, file, kept, toClient>>
  BY DEF Confirm
<1>2. g \in Gestures
  BY <1>1 DEF Ops, KeptInv, ReloadOK
<1>3. /\ op[g] \in OpType /\ op[g].kind \in {"switch", "create", "close", "remove", "forget"}
      /\ toClient \in Seq(ClientMessage)
  BY <1>1, FlowInState DEF OpOK, HoldsAt
<1>4. /\ Unaddressed(g, toMain, toClient) /\ OnTheWay(kept, op, toMain, toClient, blocked)
      /\ Fresh(kept, main.bot) /\ GestureOK(kept, op[g])
  BY <1>1, <1>2, GestureAlone DEF ByItself
<1>5. op[g].kind = "create" \/ Fresh(kept, op[g].val)
  BY <1>1, <1>4 DEF GestureOK, Creates
<1>6. /\ Unaddressed(g, toMain, toClient') /\ OnTheWay(kept, op, toMain, toClient', blocked)
      /\ toClient' \in Seq(ClientMessage)
  BY <1>1, <1>3, <1>4
<1>7. ASSUME NEW x \in OpType, Goes(g, x), GestureOK(kept, x), Queues(g, x, toMain, toClient', blocked)
      PROVE  KeptInv'
  BY <1>1, <1>2, <1>4, <1>6, <1>7, GestureGoesOn
<1>8. CASE Ends(g) /\ UNCHANGED <<client, toMain, blocked>>
  BY <1>7, <1>8, IdleType, FreshNone DEF Ends, Queues
<1>9. CASE ClientCalls(g, At(op[g], op[g].kind)) /\ op[g].kind \in {"remove", "forget"}
  <2> DEFINE pc == op[g].kind
  <2>1. pc \in Points /\ pc # "saving" /\ Fresh(kept, op[g].val)
    BY <1>5, <1>9 DEF Points, Reading
  <2>2. At(op[g], pc) \in OpType /\ GestureOK(kept, At(op[g], pc))
    BY <1>3, <2>1, AtFields, FreshAt
  <2> HIDE DEF pc
  <2> QED
    BY <1>7, <1>9, <2>2 DEF ClientCalls, Queues, pc
<1>10. CASE Proceeds(g, op[g]) /\ op[g].kind \notin {"remove", "forget"}
  <2> DEFINE pc == FirstCall(op[g])
  <2>1. /\ pc \in {"open", "set", "create", "close"}
        /\ op[g].kind = "create" => pc = "create"
    BY <1>3, <1>10 DEF FirstCall
  <2>2. pc \in Points
    BY <2>1 DEF Points, Reading
  <2>3. ClientCalls(g, At(op[g], pc))
    BY <1>10 DEF Proceeds
  <2> HIDE DEF pc
  <2>4. At(op[g], pc) \in OpType /\ GestureOK(kept, At(op[g], pc))
    BY <1>3, <1>5, <2>1, <2>2, AtFields DEF GestureOK, Creates
  <2> QED
    BY <1>7, <2>3, <2>4 DEF ClientCalls, Queues
<1> QED
  BY <1>8, <1>9, <1>10 DEF Confirm

\* The client takes a message upon which no flow goes on.
LEMMA QuietFresh ==
  ASSUME BotInv, KeptInv, Receives, ~Renews(op, Head(toClient)), toClient' = Rest,
         toMain' = toMain \/ \E i \in Ops : toMain' = Append(toMain, Msg("reply", i)),
         UNCHANGED <<main, file, op, blocked, kept>>
  PROVE  KeptInv'
<1>1. /\ toClient # <<>> /\ blocked = NoOp /\ toClient' = Tail(toClient)
      /\ toMain \in Seq(MainMessage) /\ toClient \in Seq(ClientMessage) /\ op \in Flows
      /\ OnTheWay(kept, op, toMain, toClient, NoOp)
  BY DEF KeptInv, Receives, Runs, Rest, BotInv, MessagesOK, FlowsOK
<1>2. /\ OnTheWay(kept, op, toMain, toClient', NoOp)
      /\ Renewed(op, toClient, 0) => Renewed(op, toClient', 0)
  BY <1>1, FreshTaken
<1>3. toClient' \in Seq(ClientMessage)
  BY <1>1, TailAt
<1>4. PICK tc \in Seq(ClientMessage) : tc = toClient'
  BY <1>3
<1>5. OnTheWay(kept, op, toMain', tc, NoOp)
  <2>1. OnTheWay(kept, op, toMain, tc, NoOp)
    BY <1>2, <1>4
  <2> QED
    BY <1>1, <2>1, FreshToMain
<1>6. OnTheWay(kept', op', toMain', toClient', blocked')
  BY <1>1, <1>4, <1>5
<1>7. BotKept'
  BY <1>2 DEF KeptInv, BotKept
<1> QED
  BY <1>6, <1>7 DEF KeptInv, ServicesKept

\* The client takes the message of a reload: it is told of it, or its menus are shown.
LEMMA ReloadTaken ==
  ASSUME BotInv, KeptInv, NEW r \in Reloads, Receives,
         Head(toClient).what \in OfFlow \ {"clear"}, Head(toClient).flow = r, toClient' = Rest
  PROVE  /\ Unaddressed(r, toMain, toClient') /\ toClient' \in Seq(ClientMessage)
         /\ OnTheWay(kept, op, toMain, toClient', blocked)
         /\ \A n \in 1..Len(toMain) : toMain[n].what # "sync"
         /\ Renewed(op, toClient, 0) => Renewed(op, toClient', 0)
         /\ \/ /\ Head(toClient).what = "told" /\ op[r].pc = "telling"
               /\ Fresh(kept, op[r].val) \/ Renewed(op, toClient', 0)
            \/ Head(toClient).what = "reply" /\ op[r].pc = "shown"
<1>0. r \in Ops /\ r \notin Gestures
  BY SlotAssumption DEF Ops
<1>1. /\ Unaddressed(r, toMain, toClient') /\ toClient' \in Seq(ClientMessage)
      /\ FitsClient(op, Head(toClient))
  BY ClientTakes DEF Free
<1>2. \/ Head(toClient).what = "told" /\ op[r].pc = "telling"
      \/ Head(toClient).what = "reply" /\ op[r].pc = "shown"
  BY <1>1 DEF FitsClient, OfFlow, KeptInv, ReloadOK
<1>3. /\ toClient # <<>> /\ blocked = NoOp /\ toClient' = Tail(toClient)
      /\ OnTheWay(kept, op, toMain, toClient, NoOp) /\ ~Renews(op, Head(toClient))
  BY <1>0 DEF KeptInv, Receives, Runs, Rest, Renews
<1>4. /\ OnTheWay(kept, op, toMain, toClient', NoOp)
      /\ \A n \in 1..Len(toMain) : toMain[n].what # "sync"
      /\ Renewed(op, toClient, 0) => Renewed(op, toClient', 0)
      /\ Head(toClient).what = "told" => Fresh(kept, op[r].val) \/ Renewed(op, toClient', 0)
  <2>1. toMain \in Seq(MainMessage) /\ toClient \in Seq(ClientMessage) /\ op \in Flows
    BY <1>0, FlowInState
  <2> QED
    BY <1>3, <2>1, FreshTaken
<1> QED
  BY <1>1, <1>2, <1>3, <1>4

\* Bot.Load, with a fresh value.
LEMMA LoadFresh ==
  ASSUME BotInv, KeptInv, OneGesture, NEW g \in Gestures, LoadBot(g, op[g]),
         Fresh(kept, op[g].val),
         Unaddressed(g, toMain, toClient'), OnTheWay(kept, op, toMain, toClient', blocked),
         toClient' \in Seq(ClientMessage), Fresh(kept, main.bot),
         main' = main, UNCHANGED <<file, kept>>
  PROVE  KeptInv'
<1> DEFINE c == [op[g] EXCEPT !.kind = "create"]
           s == [op[g] EXCEPT !.kind = "switch"]
<1>1. /\ c \in OpType /\ c.kind = "create" /\ s \in OpType /\ s.kind = "switch"
      /\ s.val = op[g].val
  BY FlowInState DEF Ops, OpType
<1>2. AsksFirst(g, c) \/ SwitchTo(g, s)
  BY DEF LoadBot
<1> HIDE DEF c, s
<1>3. CASE AsksFirst(g, c)
  BY <1>1, <1>3, AsksFirstFresh
<1>4. CASE SwitchTo(g, s)
  BY <1>1, <1>4, SwitchToFresh
<1> QED
  BY <1>2, <1>3, <1>4

LEMMA ClientFresh ==
  ASSUME BotInv, KeptInv, OneGesture, ClientSteps
  PROVE  KeptInv'
<1>1. CASE StoreFollows
  <2>1. ~Renews(op, Head(toClient))
    BY <1>1 DEF StoreFollows, Renews
  <2> QED
    BY <1>1, <2>1, QuietFresh DEF StoreFollows
<1>2. CASE AnswersAtOnce
  <2>1. ~Renews(op, Head(toClient)) /\ Head(toClient).what \in OfFlow
    BY <1>2 DEF AnswersAtOnce, Renews, OfFlow
  <2>2. Head(toClient) \in ClientMessage
    BY <1>2, TailAt DEF AnswersAtOnce, Receives, BotInv, MessagesOK
  <2>3. Head(toClient).flow \in Ops
    BY <2>1, <2>2, MessageTypes
  <2> QED
    BY <1>2, <2>1, <2>3, QuietFresh DEF AnswersAtOnce
<1>3. CASE SetActiveInClient
  <2> DEFINE i == Head(toClient).flow
             x == At(op[i], "echo")
  <2>1. /\ Receives /\ Head(toClient).what = "told" /\ toClient' = Rest /\ Dispatches(i, x)
        /\ UNCHANGED <<main, file, kept>>
    BY <1>3 DEF SetActiveInClient
  <2>2. i \in Ops /\ FitsClient(op, Head(toClient)) /\ "echo" \in Points
    BY <2>1, ClientTakes DEF OfFlow, Points, Reading
  <2>3. op[i] \in OpType /\ op[i].pc = "telling"
    BY <2>1, <2>2, FlowInState DEF FitsClient
  <2>4. /\ x \in OpType /\ x.pc = "echo" /\ x.kind = op[i].kind /\ Dispatched(x) = op[i].val
        /\ \A k : Fresh(k, op[i].val) /\ op[i].kind \notin {"pick", "reload"} => GestureOK(k, x)
    BY <2>2, <2>3, AtFields, FreshAt DEF Dispatched
  <2>5. Goes(i, x) /\ toMain' = Append(toMain, Msg("sync", i)) /\ blocked' = i
    BY <2>1 DEF Dispatches
  <2>6. toMain \in Seq(MainMessage) /\ main'.bot = main.bot
    BY <2>1, <2>2, FlowInState
  <2> HIDE DEF x, i
  <2>7. CASE i \in Gestures
    <3>1. /\ Unaddressed(i, toMain, toClient') /\ toClient' \in Seq(ClientMessage)
          /\ OnTheWay(kept, op, toMain, toClient', blocked)
          /\ \A n \in 1..Len(toMain) : toMain[n].what # "sync"
          /\ GestureOK(kept, op[i]) /\ Fresh(kept, op[i].val)
      BY <2>1, <2>7, GestureTaken DEF i, OfFlow
    <3>2. GestureOK(kept, x) /\ Sets(x)
      BY <2>4, <3>1 DEF GestureOK, Sets
    <3>3. Queues(i, x, toMain, toClient', blocked)
      BY <2>4, <2>5, <3>1 DEF Queues
    <3> QED
      BY <2>1, <2>4, <2>5, <2>7, <3>1, <3>2, <3>3, GestureGoesOn
  <2>8. CASE i \in Reloads
    <3>1. /\ Unaddressed(i, toMain, toClient') /\ toClient' \in Seq(ClientMessage)
          /\ OnTheWay(kept, op, toMain, toClient', blocked)
          /\ \A n \in 1..Len(toMain) : toMain[n].what # "sync"
          /\ Renewed(op, toClient, 0) => Renewed(op, toClient', 0)
          /\ Fresh(kept, op[i].val) \/ Renewed(op, toClient', 0)
      BY <2>1, <2>8, ReloadTaken DEF i, OfFlow
    <3>2. ReloadOK(x)
      BY <2>3, <2>4, <2>8 DEF KeptInv, ReloadOK
    <3>3. PICK tc \in Seq(ClientMessage) : tc = toClient'
      BY <3>1
    <3>4. /\ Unaddressed(i, toMain, tc) /\ OnTheWay(kept, op, toMain, tc, blocked)
          /\ Renewed(op, toClient, 0) => Renewed(op, tc, 0)
      BY <3>1, <3>3
    <3>5. Queues(i, x, toMain, tc, blocked)
      BY <2>4, <2>5, <3>1, <3>3 DEF Queues
    <3> DEFINE s == <<>>
    <3>6. SentBy(i, s) /\ ~Tells(s) /\ toClient' = tc \o s
      BY <3>3, NothingSent
    <3> HIDE DEF s
    <3> QED
      BY <2>1, <2>4, <2>5, <2>6, <2>8, <3>2, <3>4, <3>5, <3>6, ReloadMoves
  <2> QED
    BY <2>2, <2>7, <2>8 DEF Ops
<1>4. CASE LoadIsCalled
  <2> DEFINE i == Head(toClient).flow
  <2>1. /\ Receives /\ Head(toClient).what = "load" /\ toClient' = Rest /\ LoadBot(i, op[i])
        /\ UNCHANGED <<main, file, kept>>
    BY <1>4 DEF LoadIsCalled
  <2>2. i \in Ops /\ FitsClient(op, Head(toClient))
    BY <2>1, ClientTakes DEF OfFlow
  <2>3. op[i].pc = "load"
    BY <2>1, <2>2 DEF FitsClient
  <2>4. i \in Gestures
    BY <2>2, <2>3 DEF Ops, KeptInv, ReloadOK
  <2> HIDE DEF i
  <2>5. /\ Unaddressed(i, toMain, toClient') /\ toClient' \in Seq(ClientMessage)
        /\ OnTheWay(kept, op, toMain, toClient', blocked)
        /\ GestureOK(kept, op[i])
        /\ Sets(op[i]) \/ Renews(op, Head(toClient)) \/ Fresh(kept, main.bot)
    BY <2>1, <2>4, GestureTaken DEF i, OfFlow
  <2>6. Fresh(kept, main.bot) /\ Fresh(kept, op[i].val)
    BY <2>1, <2>3, <2>5 DEF Sets, Renews, GestureOK, Creates
  <2> QED
    BY <2>1, <2>2, <2>4, <2>5, <2>6, FlowInState, LoadFresh
<1>5. ASSUME NEW i \in Ops, Answered(i),
             \/ op[i].pc \in {"opened", "userSet", "wasSet", "closed", "ended"}
             \/ op[i].pc = "shown" /\ i \in Gestures
      PROVE  /\ i \in Gestures /\ Unaddressed(i, toMain, toClient')
             /\ toClient' \in Seq(ClientMessage)
             /\ OnTheWay(kept, op, toMain, toClient', blocked)
             /\ \A n \in 1..Len(toMain) : toMain[n].what # "sync"
             /\ op[i] \in OpType /\ GestureOK(kept, op[i])
             /\ \/ (op[i].pc = "opened" /\ op[i].val # NoBot) \/ op[i].pc = "userSet"
                \/ Fresh(kept, main.bot)
             /\ UNCHANGED <<main, file, kept>>
  <2>1. /\ Receives /\ Head(toClient).what = "reply" /\ Head(toClient).flow = i
        /\ toClient' = Rest /\ UNCHANGED <<main, file, kept>>
    BY <1>5 DEF Answered, Msg
  <2>2. i \in Gestures
    BY <1>5 DEF Ops, KeptInv, ReloadOK
  <2>3. /\ Unaddressed(i, toMain, toClient') /\ toClient' \in Seq(ClientMessage)
        /\ OnTheWay(kept, op, toMain, toClient', blocked)
        /\ \A n \in 1..Len(toMain) : toMain[n].what # "sync"
        /\ GestureOK(kept, op[i])
        /\ Sets(op[i]) \/ Renews(op, Head(toClient)) \/ Fresh(kept, main.bot)
    BY <2>1, <2>2, GestureTaken DEF OfFlow
  <2>4. \/ (op[i].pc = "opened" /\ op[i].val # NoBot) \/ op[i].pc = "userSet"
        \/ Fresh(kept, main.bot)
    BY <1>5, <2>1, <2>3 DEF Sets, Renews
  <2> QED
    BY <1>5, <2>1, <2>2, <2>3, <2>4, FlowInState
<1>6. ASSUME NEW i \in Ops, OpenAnswered(i) PROVE KeptInv'
  <2>1. Answered(i) /\ op[i].pc \in {"opened", "userSet"}
    BY <1>6 DEF OpenAnswered
  <2>2. CASE op[i].pc = "opened" /\ op[i].val = NoBot
    <3>1. Goes(i, Idle) /\ UNCHANGED <<toMain, blocked>>
      BY <1>6, <2>2 DEF OpenAnswered, Ends
    <3> QED
      BY <1>5, <2>1, <2>2, <3>1, IdleType, FreshNone, GestureGoesOn DEF Queues
  <2>3. CASE ~(op[i].pc = "opened" /\ op[i].val = NoBot)
    <3>1. PICK pc \in {"user", "set"} : ClientCalls(i, At(op[i], pc))
      BY <1>6, <2>3 DEF OpenAnswered
    <3> DEFINE x == At(op[i], pc)
    <3>2. Goes(i, x) /\ toMain' = Append(toMain, Msg("call", i)) /\ UNCHANGED blocked
      BY <3>1 DEF ClientCalls
    <3>3. Fresh(kept, op[i].val) /\ op[i].kind \notin {"pick", "reload"} /\ pc \in Points
      BY <1>5, <2>1 DEF GestureOK, Creates, Points
    <3>4. x \in OpType /\ GestureOK(kept, x) /\ Sets(x)
      BY <1>5, <2>1, <3>3, AtFields, FreshAt DEF Sets
    <3> HIDE DEF x
    <3> QED
      BY <1>5, <2>1, <3>2, <3>4, GestureGoesOn DEF Queues
  <2> QED
    BY <2>2, <2>3
<1>7. ASSUME NEW i \in Ops, Answered(i), op[i].pc \in {"wasSet", "closed"}, Dispatches(i, op[i])
      PROVE  KeptInv'
  <2>1. Fresh(kept, Dispatched(op[i])) /\ Fresh(kept, main.bot) /\ i \in Gestures
    BY <1>5, <1>7, FreshNone DEF Dispatched, GestureOK, Creates
  <2>2. Queues(i, op[i], toMain, toClient', blocked) /\ Goes(i, op[i])
    BY <1>5, <1>7, <2>1 DEF Queues, Dispatches
  <2> QED
    BY <1>5, <1>7, <2>1, <2>2, GestureGoesOn
<1>8. ASSUME NEW i \in Ops, SetActiveAnswered(i) PROVE KeptInv'
  <2>1. Answered(i) /\ op[i].pc = "wasSet" /\ (LoadBot(i, op[i]) \/ Dispatches(i, op[i]))
    BY <1>8 DEF SetActiveAnswered
  <2>2. Fresh(kept, op[i].val) /\ Fresh(kept, main.bot)
    BY <1>5, <2>1 DEF GestureOK, Creates
  <2>3. CASE LoadBot(i, op[i])
    BY <1>5, <2>1, <2>2, <2>3, LoadFresh
  <2>4. CASE Dispatches(i, op[i])
    BY <1>7, <2>1, <2>4
  <2> QED
    BY <2>1, <2>3, <2>4
<1>9. ASSUME NEW i \in Ops, CloseAnswered(i) PROVE KeptInv'
  BY <1>7, <1>9 DEF CloseAnswered
<1>10. ASSUME NEW i \in Ops, OtherAnswered(i) PROVE KeptInv'
  <2>1. Answered(i) /\ op[i].pc = "ended" /\ Goes(i, Idle) /\ UNCHANGED <<toMain, blocked>>
    BY <1>10 DEF OtherAnswered, Ends
  <2> QED
    BY <1>5, <2>1, IdleType, FreshNone, GestureGoesOn DEF Queues
<1>11. ASSUME NEW i \in Ops, MenusAnswered(i) PROVE KeptInv'
  <2> DEFINE x == At(op[i], "telling")
  <2>1. /\ Answered(i) /\ op[i].pc = "shown" /\ Receives /\ toClient' = Rest
        /\ Head(toClient).what = "reply" /\ Head(toClient).flow = i
        /\ UNCHANGED <<main, file, kept>>
    BY <1>11 DEF MenusAnswered, Answered, Msg
  <2>2. \/ /\ Goes(i, x) /\ toMain' = Append(toMain, Msg("reply", i)) /\ UNCHANGED blocked
        \/ /\ op[i].kind # "reload" /\ Goes(i, Idle) /\ UNCHANGED <<toMain, blocked>>
    BY <1>11 DEF MenusAnswered, Ends
  <2>3. op[i] \in OpType /\ toMain \in Seq(MainMessage) /\ main'.bot = main.bot
        /\ "telling" \in Points
    BY <2>1, FlowInState DEF Points
  <2>4. x \in OpType /\ x.pc = "telling" /\ x.kind = op[i].kind
    BY <2>3, AtFields
  <2>5. CASE i \in Gestures
    <3>1. Fresh(kept, op[i].val) /\ op[i].kind \notin {"pick", "reload"}
      BY <1>5, <2>1, <2>5 DEF GestureOK, Creates
    <3>2. GestureOK(kept, x)
      BY <2>3, <3>1, FreshAt
    <3> HIDE DEF x
    <3> QED
      BY <1>5, <2>1, <2>2, <2>4, <2>5, <3>2, IdleType, FreshNone, GestureGoesOn DEF Queues
  <2>6. CASE i \in Reloads
    <3>1. /\ Unaddressed(i, toMain, toClient') /\ toClient' \in Seq(ClientMessage)
          /\ OnTheWay(kept, op, toMain, toClient', blocked)
          /\ Renewed(op, toClient, 0) => Renewed(op, toClient', 0)
      BY <2>1, <2>6, ReloadTaken DEF OfFlow
    <3>2. op[i].kind = "reload" /\ Goes(i, x)
          /\ toMain' = Append(toMain, Msg("reply", i)) /\ UNCHANGED blocked
      BY <2>1, <2>2, <2>6 DEF KeptInv, ReloadOK
    <3>3. ReloadOK(x)
      BY <2>4, <3>2 DEF ReloadOK
    <3> HIDE DEF x
    <3>4. PICK tc \in Seq(ClientMessage) : tc = toClient'
      BY <3>1
    <3>5. /\ Unaddressed(i, toMain, tc) /\ OnTheWay(kept, op, toMain, tc, blocked)
          /\ Renewed(op, toClient, 0) => Renewed(op, tc, 0)
      BY <3>1, <3>4
    <3>6. Queues(i, x, toMain, tc, blocked)
      BY <3>2 DEF Queues
    <3> DEFINE s == <<>>
    <3>7. SentBy(i, s) /\ ~Tells(s) /\ toClient' = tc \o s
      BY <3>4, NothingSent
    <3> HIDE DEF s
    <3> QED
      BY <2>1, <2>3, <2>4, <2>6, <3>2, <3>3, <3>5, <3>6, <3>7, ReloadMoves
  <2> QED
    BY <2>5, <2>6 DEF Ops
<1> QED
  BY <1>1, <1>2, <1>3, <1>4, <1>6, <1>8, <1>9, <1>10, <1>11 DEF ClientSteps

-----------------------------------------------------------------------------
(* The main process *)

\* The reducer keeps the services.
LEMMA FreshReduced ==
  ASSUME NEW k, NEW cur \in BotValue, NEW v \in BotValue, Fresh(k, v)
  PROVE  Fresh(k, Reduced(cur, v))
<1>1. Reduced(cur, v).path = v.path /\ Reduced(cur, v).services = v.services
  BY DEF Reduced, BotValue
<1> QED
  BY <1>1 DEF Fresh

\* A gesture sends the client actions, or a message other than that of a save.
LEMMA GestureSends ==
  ASSUME BotInv, KeptInv, OneGesture, NEW g \in Gestures, NEW x \in OpType, Goes(g, x),
         GestureOK(kept, x), Unaddressed(g, toMain', toClient),
         OnTheWay(kept, op, toMain', toClient, blocked), toMain' \in Seq(MainMessage),
         NEW s, SentBy(g, s), ~Tells(s), toClient' = toClient \o s,
         Fresh(kept, main'.bot) \/ Sets(x), UNCHANGED <<file, blocked, kept>>
  PROVE  KeptInv'
<1>1. toClient \in Seq(ClientMessage)
  BY DEF BotInv, MessagesOK
<1>2. PICK tm \in Seq(MainMessage) : tm = toMain'
  OBVIOUS
<1>3. /\ Unaddressed(g, tm, toClient) /\ OnTheWay(kept, op, tm, toClient, blocked)
      /\ Queues(g, x, tm, toClient, blocked)
  BY <1>2 DEF Queues
<1> QED
  BY <1>1, <1>3, GestureMoves

LEMMA GestureAnswers ==
  ASSUME BotInv, KeptInv, OneGesture, NEW g \in Gestures, NEW x \in OpType, GestureOK(kept, x),
         NEW acts, Forwards(acts), NEW what \in OfFlow, what # "told", MainSends(g, x, acts, what),
         Unaddressed(g, toMain', toClient), OnTheWay(kept, op, toMain', toClient, blocked),
         toMain' \in Seq(MainMessage),
         Fresh(kept, main'.bot) \/ Sets(x), UNCHANGED <<file, blocked, kept>>
  PROVE  KeptInv'
<1> DEFINE s == acts \o <<Msg(what, g)>>
<1>1. toClient \in Seq(ClientMessage) /\ g \in Ops
  BY DEF BotInv, MessagesOK, Ops
<1>2. SentBy(g, s) /\ ~Tells(s) /\ toClient \o acts \o <<Msg(what, g)>> = toClient \o s
  BY <1>1, SentForms
<1> HIDE DEF s
<1>3. Goes(g, x) /\ toClient' = toClient \o s
  BY <1>2 DEF MainSends
<1> QED
  BY <1>2, <1>3, GestureSends

LEMMA GestureQuiet ==
  ASSUME BotInv, KeptInv, OneGesture, NEW g \in Gestures, NEW x \in OpType, GestureOK(kept, x),
         Goes(g, x), toClient' = toClient,
         Unaddressed(g, toMain', toClient), OnTheWay(kept, op, toMain', toClient, blocked),
         toMain' \in Seq(MainMessage),
         Fresh(kept, main'.bot) \/ Sets(x), UNCHANGED <<file, blocked, kept>>
  PROVE  KeptInv'
<1> DEFINE s == <<>>
<1>1. toClient \in Seq(ClientMessage)
  BY DEF BotInv, MessagesOK
<1>2. SentBy(g, s) /\ ~Tells(s) /\ toClient' = toClient \o s
  BY <1>1, NothingSent
<1> HIDE DEF s
<1> QED
  BY <1>2, GestureSends

\* Main reduces what the client dispatches.
LEMMA SyncsFresh ==
  ASSUME BotInv, KeptInv, OneGesture, NEW i \in Ops, MainSyncs(i)
  PROVE  KeptInv'
<1> DEFINE v == Dispatched(op[i])
           x == At(op[i], "menus")
           tm == Tail(toMain)
           s == <<>>
<1>1. /\ toMain # <<>> /\ Head(toMain) = Msg("sync", i) /\ toClient' = toClient
      /\ main' = [main EXCEPT !.bot = Reduced(@, v)] /\ Goes(i, x) /\ blocked' = NoOp
      /\ toMain' = Append(tm, Msg("call", i)) /\ UNCHANGED <<file, kept>>
  BY DEF MainSyncs, Dispatched
<1>2. /\ op[i] \in OpType /\ op[i].val \in BotValue /\ main.bot \in BotValue
      /\ toClient \in Seq(ClientMessage) /\ toMain \in Seq(MainMessage) /\ op \in Flows
      /\ main'.bot = Reduced(main.bot, v)
  BY <1>1, FlowInState
<1>3. v \in BotValue
  BY <1>2, IdleType DEF Dispatched
<1>4. /\ Unaddressed(i, tm, toClient) /\ tm \in Seq(MainMessage)
      /\ op[i].pc \in {"echo", "wasSet", "closed"}
  BY <1>1, MainTakes DEF Free
<1>5. x \in OpType /\ x.pc = "menus" /\ x.kind = op[i].kind /\ x.val = op[i].val
  BY <1>2, AtFields DEF Points
<1>6. Queues(i, x, tm, toClient, NoOp)
  BY <1>1 DEF Queues
<1>7. SentBy(i, s) /\ ~Tells(s) /\ toClient' = toClient \o s
  BY <1>1, <1>2, NothingSent
<1>8. Head(toMain).what = "sync" /\ Head(toMain).flow = i
  BY <1>1 DEF Msg
<1>9. /\ OnTheWay(kept, op, tm, toClient, NoOp)
      /\ Fresh(kept, v) \/ Renewed(op, toClient, 0)
  <2>1. Link(op, main.path, toMain, toClient) /\ OnTheWay(kept, op, toMain, toClient, blocked)
    BY DEF BotInv, KeptInv
  <2> QED
    BY <1>1, <1>2, <1>8, <2>1, FreshRead
<1> HIDE DEF v, x, tm, s
<1>10. Fresh(kept, v) => Fresh(kept, main'.bot)
  BY <1>2, <1>3, FreshReduced
<1>11. CASE i \in Gestures
  <2>1. Fresh(kept, v) /\ GestureOK(kept, op[i])
    BY <1>1, <1>11, GestureRead DEF v
  <2>2. GestureOK(kept, x)
    BY <1>4, <1>5, <2>1 DEF GestureOK, Creates
  <2> QED
    BY <1>1, <1>2, <1>4, <1>5, <1>6, <1>7, <1>9, <1>10, <1>11, <2>1, <2>2, GestureMoves
<1>12. CASE i \in Reloads
  <2>1. ReloadOK(x)
    BY <1>4, <1>5, <1>12 DEF KeptInv, ReloadOK
  <2> QED
    BY <1>1, <1>2, <1>4, <1>5, <1>6, <1>7, <1>9, <1>10, <1>12, <2>1, ReloadMoves
<1> QED
  BY <1>11, <1>12 DEF Ops

\* Main takes a call or an answer of a gesture.
LEMMA MainTook ==
  ASSUME BotInv, KeptInv, OneGesture, NEW i \in Ops, NEW pc,
         \/ Called(i, pc) /\ (pc # "menus" \/ i \in Gestures)
         \/ Replied(i, pc) /\ i \in Gestures
  PROVE  /\ i \in Gestures /\ op[i].pc = pc
         /\ Unaddressed(i, toMain', toClient) /\ toMain' \in Seq(MainMessage)
         /\ OnTheWay(kept, op, toMain', toClient, blocked)
         /\ GestureOK(kept, op[i])
         /\ Sets(op[i]) \/ Fresh(kept, main.bot)
<1>1. PICK what \in {"call", "reply", "sync"} :
        /\ toMain # <<>> /\ Head(toMain) = Msg(what, i) /\ toMain' = Tail(toMain)
        /\ op[i].pc = pc /\ ((what = "call" /\ pc # "menus") \/ i \in Gestures)
  BY DEF Called, Replied
<1>2. i \in Gestures
  BY <1>1, MainTakes DEF AtCall, KeptInv, ReloadOK, Ops
<1> QED
  BY <1>1, <1>2, GestureRead

\* ... or one of a reload.
LEMMA ReloadRead ==
  ASSUME BotInv, KeptInv, NEW r \in Reloads, NEW what \in {"call", "reply"},
         toMain # <<>>, Head(toMain) = Msg(what, r)
  PROVE  /\ Unaddressed(r, Tail(toMain), toClient) /\ Tail(toMain) \in Seq(MainMessage)
         /\ OnTheWay(kept, op, Tail(toMain), toClient, blocked)
<1>1. r \in Ops
  BY DEF Ops
<1>2. Unaddressed(r, Tail(toMain), toClient) /\ Tail(toMain) \in Seq(MainMessage)
  BY <1>1, MainTakes DEF Free
<1>3. /\ Link(op, main.path, toMain, toClient) /\ OnTheWay(kept, op, toMain, toClient, blocked)
      /\ op \in Flows /\ toMain \in Seq(MainMessage) /\ toClient \in Seq(ClientMessage)
  BY DEF BotInv, KeptInv, FlowsOK, MessagesOK
<1> QED
  BY <1>2, <1>3, FreshRead

LEMMA MainFresh ==
  ASSUME BotInv, KeptInv, OneGesture, NEW i \in Ops, MainSteps(i)
  PROVE  KeptInv'
<1>0. /\ op[i] \in OpType /\ OpOK(op[i]) /\ op[i].val \in BotValue
      /\ main.bot \in BotValue /\ Whole(main.bot) /\ main.recents \in SUBSET Bots
      /\ main \in [bot : BotValue, dir : Bots \cup {NoPath}, recents : SUBSET Bots,
                   path : Bots \cup {NoPath}, watching : Bots \cup {NoPath}, endpoints : BotValue]
      /\ toClient \in Seq(ClientMessage)
  BY FlowInState
<1>1. "reply" \in OfFlow /\ "paths" \in OfFlow /\ "clear" \in OfFlow /\ "load" \in OfFlow
  BY DEF OfFlow
<1>2. ASSUME NEW pc \in Points, i \in Gestures, GestureOK(kept, op[i]), pc # "saving",
             pc = "ended" \/ Fresh(kept, op[i].val)
      PROVE  At(op[i], pc) \in OpType /\ GestureOK(kept, At(op[i], pc)) /\ At(op[i], pc).pc = pc
  BY <1>0, <1>2, AtFields, FreshAt DEF GestureOK
<1>3. ASSUME NEW command, Called(i, command), command # "menus" \/ i \in Gestures
      PROVE  /\ i \in Gestures /\ op[i].pc = command
             /\ Unaddressed(i, toMain', toClient) /\ toMain' \in Seq(MainMessage)
             /\ OnTheWay(kept, op, toMain', toClient, blocked)
             /\ GestureOK(kept, op[i])
             /\ Sets(op[i]) \/ Fresh(kept, main.bot)
  BY <1>3, MainTook
<1>4. ASSUME NEW pc, Replied(i, pc), i \in Gestures
      PROVE  /\ op[i].pc = pc
             /\ Unaddressed(i, toMain', toClient) /\ toMain' \in Seq(MainMessage)
             /\ OnTheWay(kept, op, toMain', toClient, blocked)
             /\ GestureOK(kept, op[i])
             /\ Sets(op[i]) \/ Fresh(kept, main.bot)
  BY <1>4, MainTook
<1>5. ASSUME NEW pc \in {"clearing", "updating"}, Replied(i, pc) PROVE i \in Gestures
  BY <1>5 DEF Replied, KeptInv, ReloadOK, Ops
<1>6. CASE OpenBot(i)
  <2> DEFINE x == At(op[i], "loading")
  <2>1. Called(i, "open") /\ Goes(i, x) /\ toClient' = toClient
        /\ UNCHANGED <<main, file, blocked, kept>>
    BY <1>6 DEF OpenBot
  <2>2. Fresh(kept, op[i].val) /\ Fresh(kept, main'.bot) /\ "loading" \in Points
    BY <1>3, <2>1 DEF GestureOK, Creates, Sets, Points, Reading
  <2>3. x \in OpType /\ GestureOK(kept, x)
    BY <1>2, <1>3, <2>1, <2>2
  <2> HIDE DEF x
  <2> QED
    BY <1>3, <2>1, <2>2, <2>3, GestureQuiet
<1>7. CASE SetActiveBot(i)
  <2> DEFINE x == At(op[i], "clearing")
  <2>1. Called(i, "set") /\ MainSends(i, x, <<>>, "clear") /\ UNCHANGED <<file, blocked, kept>>
    BY <1>7 DEF SetActiveBot, BeginsSetActive
  <2>2. Fresh(kept, op[i].val) /\ "clearing" \in Points
    BY <1>3, <2>1 DEF GestureOK, Creates, Points, Reading
  <2>3. x \in OpType /\ GestureOK(kept, x) /\ Sets(x)
    BY <1>2, <1>3, <2>1, <2>2 DEF Sets
  <2> HIDE DEF x
  <2> QED
    BY <1>1, <1>3, <2>1, <2>3, ForwardsOne, GestureAnswers
<1>8. CASE Cleared(i)
  <2> DEFINE v == op[i].val
             x == At(op[i], "updating")
  <2>1. /\ Replied(i, "clearing") /\ MainSends(i, x, <<Active(v)>>, "paths")
        /\ main'.bot = Reduced(main.bot, v) /\ UNCHANGED <<file, blocked, kept>>
    BY <1>0, <1>8 DEF Cleared
  <2>2. i \in Gestures /\ op[i].pc = "clearing" /\ v.path \in Bots /\ v \in BotValue
    BY <1>0, <1>5, <2>1 DEF Replied, OpOK, HoldsAt, HoldsBot
  <2>3. Fresh(kept, v) /\ "updating" \in Points
    BY <1>4, <2>1, <2>2 DEF GestureOK, Creates, Points, Reading
  <2>4. x \in OpType /\ GestureOK(kept, x) /\ Forwards(<<Active(v)>>)
    BY <1>2, <1>4, <2>1, <2>2, <2>3, ForwardsOne
  <2>5. Fresh(kept, main'.bot)
    BY <1>0, <2>1, <2>2, <2>3, FreshReduced
  <2> HIDE DEF x, v
  <2> QED
    BY <1>1, <1>4, <2>1, <2>2, <2>4, <2>5, GestureAnswers
<1>9. CASE SetActiveEnds(i)
  <2>1. /\ Replied(i, "updating") /\ UNCHANGED <<main, file, blocked, kept>>
        /\ \/ MainSends(i, At(op[i], "load"), <<>>, "load")
           \/ MainSends(i, At(op[i], "wasSet"), <<>>, "reply")
    BY <1>9 DEF SetActiveEnds
  <2>2. i \in Gestures /\ op[i].pc = "updating"
    BY <1>5, <2>1 DEF Replied
  <2>3. Fresh(kept, op[i].val) /\ Fresh(kept, main'.bot) /\ {"load", "wasSet"} \subseteq Points
    BY <1>4, <2>1, <2>2 DEF GestureOK, Creates, Sets, Points, Reading
  <2>4. /\ At(op[i], "load") \in OpType /\ GestureOK(kept, At(op[i], "load"))
        /\ At(op[i], "wasSet") \in OpType /\ GestureOK(kept, At(op[i], "wasSet"))
    BY <1>2, <1>4, <2>1, <2>2, <2>3
  <2> QED
    BY <1>1, <1>4, <2>1, <2>2, <2>3, <2>4, ForwardsOne, GestureAnswers
<1>10. CASE CloseBot(i)
  <2> DEFINE x == At(op[i], "closed")
  <2>1. /\ Called(i, "close") /\ MainSends(i, x, <<Closing>>, "reply") /\ main'.bot = NoBot
        /\ UNCHANGED <<file, blocked, kept>>
    BY <1>0, <1>10 DEF CloseBot
  <2>2. Fresh(kept, op[i].val) /\ Fresh(kept, main'.bot) /\ "closed" \in Points
    BY <1>3, <2>1, FreshNone DEF GestureOK, Creates, Points, Reading
  <2>3. x \in OpType /\ GestureOK(kept, x)
    BY <1>2, <1>3, <2>1, <2>2
  <2> HIDE DEF x
  <2> QED
    BY <1>1, <1>3, <2>1, <2>2, <2>3, ForwardsOne, GestureAnswers
<1>11. ASSUME NEW command, NEW v \in BotValue, Changes(i, command, v),
              command \in {"add", "remove"},
              Fresh(kept, main.bot) /\ main.bot # NoBot =>
                Saves(kept, [op[i] EXCEPT !.pc = "saving", !.val = v])
       PROVE  KeptInv'
  <2>1. Called(i, command) /\ command # "menus" /\ UNCHANGED <<main, file, blocked, kept>>
    BY <1>11 DEF Changes
  <2>2. Fresh(kept, main.bot) /\ Fresh(kept, main'.bot)
    BY <1>3, <1>11, <2>1 DEF Sets
  <2>3. CASE /\ main.bot # NoBot /\ toClient' = toClient
             /\ Goes(i, [op[i] EXCEPT !.pc = "saving", !.val = v])
    <3> DEFINE x == [op[i] EXCEPT !.pc = "saving", !.val = v]
    <3>1. x \in OpType /\ x.pc = "saving" /\ x.kind = op[i].kind
      BY <1>0, <1>11 DEF OpType, Points, Reading
    <3>2. Saves(kept, x)
      BY <1>11, <2>2, <2>3
    <3> HIDE DEF x
    <3>3. GestureOK(kept, x)
      BY <1>3, <2>1, <3>1, <3>2 DEF GestureOK
    <3>4. Goes(i, x) /\ toClient' = toClient
      BY <2>3 DEF x
    <3> QED
      BY <1>3, <2>1, <2>2, <3>1, <3>3, <3>4, GestureQuiet
  <2>4. CASE MainSends(i, At(op[i], "ended"), <<>>, "reply")
    <3>1. At(op[i], "ended") \in OpType /\ GestureOK(kept, At(op[i], "ended"))
      BY <1>2, <1>3, <2>1 DEF Points, Reading
    <3> QED
      BY <1>1, <1>3, <2>1, <2>2, <2>4, <3>1, ForwardsOne, GestureAnswers
  <2> QED
    BY <1>11, <2>3, <2>4 DEF Changes
<1>12. ASSUME AddOrUpdateService(i) PROVE KeptInv'
  <2> DEFINE v == [main.bot EXCEPT !.services = @ \cup op[i].services]
             x == [op[i] EXCEPT !.pc = "saving", !.val = v]
  <2>1. Changes(i, "add", v) /\ op[i].kind = "add"
    BY <1>0, <1>12 DEF AddOrUpdateService, Changes, Called, OpOK, HoldsAt
  <2>2. /\ v \in BotValue /\ v.path = main.bot.path
        /\ v.services = main.bot.services \cup op[i].services
    BY <1>0 DEF BotValue, OpType
  <2>3. x.kind = "add" /\ x.val = v /\ x.services = op[i].services
    BY <1>0, <2>1 DEF OpType
  <2> HIDE DEF v, x
  <2>4. ASSUME Fresh(kept, main.bot), main.bot # NoBot PROVE Saves(kept, x)
    <3>1. main.bot.path \in Bots
      BY <1>0, <2>4 DEF Whole, BotValue
    <3> QED
      BY <2>2, <2>3, <2>4, <3>1 DEF Saves, Fresh
  <2> QED
    BY <1>11, <2>1, <2>2, <2>4 DEF x
<1>13. ASSUME RemoveService(i) PROVE KeptInv'
  <2> DEFINE v == [main.bot EXCEPT !.services = @ \ op[i].services]
             x == [op[i] EXCEPT !.pc = "saving", !.val = v]
  <2>1. Changes(i, "remove", v) /\ op[i].kind = "remove"
    BY <1>0, <1>13 DEF RemoveService, Changes, Called, OpOK, HoldsAt
  <2>2. /\ v \in BotValue /\ v.path = main.bot.path
        /\ v.services = main.bot.services \ op[i].services
    BY <1>0 DEF BotValue
  <2>3. x.kind = "remove" /\ x.val = v /\ x.services = op[i].services
    BY <1>0, <2>1 DEF OpType
  <2> HIDE DEF v, x
  <2>4. ASSUME Fresh(kept, main.bot), main.bot # NoBot PROVE Saves(kept, x)
    <3>1. main.bot.path \in Bots
      BY <1>0, <2>4 DEF Whole, BotValue
    <3> QED
      BY <2>2, <2>3, <2>4, <3>1 DEF Saves, Fresh
  <2> QED
    BY <1>11, <2>1, <2>2, <2>4 DEF x
<1>14. ~SaveBot(i)
  BY <1>0, <1>3 DEF SaveBot, Called, OpOK, HoldsAt, GestureOK
<1>15. CASE CreateBot(i)
  <2> DEFINE known == main.recents \cup {op[i].bot}
             x == At(op[i], "saving")
             s == <<Recents(known)>>
  <2>1. /\ Called(i, "create") /\ main'.bot = main.bot /\ Goes(i, x)
        /\ toClient' = Append(toClient, Recents(known)) /\ UNCHANGED <<file, blocked, kept>>
    BY <1>0, <1>15 DEF CreateBot
  <2>2. op[i].kind = "create" /\ known \in SUBSET Bots /\ Fresh(kept, main'.bot)
    BY <1>0, <1>3, <2>1 DEF Called, OpOK, HoldsAt, NamesBot, Sets
  <2>3. x \in OpType /\ x.pc = "saving" /\ x.kind = "create"
    BY <1>0, <2>2, AtFields DEF Points, Reading
  <2>4. GestureOK(kept, x)
    BY <2>3 DEF GestureOK, Saves
  <2>5. Recents(known) \in ClientMessage
    BY <2>2 DEF Recents, ClientMessage
  <2>6. toClient' = toClient \o s
    <3> HIDE DEF known
    <3>1. \E a \in ClientMessage : a = Recents(known)
      BY <2>5
    <3>2. PICK a \in ClientMessage : a = Recents(known)
      BY <3>1
    <3>3. Append(toClient, a) = toClient \o <<a>>
      BY <1>0
    <3> QED
      BY <2>1, <3>2, <3>3
  <2>7. SentBy(i, s) /\ ~Tells(s)
    BY <2>2, ForwardsOne, SentForms
  <2> HIDE DEF known, x, s
  <2> QED
    BY <1>3, <2>1, <2>2, <2>3, <2>4, <2>6, <2>7, GestureSends
<1>16. CASE RemoveFromBotList(i)
  <2> DEFINE known == main.recents \ {op[i].bot}
             x == At(op[i], "ended")
  <2>1. /\ Called(i, "forget") /\ main'.bot = main.bot
        /\ MainSends(i, x, <<Recents(known)>>, "reply") /\ UNCHANGED <<file, blocked, kept>>
    BY <1>0, <1>16 DEF RemoveFromBotList
  <2>2. Fresh(kept, main'.bot) /\ "ended" \in Points /\ known \in SUBSET Bots
    <3>1. Fresh(kept, main'.bot)
      BY <1>3, <2>1 DEF Sets
    <3>2. "ended" \in Points
      BY DEF Points, Reading
    <3>3. known \in SUBSET Bots
      BY <1>0
    <3> QED
      BY <3>1, <3>2, <3>3
  <2>3. x \in OpType /\ GestureOK(kept, x) /\ Forwards(<<Recents(known)>>)
    BY <1>2, <1>3, <2>1, <2>2, ForwardsOne
  <2> HIDE DEF x, known
  <2> QED
    BY <1>1, <1>3, <2>1, <2>2, <2>3, GestureAnswers
<1>17. CASE ClientWasTold(i)
  <2>1. /\ Replied(i, "telling") /\ UNCHANGED <<main, file, blocked, kept>>
        /\ IF op[i].kind = "reload" THEN Goes(i, Idle) /\ UNCHANGED toClient
           ELSE MainSends(i, At(op[i], "ended"), <<>>, "reply")
    BY <1>17 DEF ClientWasTold, Ends
  <2>2. CASE i \in Gestures
    <3>1. Fresh(kept, main'.bot) /\ op[i].kind # "reload" /\ "ended" \in Points
      BY <1>4, <2>1, <2>2 DEF Sets, GestureOK, Points, Reading
    <3>2. At(op[i], "ended") \in OpType /\ GestureOK(kept, At(op[i], "ended"))
      BY <1>2, <1>4, <2>1, <2>2, <3>1
    <3> QED
      BY <1>1, <1>4, <2>1, <2>2, <3>1, <3>2, ForwardsOne, GestureAnswers
  <2>3. CASE i \in Reloads
    <3>1. op[i].kind = "reload"
      BY <2>1, <2>3 DEF Replied, KeptInv, ReloadOK
    <3>2. Goes(i, Idle) /\ toClient' = toClient
      BY <2>1, <3>1
    <3>3. /\ toMain # <<>> /\ Head(toMain) = Msg("reply", i) /\ toMain' = Tail(toMain)
      BY <2>1 DEF Replied
    <3>4. /\ Unaddressed(i, Tail(toMain), toClient) /\ Tail(toMain) \in Seq(MainMessage)
          /\ OnTheWay(kept, op, Tail(toMain), toClient, blocked)
      BY <2>3, <3>3, ReloadRead
    <3>6. Queues(i, Idle, Tail(toMain), toClient, blocked)
      BY <2>1, <3>3 DEF Queues
    <3> DEFINE s == <<>>
    <3>7. SentBy(i, s) /\ ~Tells(s) /\ toClient' = toClient \o s
      BY <1>0, <3>2, NothingSent
    <3> HIDE DEF s
    <3> QED
      BY <1>0, <2>1, <2>3, <3>2, <3>4, <3>6, <3>7, IdleType, FreshNone, ReloadMoves
  <2> QED
    BY <2>2, <2>3 DEF Ops
<1>18. CASE SetCurrentUser(i)
  <2> DEFINE x == At(op[i], "userSet")
  <2>1. Called(i, "user") /\ MainSends(i, x, <<>>, "reply") /\ UNCHANGED <<file, blocked, kept>>
    BY <1>18 DEF SetCurrentUser
  <2>2. Fresh(kept, op[i].val) /\ "userSet" \in Points
    BY <1>3, <2>1 DEF GestureOK, Creates, Points
  <2>3. x \in OpType /\ GestureOK(kept, x) /\ Sets(x)
    BY <1>2, <1>3, <2>1, <2>2 DEF Sets
  <2> HIDE DEF x
  <2> QED
    BY <1>1, <1>3, <2>1, <2>3, ForwardsOne, GestureAnswers
<1>19. CASE UpdateMenus(i)
  <2> DEFINE x == At(op[i], "shown")
  <2>1. /\ Called(i, "menus") /\ op[i].pc = "menus" /\ MainSends(i, x, <<>>, "reply")
        /\ UNCHANGED <<main, file, blocked, kept>>
    BY <1>19 DEF UpdateMenus, Called
  <2>2. "shown" \in Points /\ x \in OpType /\ x.pc = "shown" /\ x.kind = op[i].kind
    <3>1. "shown" \in Points
      BY DEF Points
    <3> QED
      BY <1>0, <3>1, AtFields
  <2>3. CASE i \in Gestures
    <3>1. Fresh(kept, op[i].val) /\ Fresh(kept, main'.bot)
      BY <1>3, <2>1, <2>3 DEF GestureOK, Creates, Sets
    <3>2. GestureOK(kept, x)
      BY <1>2, <1>3, <2>1, <2>2, <2>3, <3>1
    <3> HIDE DEF x
    <3> QED
      BY <1>1, <1>3, <2>1, <2>2, <2>3, <3>1, <3>2, ForwardsOne, GestureAnswers
  <2>4. CASE i \in Reloads
    <3>1. ReloadOK(x) /\ Goes(i, x)
      BY <2>1, <2>2, <2>4 DEF KeptInv, ReloadOK, MainSends
    <3>2. /\ toMain # <<>> /\ Head(toMain) = Msg("call", i) /\ toMain' = Tail(toMain)
      BY <2>1 DEF Called
    <3>3. /\ Unaddressed(i, Tail(toMain), toClient) /\ Tail(toMain) \in Seq(MainMessage)
          /\ OnTheWay(kept, op, Tail(toMain), toClient, blocked)
      BY <2>4, <3>2, ReloadRead
    <3>4. Queues(i, x, Tail(toMain), toClient, blocked)
      BY <2>1, <3>2 DEF Queues
    <3> DEFINE s == <<>> \o <<Msg("reply", i)>>
    <3>5. SentBy(i, s) /\ ~Tells(s) /\ toClient' = toClient \o s
      BY <1>0, <1>1, <2>1, ForwardsOne, SentForms DEF MainSends
    <3> HIDE DEF s, x
    <3> QED
      BY <1>0, <2>1, <2>2, <2>4, <3>1, <3>3, <3>4, <3>5, ReloadMoves
  <2> QED
    BY <2>3, <2>4 DEF Ops
<1> QED
  BY <1>6, <1>7, <1>8, <1>9, <1>10, <1>12, <1>13, <1>14, <1>15, <1>16, <1>17, <1>18, <1>19,
     SyncsFresh
     DEF MainSteps

-----------------------------------------------------------------------------
(* Files *)

\* A reload goes on by itself, and may forward actions.
LEMMA ReloadForwards ==
  ASSUME BotInv, KeptInv, NEW r \in Reloads, op[r].pc \in {"idle", "prompt"} \cup Reading,
         NEW x \in OpType, ReloadOK(x), Goes(r, x), main'.bot = main.bot,
         NEW acts, Forwards(acts), toClient' = toClient \o acts,
         UNCHANGED <<file, toMain, blocked, kept>>
  PROVE  KeptInv'
<1>1. /\ toMain \in Seq(MainMessage) /\ toClient \in Seq(ClientMessage)
      /\ Unaddressed(r, toMain, toClient) /\ OnTheWay(kept, op, toMain, toClient, blocked)
  BY FlowInState, FreeInState DEF Free, KeptInv, Ops, ByItself, Reading
<1>2. SentBy(r, acts) /\ ~Tells(acts)
  BY SentForms DEF Ops
<1>3. Queues(r, x, toMain, toClient, blocked)
  BY DEF Queues
<1> QED
  BY <1>1, <1>2, <1>3, ReloadMoves

LEMMA ReloadQuiet ==
  ASSUME BotInv, KeptInv, NEW r \in Reloads, op[r].pc \in {"idle", "prompt"} \cup Reading,
         NEW x \in OpType, ReloadOK(x), Goes(r, x), main'.bot = main.bot,
         UNCHANGED <<file, toMain, toClient, blocked, kept>>
  PROVE  KeptInv'
<1> DEFINE acts == <<>>
<1>1. Forwards(acts)
  BY ForwardsOne
<1>2. toClient' = toClient \o acts
  BY DEF BotInv, MessagesOK
<1> HIDE DEF acts
<1> QED
  BY <1>1, <1>2, ReloadForwards

\* loadBotWithRetry() ends, for a gesture or for a reload.
LEMMA LoadedFresh ==
  ASSUME BotInv, KeptInv, OneGesture, NEW i \in Ops, op[i].pc \in Reading \cup {"prompt"},
         NEW v \in BotValue, Fresh(kept, v), NEW acts, Forwards(acts), Loaded(i, v, acts),
         main'.bot = main.bot, UNCHANGED <<file, toMain, blocked, kept>>
  PROVE  KeptInv'
<1>1. /\ op[i] \in OpType /\ op[i].val \in BotValue /\ toMain \in Seq(MainMessage)
      /\ toClient \in Seq(ClientMessage)
  BY FlowInState
<1>2. CASE i \in Reloads
  <2> DEFINE x == IF v = NoBot THEN Idle ELSE [op[i] EXCEPT !.pc = "read", !.val = v]
  <2>1. op[i].kind = "reload"
    BY <1>2 DEF KeptInv, ReloadOK, Reading
  <2>2. Goes(i, x) /\ toClient' = toClient \o acts
    BY <2>1 DEF Loaded, Ends
  <2>3. x \in OpType /\ (x = Idle \/ (x.kind = "reload" /\ x.pc = "read"))
    <3> DEFINE y == [op[i] EXCEPT !.pc = "read", !.val = v]
    <3>1. y \in OpType /\ y.kind = "reload" /\ y.pc = "read"
      BY <1>1, <2>1 DEF OpType, Points
    <3>2. x = Idle \/ x = y
      OBVIOUS
    <3> HIDE DEF x, y
    <3> QED
      BY <3>1, <3>2, IdleType
  <2> HIDE DEF x
  <2>4. ReloadOK(x)
    BY <2>3, FreshNone DEF ReloadOK
  <2> QED
    BY <1>2, <2>2, <2>3, <2>4, ReloadForwards
<1>3. ASSUME i \in Gestures
      PROVE  /\ Unaddressed(i, toMain, toClient) /\ OnTheWay(kept, op, toMain, toClient, blocked)
             /\ GestureOK(kept, op[i]) /\ Fresh(kept, main'.bot)
             /\ Unaddressed(i, toMain', toClient) /\ OnTheWay(kept, op, toMain', toClient, blocked)
             /\ toMain' \in Seq(MainMessage) /\ op[i].kind \notin {"pick", "reload"}
  <2>1. /\ Unaddressed(i, toMain, toClient) /\ OnTheWay(kept, op, toMain, toClient, blocked)
        /\ GestureOK(kept, op[i]) /\ Fresh(kept, main'.bot)
    BY <1>3, GestureAlone DEF ByItself, Reading
  <2> QED
    BY <1>1, <2>1 DEF GestureOK
<1>4. CASE i \in Gestures /\ op[i].kind = "link"
  <2> DEFINE w == [v EXCEPT !.overrides = op[i].val.overrides]
             x == IF v = NoBot THEN Idle ELSE [op[i] EXCEPT !.pc = "tunnel", !.val = w]
  <2>1. Goes(i, x) /\ toClient' = toClient \o acts
    BY <1>4 DEF Loaded, Ends
  <2>2. w \in BotValue /\ w.path = v.path /\ w.services = v.services
    BY <1>1 DEF BotValue
  <2> HIDE DEF w
  <2>3. Fresh(kept, w)
    BY <2>2 DEF Fresh
  <2>4. x \in OpType /\ (x = Idle \/ (x.kind = op[i].kind /\ x.pc = "tunnel" /\ x.val = w))
    <3> DEFINE y == [op[i] EXCEPT !.pc = "tunnel", !.val = w]
    <3>1. "tunnel" \in Points
      BY DEF Points, AtUser
    <3>2. y \in OpType /\ y.kind = op[i].kind /\ y.pc = "tunnel" /\ y.val = w
      BY <1>1, <2>2, <3>1 DEF OpType
    <3>3. x = Idle \/ x = y
      OBVIOUS
    <3> HIDE DEF x, y
    <3> QED
      BY <3>2, <3>3, IdleType
  <2> HIDE DEF x
  <2>5. GestureOK(kept, x)
    BY <1>3, <1>4, <2>3, <2>4, FreshNone DEF GestureOK
  <2>6. SentBy(i, acts) /\ ~Tells(acts)
    BY SentForms
  <2> QED
    BY <1>3, <1>4, <2>1, <2>4, <2>5, <2>6, GestureSends
<1>5. CASE i \in Gestures /\ op[i].kind # "link"
  <2> DEFINE x == [op[i] EXCEPT !.pc = "opened", !.val = v]
  <2>1. MainSends(i, x, acts, "reply") /\ "reply" \in OfFlow
    BY <1>3, <1>5 DEF Loaded, OfFlow
  <2>2. x \in OpType /\ x.pc = "opened" /\ x.kind = op[i].kind /\ x.val = v
    BY <1>1 DEF OpType, Points
  <2> HIDE DEF x
  <2>3. GestureOK(kept, x)
    BY <1>3, <1>5, <2>2 DEF GestureOK
  <2> QED
    BY <1>3, <1>5, <2>1, <2>2, <2>3, GestureAnswers
<1> QED
  BY <1>2, <1>4, <1>5 DEF Ops

LEMMA LoadFailsFresh ==
  ASSUME BotInv, KeptInv, OneGesture, NEW i \in Ops, op[i].pc \in Reading \cup {"prompt"},
         LoadFails(i), UNCHANGED <<file, toMain, blocked, kept>>
  PROVE  KeptInv'
<1>1. Loaded(i, NoBot, <<>>) /\ main' = main
  BY DEF LoadFails
<1> QED
  BY <1>1, IdleType, FreshNone, ForwardsOne, LoadedFresh

\* A secret is asked for, or tried.
LEMMA ReadingFresh ==
  ASSUME BotInv, KeptInv, OneGesture, NEW i \in Ops, op[i].pc \in Reading \cup {"prompt"},
         NEW pc \in Reading \cup {"prompt"}, Goes(i, At(op[i], pc)),
         UNCHANGED <<main, file, toMain, toClient, blocked, kept>>
  PROVE  KeptInv'
<1> DEFINE x == At(op[i], pc)
<1>1. /\ op[i] \in OpType /\ pc \in Points /\ toMain \in Seq(MainMessage)
      /\ toMain' = toMain
  BY FlowInState DEF Points, AtUser
<1>2. x \in OpType /\ x.pc = pc /\ x.kind = op[i].kind
  BY <1>1, AtFields
<1>3. CASE i \in Gestures
  <2>1. /\ Unaddressed(i, toMain', toClient) /\ OnTheWay(kept, op, toMain', toClient, blocked)
        /\ GestureOK(kept, op[i]) /\ Fresh(kept, main'.bot)
    BY <1>1, <1>3, GestureAlone DEF ByItself, Reading
  <2>2. op[i].kind \notin {"pick", "reload"} /\ Fresh(kept, op[i].val) /\ pc # "saving"
    BY <2>1 DEF GestureOK, Creates, Reading
  <2>3. GestureOK(kept, x)
    BY <1>1, <2>2, FreshAt
  <2> HIDE DEF x
  <2>4. Goes(i, x)
    BY DEF x
  <2> QED
    BY <1>1, <1>2, <1>3, <2>1, <2>3, <2>4, GestureQuiet
<1>4. CASE i \in Reloads
  <2>1. ReloadOK(x)
    BY <1>2, <1>4 DEF KeptInv, ReloadOK, Reading
  <2>2. Goes(i, x) /\ main'.bot = main.bot
    OBVIOUS
  <2> HIDE DEF x
  <2> QED
    BY <1>2, <1>4, <2>1, <2>2, ReloadQuiet
<1> QED
  BY <1>3, <1>4 DEF Ops

\* Fewer services are to be kept: everything else is as good as before.
LEMMA FewerKept ==
  ASSUME BotInv, KeptInv, NEW k, \A b \in Bots : k[b] \subseteq kept[b]
  PROVE  /\ \A v : Fresh(kept, v) => Fresh(k, v)
         /\ \A g \in Gestures : GestureOK(k, op[g])
         /\ OnTheWay(k, op, toMain, toClient, blocked)
<1>1. /\ \A v : Fresh(kept, v) => Fresh(k, v)
      /\ \A x \in OpType : x.val.path \in Bots /\ Saves(kept, x) => Saves(k, x)
      /\ OnTheWay(kept, op, toMain, toClient, blocked)
           => OnTheWay(k, op, toMain, toClient, blocked)
  BY FreshFewer
<1>2. ASSUME NEW g \in Gestures PROVE GestureOK(k, op[g])
  <2>1. op[g] \in OpType /\ OpOK(op[g]) /\ GestureOK(kept, op[g])
    BY FlowInState DEF KeptInv, Ops
  <2>2. op[g].pc = "saving" => op[g].val.path \in Bots
    BY <2>1 DEF OpOK, HoldsAt, HoldsBot
  <2> QED
    BY <1>1, <2>1, <2>2 DEF GestureOK
<1> QED
  BY <1>1, <1>2 DEF KeptInv

\* A reload sets and sends what it has read: what was added meanwhile is not kept.
LEMMA ReloadedFresh ==
  ASSUME BotInv, KeptInv, NEW r \in Ops, ReloadEnds(r)
  PROVE  KeptInv'
<1> DEFINE v == op[r].val
           x == At(op[r], "telling")
           s == <<Active(v)>> \o <<Msg("told", r)>>
           p == [op EXCEPT ![r] = x]
<1>1. /\ op[r].pc = "read" /\ MainSends(r, x, <<Active(v)>>, "told")
      /\ kept' = [kept EXCEPT ![v.path] = @ \cap v.services]
      /\ UNCHANGED <<file, toMain, blocked>>
  BY DEF ReloadEnds
<1>2. /\ op[r] \in OpType /\ v \in BotValue /\ v.path \in Bots /\ op[r].kind = "reload"
      /\ main.bot \in BotValue /\ main'.bot = Reduced(main.bot, v)
      /\ toMain \in Seq(MainMessage) /\ toClient \in Seq(ClientMessage) /\ op \in Flows
  BY <1>1, FlowInState DEF OpOK, HoldsAt, HoldsBot, ReloadEnds
<1>3. r \in Reloads /\ \A g \in Gestures : g # r /\ g \in Ops
  BY <1>2, SlotAssumption DEF Ops, KeptInv, GestureOK
<1>4. /\ kept'[v.path] \subseteq v.services /\ \A b \in Bots : kept'[b] \subseteq kept[b]
  BY <1>1, <1>2 DEF BotInv, FilesOK
<1>5. /\ \A g \in Gestures : GestureOK(kept', op[g])
      /\ OnTheWay(kept', op, toMain, toClient, blocked)
  BY <1>4, FewerKept
<1>6. x \in OpType /\ x.pc = "telling" /\ x.kind = "reload" /\ x.val = v
  <2>1. "telling" \in Points
    BY DEF Points
  <2> QED
    BY <1>2, <2>1, AtFields
<1>7. Unaddressed(r, toMain, toClient)
  BY <1>1, FreeInState DEF Free, ByItself
<1>8. SentBy(r, s) /\ toClient' = toClient \o s
  <2>1. "told" \in OfFlow /\ Forwards(<<Active(v)>>)
    BY <1>2, ForwardsOne DEF OfFlow
  <2>2. /\ SentBy(r, <<Active(v)>> \o <<Msg("told", r)>>)
        /\ toClient \o <<Active(v)>> \o <<Msg("told", r)>>
             = toClient \o (<<Active(v)>> \o <<Msg("told", r)>>)
    BY <1>2, <2>1, SentForms
  <2> QED
    BY <1>1, <2>2 DEF MainSends
<1>9. op' = p /\ p[r] = x /\ p \in Flows /\ \A j \in Ops : j # r => p[j] = op[j]
  BY <1>1, <1>2, <1>6 DEF MainSends, Goes, Flows
<1>10. OnTheWay(kept', p, toMain, toClient, blocked)
  BY <1>2, <1>5, <1>7, FreshGoes
<1>11. Fresh(kept', v) /\ Fresh(kept', main'.bot)
  <2>1. Fresh(kept', v)
    BY <1>4 DEF Fresh
  <2> QED
    BY <1>2, <2>1, FreshReduced
<1> HIDE DEF v, x, s, p
<1>12. OnTheWay(kept', p, toMain, toClient \o s, blocked)
  <2>1. \A n \in 1..Len(s) : s[n].what = "told" => Fresh(kept', p[s[n].flow].val)
    BY <1>6, <1>8, <1>9, <1>11 DEF SentBy
  <2> QED
    BY <1>2, <1>8, <1>9, <1>10, <2>1, FreshToClient DEF SentBy
<1>13. OnTheWay(kept', op', toMain', toClient', blocked')
  BY <1>1, <1>8, <1>9, <1>12
<1>14. ServicesKept'
  BY <1>1, <1>4 DEF KeptInv, ServicesKept
<1>15. \A j \in Reloads : ReloadOK(op'[j])
  BY <1>6, <1>9 DEF KeptInv, ReloadOK, Ops
<1> QED
  BY <1>3, <1>5, <1>9, <1>11, <1>13, <1>14, <1>15 DEF KeptInv, BotKept

\* A flow saves: nothing that it is to keep is lost, and its message renews what is stale.
LEMMA SaveFresh ==
  ASSUME BotInv, KeptInv, OneGesture, NEW i \in Ops, SaveEnds(i)
  PROVE  KeptInv'
<1> DEFINE v == op[i].val
           pc == IF op[i].kind = "create" THEN "opened" ELSE "telling"
           what == IF op[i].kind = "create" THEN "reply" ELSE "told"
           acts == IF op[i].kind = "create" THEN <<>> ELSE <<Active(v)>>
           x == At(op[i], pc)
           tc == toClient \o acts
           m == Msg(what, i)
           p == [op EXCEPT ![i] = x]
<1>1. /\ op[i].pc = "saving" /\ file' = [file EXCEPT ![v.path] = v.services]
      /\ kept' = [kept EXCEPT ![v.path] = KeptAfter(op[i])]
      /\ Saved(i) /\ UNCHANGED <<toMain, blocked>>
  BY DEF SaveEnds
<1>2. i \in Gestures
  BY <1>1 DEF KeptInv, ReloadOK, Ops
<1>3. /\ Unaddressed(i, toMain, toClient) /\ GestureOK(kept, op[i])
      /\ OnTheWay(kept, op, toMain, toClient, blocked)
  BY <1>1, <1>2, GestureAlone DEF ByItself
<1>4. /\ op[i] \in OpType /\ v \in BotValue /\ v.path \in Bots
      /\ op[i].kind \in {"add", "remove", "create"} /\ Saves(kept, op[i])
      /\ toMain \in Seq(MainMessage) /\ toClient \in Seq(ClientMessage) /\ op \in Flows
  BY <1>1, <1>3, FlowInState DEF OpOK, HoldsAt, HoldsBot, GestureOK
<1>5. KeptAfter(op[i]) \subseteq v.services
  BY <1>4 DEF KeptAfter, Saves
<1>6. ServicesKept' /\ kept'[v.path] = KeptAfter(op[i])
  <2>1. file \in [Bots -> SUBSET Services] /\ kept \in [Bots -> SUBSET Services]
    BY DEF BotInv, FilesOK
  <2> QED
    BY <1>1, <1>4, <1>5, <2>1 DEF KeptInv, ServicesKept
<1>7. Fresh(kept', v)
  BY <1>5, <1>6 DEF Fresh
<1>8. MainSends(i, x, acts, what)
  BY <1>1, <1>4 DEF Saved
<1>9. /\ x \in OpType /\ x.pc = pc /\ x.kind = op[i].kind /\ x.val = v
      /\ pc \in {"opened", "telling"}
  BY <1>4, AtFields DEF Points, Reading
<1>10. Forwards(acts)
  BY <1>4, ForwardsOne
<1>11. /\ what \in {"told", "reply"} /\ (what = "told" \/ pc = "opened")
       /\ m \in ClientMessage /\ m.what = what /\ m.flow = i
  BY DEF Msg, ClientMessage, OfFlow
<1> HIDE DEF x, pc, what, acts
<1>12. tc \in Seq(ClientMessage)
  <2>1. SentBy(i, acts)
    BY <1>2, <1>10, SentForms DEF Ops
  <2>2. acts \in Seq(ClientMessage)
    BY <2>1 DEF SentBy
  <2> QED
    BY <1>4, <2>2
<1>13. toClient' = Append(tc, m) /\ op' = p
  <2>1. toClient' = tc \o <<m>> /\ op' = p
    BY <1>8 DEF MainSends, Goes
  <2> HIDE DEF tc, m
  <2> QED
    BY <1>11, <1>12, <2>1
<1>14. p \in Flows /\ p[i] = x /\ \A j \in Ops : j # i => p[j] = op[j]
  BY <1>4, <1>9 DEF Flows
<1>15. v # NoBot
  BY <1>4, PathAssumption DEF NoBot
<1> HIDE DEF v, tc, m, p
<1>16. Renews(p, m) /\ (m.what = "told" => Fresh(kept', p[m.flow].val))
  BY <1>2, <1>7, <1>9, <1>11, <1>14, <1>15 DEF Renews
<1>17. \A n \in 1..Len(toMain) : toMain[n].what = "sync" => blocked = toMain[n].flow
  BY <1>3 DEF OnTheWay, SyncFresh
<1>18. /\ OnTheWay(kept', p, toMain, Append(tc, m), blocked)
       /\ Renewed(p, Append(tc, m), 0)
  BY <1>4, <1>11, <1>12, <1>14, <1>16, <1>17, FreshAgain
<1>19. OnTheWay(kept', op', toMain', toClient', blocked') /\ Renewed(op', toClient', 0)
  BY <1>1, <1>13, <1>18
<1>20. GestureOK(kept', x)
  BY <1>3, <1>7, <1>9 DEF GestureOK
<1>21. \A g \in Gestures : GestureOK(kept', op'[g])
  BY <1>2, <1>13, <1>14, <1>20 DEF OneGesture
<1>22. \A r \in Reloads : ReloadOK(op'[r])
  <2>1. \A r \in Reloads : r \in Ops /\ r # i
    BY <1>2, SlotAssumption DEF Ops
  <2> QED
    BY <1>13, <1>14, <2>1 DEF KeptInv
<1> QED
  BY <1>6, <1>19, <1>21, <1>22 DEF KeptInv, BotKept

LEMMA FilesFresh ==
  ASSUME BotInv, KeptInv, OneGesture, NEW i \in Ops, FileSteps(i) \/ PromptAnswered(i) \/ Tunnel(i)
  PROVE  KeptInv'
<1>0. /\ op[i] \in OpType /\ OpOK(op[i]) /\ main.bot \in BotValue /\ main.recents \in SUBSET Bots
      /\ toMain \in Seq(MainMessage) /\ toClient \in Seq(ClientMessage)
      /\ main \in [bot : BotValue, dir : Bots \cup {NoPath}, recents : SUBSET Bots,
                   path : Bots \cup {NoPath}, watching : Bots \cup {NoPath}, endpoints : BotValue]
  BY FlowInState
<1>1. ASSUME i \in Gestures, UNCHANGED toMain,
             op[i].pc \in ByItself
      PROVE  /\ Unaddressed(i, toMain', toClient) /\ toMain' \in Seq(MainMessage)
             /\ OnTheWay(kept, op, toMain', toClient, blocked)
             /\ GestureOK(kept, op[i]) /\ Fresh(kept, main.bot)
  BY <1>0, <1>1, GestureAlone
<1>3. "clearing" \in Points /\ "ended" \in Points /\ "opened" \in Points
  BY DEF Points
<1>4. CASE LoadEnds(i)
  <2> DEFINE b == op[i].bot
             known == main.recents \cup {b}
             acts == IF b \in main.recents THEN <<>> ELSE <<Recents(known)>>
  <2>1. op[i].pc \in Reading /\ UNCHANGED <<file, toMain, blocked, kept>>
    BY <1>4 DEF LoadEnds
  <2>3. b \in Bots /\ known \in SUBSET Bots
    BY <1>0, <2>1 DEF OpOK, HoldsAt, Reading
  <2>4. BotAt(b, file[b]) \in BotValue /\ Fresh(kept, BotAt(b, file[b]))
    <3>1. file[b] \in SUBSET Services
      BY <2>3 DEF BotInv, FilesOK
    <3>2. BotAt(b, file[b]) \in BotValue
      BY <2>3, <3>1, BotAtType
    <3> QED
      BY <2>3, <3>2 DEF BotAt, KeptInv, ServicesKept, Fresh
  <2>5. Forwards(acts)
    BY <2>3, ForwardsOne
  <2>6. ASSUME Loaded(i, BotAt(b, file[b]), acts), main' = [main EXCEPT !.recents = known]
        PROVE  KeptInv'
    <3>1. main'.bot = main.bot
      BY <1>0, <2>6
    <3> HIDE DEF acts, known, b
    <3> QED
      BY <2>1, <2>4, <2>5, <2>6, <3>1, LoadedFresh
  <2>7. ASSUME LoadFails(i) PROVE KeptInv'
    BY <2>1, <2>7, LoadFailsFresh
  <2>8. ASSUME NEW pc \in {"retrying", "prompt"}, Goes(i, At(op[i], pc)),
               UNCHANGED <<main, toClient>>
        PROVE  KeptInv'
    BY <2>1, <2>8, ReadingFresh DEF Reading
  <2> QED
    BY <1>4, <2>6, <2>7, <2>8 DEF LoadEnds
<1>5. CASE SaveFails(i)
  <2> DEFINE x == IF op[i].kind = "create" THEN [op[i] EXCEPT !.pc = "opened", !.val = NoBot]
                  ELSE At(op[i], "ended")
  <2>1. /\ op[i].pc = "saving" /\ MainSends(i, x, <<>>, "reply")
        /\ UNCHANGED <<main, file, toMain, blocked, kept>>
    BY <1>5 DEF SaveFails
  <2>2. i \in Gestures
    BY <2>1 DEF Ops, KeptInv, ReloadOK
  <2>3. /\ x \in OpType /\ x.kind = op[i].kind
        /\ x.pc = "ended" \/ (x.pc = "opened" /\ x.val = NoBot)
    <3> DEFINE y == [op[i] EXCEPT !.pc = "opened", !.val = NoBot]
               z == At(op[i], "ended")
    <3>1. op[i] \in OpType /\ "opened" \in Points /\ "ended" \in Points
      BY <1>0, <1>3 DEF Points, Reading
    <3>2. y \in OpType /\ y.kind = op[i].kind /\ y.pc = "opened" /\ y.val = NoBot
      BY <3>1, IdleType DEF OpType
    <3>3. z \in OpType /\ z.kind = op[i].kind /\ z.pc = "ended"
      BY <3>1, AtFields
    <3>4. x = y \/ x = z
      OBVIOUS
    <3> HIDE DEF x, y, z
    <3> QED
      BY <3>2, <3>3, <3>4
  <2> HIDE DEF x
  <2>4. GestureOK(kept, x)
    BY <1>1, <2>1, <2>2, <2>3, FreshNone DEF GestureOK, ByItself
  <2>5. "reply" \in OfFlow /\ Fresh(kept, main'.bot)
    BY <1>1, <2>1, <2>2 DEF OfFlow, ByItself
  <2> QED
    BY <1>1, <2>1, <2>2, <2>3, <2>4, <2>5, ForwardsOne, GestureAnswers DEF ByItself
<1>6. CASE ReloadEnds(i)
  BY <1>6, ReloadedFresh
<1>7. CASE PromptAnswered(i)
  <2>1. op[i].pc = "prompt" /\ UNCHANGED <<file, toMain, blocked, kept>>
    BY <1>7 DEF PromptAnswered
  <2>2. ASSUME Goes(i, At(op[i], "loading")), UNCHANGED <<main, toClient>> PROVE KeptInv'
    BY <2>1, <2>2, ReadingFresh DEF Reading
  <2> QED
    BY <1>7, <2>1, <2>2, LoadFailsFresh DEF PromptAnswered
<1>8. CASE Tunnel(i)
  <2>1. op[i].pc = "tunnel" /\ UNCHANGED <<file, toMain, blocked, kept>>
    BY <1>8 DEF Tunnel, TunnelConnects, TunnelFails
  <2>2. i \in Gestures
    BY <2>1 DEF Ops, KeptInv, ReloadOK
  <2>3. CASE TunnelConnects(i)
    <3> DEFINE x == At(op[i], "clearing")
    <3>1. MainSends(i, x, <<>>, "clear") /\ "clear" \in OfFlow
      BY <2>3 DEF TunnelConnects, BeginsSetActive, OfFlow
    <3>2. op[i].kind \notin {"pick", "reload"} /\ Fresh(kept, op[i].val)
      BY <1>1, <2>1, <2>2 DEF GestureOK, Creates, ByItself
    <3>3. x \in OpType /\ GestureOK(kept, x) /\ Sets(x)
      BY <1>0, <1>3, <3>2, AtFields, FreshAt DEF Sets
    <3> HIDE DEF x
    <3> QED
      BY <1>1, <2>1, <2>2, <3>1, <3>3, ForwardsOne, GestureAnswers DEF ByItself
  <2>4. CASE TunnelFails(i)
    <3>1. Goes(i, Idle) /\ UNCHANGED <<main, toClient>>
      BY <2>4 DEF TunnelFails, Ends
    <3> QED
      BY <1>1, <2>1, <2>2, <3>1, IdleType, FreshNone, GestureQuiet DEF ByItself
  <2> QED
    BY <1>8, <2>3, <2>4 DEF Tunnel
<1> QED
  BY <1>4, <1>5, <1>6, <1>7, <1>8, SaveFresh DEF FileSteps

\* A file that is edited loses at most what the edit removed, which is kept no more.
LEMMA EditFresh ==
  ASSUME BotInv, KeptInv, NEW b \in Bots, NEW s \in Services, EditFile(b, s)
  PROVE  KeptInv'
<1>1. /\ file' = [file EXCEPT ![b] = IF s \in @ THEN @ \ {s} ELSE @ \cup {s}]
      /\ kept' = [kept EXCEPT ![b] = @ \ {s}]
      /\ UNCHANGED <<main, op, toMain, toClient, blocked>>
  BY DEF EditFile
<1>2. file \in [Bots -> SUBSET Services] /\ kept \in [Bots -> SUBSET Services]
  BY DEF BotInv, FilesOK
<1>3. \A c \in Bots : kept'[c] \subseteq kept[c]
  BY <1>1, <1>2
<1>4. ServicesKept'
  BY <1>1, <1>2 DEF KeptInv, ServicesKept
<1>5. /\ \A v : Fresh(kept, v) => Fresh(kept', v)
      /\ \A g \in Gestures : GestureOK(kept', op[g])
      /\ OnTheWay(kept', op, toMain, toClient, blocked)
  BY <1>3, FewerKept
<1>6. BotKept'
  BY <1>1, <1>5 DEF KeptInv, BotKept
<1> QED
  BY <1>1, <1>4, <1>5, <1>6 DEF KeptInv

LEMMA OthersFresh ==
  ASSUME BotInv, KeptInv,
         \/ TabsChange \/ \E b \in Bots, s \in Services : EditFile(b, s)
         \/ \E r \in Reloads : OnFileChange(r)
         \/ UNCHANGED vars
  PROVE  KeptInv'
<1>1. ASSUME UNCHANGED <<main, op, toMain, toClient, blocked, file, kept>> PROVE KeptInv'
  BY <1>1 DEF KeptInv, BotKept, ServicesKept
<1>2. CASE TabsChange \/ UNCHANGED vars
  BY <1>1, <1>2 DEF TabsChange, vars
<1>3. CASE \E b \in Bots, s \in Services : EditFile(b, s)
  BY <1>3, EditFresh
<1>4. ASSUME NEW r \in Reloads, OnFileChange(r) PROVE KeptInv'
  <2> DEFINE p == main.watching
             o == [Idle EXCEPT !.kind = "reload", !.bot = p, !.pc = "loading"]
  <2>1. changed /\ op[r] = Idle /\ UNCHANGED <<main, file, toMain, toClient, blocked, kept>>
    BY <1>4 DEF OnFileChange
  <2>2. p \in Bots /\ op[r].pc = "idle"
    BY <2>1, IdleType DEF BotInv, FilesOK
  <2>3. o \in OpType /\ o.kind = "reload" /\ o.pc = "loading"
    BY <2>2, IdleType DEF OpType, Idle, Points, Reading
  <2> HIDE DEF o
  <2>4. CASE UNCHANGED op
    BY <1>1, <2>1, <2>4
  <2>5. CASE Goes(r, o)
    BY <2>1, <2>2, <2>3, <2>5, ReloadQuiet DEF ReloadOK
  <2> QED
    BY <1>4, <2>4, <2>5 DEF OnFileChange, o
<1> QED
  BY <1>2, <1>3, <1>4

\* With one gesture at a time and without the picker: whatever is on its way, main's store
\* lacks no service that was added, or a message is behind it that puts it right.
THEOREM KeptInvariant ==
  ASSUME OneGesture, "pick" \notin Kinds
  PROVE  Spec => []KeptInv
<1>1. Init => KeptInv
  <2> SUFFICES ASSUME Init PROVE KeptInv
    OBVIOUS
  <2>1. ServicesKept /\ BotKept
    BY FreshNone DEF Init, ServicesKept, BotKept
  <2>2. (\A g \in Gestures : GestureOK(kept, op[g])) /\ (\A r \in Reloads : ReloadOK(op[r]))
    BY FreshNone DEF Init, Ops
  <2>3. Len(toMain) = 0 /\ Len(toClient) = 0
    BY DEF Init
  <2> QED
    BY <2>1, <2>2, <2>3 DEF KeptInv, OnTheWay, ToldFresh, SyncFresh
<1>2. BotInv /\ KeptInv /\ [Next]_vars => KeptInv'
  <2> SUFFICES ASSUME BotInv, KeptInv, [Next]_vars PROVE KeptInv'
    OBVIOUS
  <2>1. ASSUME NEW i \in Ops, UserAnswers(i) \/ MainSteps(i) \/ FileSteps(i) \/ Tunnel(i)
        PROVE  KeptInv'
    BY <2>1, ConfirmFresh, MainFresh, FilesFresh DEF UserAnswers
  <2> QED
    BY <2>1, GestureFresh, ClientFresh, OthersFresh DEF Next
<1> QED
  BY <1>1, <1>2, BotInvariant, PTL DEF Spec

\* However one gesture at a time overlaps with reloads and with edits of the files, a
\* service that was added stays in its file until it is removed, or a reload sets the bot
\* as it was before.
THEOREM AddedServicesKept ==
  ASSUME \A g, h \in Gestures : g = h, "pick" \notin Kinds
  PROVE  Spec => []ServicesKept
<1>1. OneGesture
  BY DEF OneGesture
<1>2. KeptInv => ServicesKept
  BY DEF KeptInv
<1> QED
  BY <1>1, <1>2, KeptInvariant, PTL
=============================================================================
