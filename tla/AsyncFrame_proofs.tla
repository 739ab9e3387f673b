-------------------------- MODULE AsyncFrame_proofs --------------------------
(***************************************************************************)
(* An action of the asynchronous frame never gets the answer to another.   *)
(*                                                                         *)
(* A connection object takes the next answer of the far end for the action *)
(* it holds.  This is right as long as no call gives the object an action  *)
(* while the answer to the one before it is still owed, and the calls that *)
(* could do so nest: TryNextAction tells an expired action before it takes *)
(* it off the list, and what the plugin starts then runs above the call    *)
(* that is to go on.  The inductive invariant therefore says of every call *)
(* on the stack what it may rely on when it goes on, whatever ran above it.*)
(***************************************************************************)
EXTENDS AsyncFrame, SequenceTheorems, WellFoundedInduction, TLAPS

\* Only the first state of a request has actions that may wait on a connection, so no
\* state that starts inside TryNextAction comes back to the object it works on.
WaitFirst ==
    \A c \in Confs : \A s \in DOMAIN c.plan : \A i \in DOMAIN c.plan[s] :
       c.plan[s][i] \in {"SendRecv_KeepAliveWithPending", "SendOnly_KeepAliveWithPending"} => s = 1
----------------------------------------------------------------------------
ActId == Nat \X (Nat \ {0}) \X Nat

HType ==
    [type : {"Short", "Long", "LongWithPending"}, conn : {"UNCONNECTED", "CONNECTING", "CONNECTED"},
     proc : {"IDLE", "SENDING", "RECVING", "IDLE_RECYCLE"}, action : ActId \cup {None},
     pend : Seq([a : ActId, exp : BOOLEAN]), timer : {"none", "doing", "idle"}, sent : Seq(ActId)]

\* The far end owes at most the answer to the action that is being received.
HandlerOk(r) ==
    /\ r \in HType
    /\ r.sent # <<>> => r.proc = "RECVING" /\ r.action # None /\ r.sent = <<r.action>>
    /\ r.proc = "SENDING" => r.action # None

Entry == [seq : ActId, ac : ActId \cup {None}, part : BOOLEAN]
PType ==
    [conn : {"UNCONNECTED", "CONNECTING", "CONNECTED"}, sending : Seq(Entry),
     recving : Seq(ActId), timeouts : Nat, sent : Seq(ActId)]

\* Only the first entry of the sending list can have lost its action.
ParallelOk(r) ==
    /\ r \in PType
    /\ \A i \in DOMAIN r.sending : i > 1 => r.sending[i].ac # None

\* The calls that may have others above them: hs the connection objects, np the number
\* of parallel ones, plan the states of a request.
EncodeFrame(plan) == [at : {"HandleEncode"}, m : Nat, s : DOMAIN plan]
StartFrame(plan) ==
    {f \in [at : {"StartAction"}, as : Nat \X DOMAIN plan, left : SUBSET ActId, late : BOOLEAN] :
       \A a \in f.left : a[2] = f.as[2] /\ a[3] \in DOMAIN plan[a[2]]}
ProcessFrame == [at : {"HandleProcess"}, as : Nat \X (Nat \ {0})]
FinishedFrame(hs) ==
    {f \in [at : {"HandleFinished"}, a : ActId, h : hs \cup {None}, ans : ActId \cup {None}] : f.ans \in {None, f.a}}
PopFrame(hs) == [at : {"PopFront"}, h : hs, a : ActId]
RequestFrame(np) == [at : {"ParallelRequest"}, p : 1..np, a : ActId, ret : {"none", "ok", "fail"}]
TellFrame(np) == [at : {"TellRecving"}, p : 1..np, i : Nat \ {0}]
DropFrame(np) == [at : {"DropFront"}, p : 1..np, a : ActId \cup {None}]
EraseFrame(np) == [at : {"EraseRecving"}, p : 1..np, a : ActId]
AfterFrame(np) == [at : {"AfterTimeout"}, p : 1..np]
CalmFrame(hs, np, plan) ==
    EncodeFrame(plan) \cup StartFrame(plan) \cup ProcessFrame \cup FinishedFrame(hs) \cup PopFrame(hs)
      \cup RequestFrame(np) \cup TellFrame(np) \cup DropFrame(np) \cup EraseFrame(np) \cup AfterFrame(np)

\* The calls of the first state of a request.
First(f) == (f.at = "HandleEncode" /\ f.s = 1) \/ (f.at = "StartAction" /\ f.as[2] = 1)

PopIn(c, h) == \E i \in DOMAIN c : c[i].at = "PopFront" /\ c[i].h = h

\* Calls of the first state have none below them.  A call that is to take an action off
\* the list of an object finds the object without an action, and is the only one.
Calm(c, nt, np, plan) ==
    /\ c \in Seq(CalmFrame(DOMAIN nt, np, plan))
    /\ \A i \in DOMAIN c : First(c[i]) => i = Len(c)
    /\ \A i \in DOMAIN c : c[i].at = "PopFront" =>
          /\ nt[c[i].h].action = None /\ nt[c[i].h].type = "LongWithPending"
          /\ \A j \in DOMAIN c : c[j].at = "PopFront" /\ c[j].h = c[i].h => j = i

\* The calls that run at once.
TopFrame(hs) == [at : {"StartActionProcess", "TryNextAction"}, h : hs]
Top(f, c, nt) ==
    /\ f \in TopFrame(DOMAIN nt)
    /\ f.at = "StartActionProcess" => nt[f.h].action # None /\ nt[f.h].sent = <<>>
    /\ f.at = "TryNextAction" => nt[f.h].action = None
    /\ ~PopIn(c, f.h)

\* f may be called above c.
Under(f, c, nt, np, plan) ==
    /\ f \in CalmFrame(DOMAIN nt, np, plan)
    /\ First(f) => c = <<>>
    /\ f.at = "PopFront" =>
          nt[f.h].action = None /\ nt[f.h].type = "LongWithPending" /\ ~PopIn(c, f.h)

Sound(st, nt, np, plan) ==
    /\ st \in Seq(CalmFrame(DOMAIN nt, np, plan) \cup TopFrame(DOMAIN nt))
    /\ st # <<>> =>
          /\ Calm(Tail(st), nt, np, plan)
          /\ Top(Head(st), Tail(st), nt) \/ Under(Head(st), Tail(st), nt, np, plan)

NetOk(nt) == \A h \in DOMAIN nt : HandlerOk(nt[h])

IInv ==
    /\ conf \in Confs
    /\ DOMAIN msg \subseteq Nat
    /\ DOMAIN sets \subseteq Nat \X DOMAIN conf.plan
    /\ net = [h \in DOMAIN net |-> net[h]] /\ DOMAIN net \subseteq Nat /\ NetOk(net)
    /\ idle \subseteq DOMAIN net /\ \A h \in idle : net[h].type # "LongWithPending"
    /\ ary \in [1..MaxPending -> DOMAIN net \cup {None}]
    /\ par \in Seq(PType) /\ \A p \in DOMAIN par : ParallelOk(par[p])
    /\ Sound(stack, net, Len(par), conf.plan)
----------------------------------------------------------------------------
LEMMA Push ==
    ASSUME NEW S, NEW c \in Seq(S), NEW f
    PROVE  /\ Len(<<f>> \o c) = Len(c) + 1 /\ DOMAIN (<<f>> \o c) = 1..(Len(c) + 1)
           /\ (<<f>> \o c)[1] = f /\ \A i \in 1..Len(c) : (<<f>> \o c)[i + 1] = c[i]
           /\ Head(<<f>> \o c) = f /\ Tail(<<f>> \o c) = c /\ <<f>> \o c # <<>>
           /\ f \in S => <<f>> \o c \in Seq(S)
<1> DEFINE T == S \cup {f}
           s == <<f>> \o c
<1>1. c \in Seq(T) /\ <<f>> \in Seq(T) /\ Len(c) \in Nat
  OBVIOUS
<1>2. s \in Seq(T) /\ Len(s) = Len(c) + 1 /\ DOMAIN s = 1..(Len(c) + 1)
  BY <1>1
<1>3. s[1] = f /\ \A i \in 1..Len(c) : s[i + 1] = c[i]
  BY <1>1
<1>4. Head(s) = f /\ s # <<>>
  BY <1>2, <1>3
<1>5. Tail(s) = c
  <2>1. Tail(s) \in Seq(T) /\ Len(Tail(s)) = Len(c) /\ \A i \in 1..Len(c) : Tail(s)[i] = s[i + 1]
    BY <1>1, <1>2, <1>4
  <2> QED BY <1>1, <1>3, <2>1
<1>6. f \in S => s \in Seq(S)
  OBVIOUS
<1> QED BY <1>2, <1>3, <1>4, <1>5, <1>6

LEMMA Pop ==
    ASSUME NEW S, NEW s \in Seq(S), s # <<>>
    PROVE  /\ Tail(s) \in Seq(S) /\ Len(s) \in Nat \ {0} /\ Len(Tail(s)) = Len(s) - 1
           /\ DOMAIN s = 1..Len(s) /\ DOMAIN Tail(s) = 1..(Len(s) - 1)
           /\ Head(s) = s[1] /\ Head(s) \in S /\ \A i \in 1..(Len(s) - 1) : Tail(s)[i] = s[i + 1]
OBVIOUS

LEMMA SeqIn ==
    ASSUME NEW S, NEW T, NEW s \in Seq(S), \A i \in 1..Len(s) : s[i] \in T
    PROVE  s \in Seq(T)
OBVIOUS

LEMMA SubSeqParts ==
    ASSUME NEW S, NEW s \in Seq(S), NEW k \in 0..Len(s)
    PROVE  LET l == SubSeq(s, 1, k)
               r == SubSeq(s, k + 1, Len(s))
           IN  /\ l \in Seq(S) /\ Len(l) = k /\ \A i \in 1..k : l[i] = s[i]
               /\ r \in Seq(S) /\ Len(r) = Len(s) - k /\ \A i \in 1..(Len(s) - k) : r[i] = s[k + i]
OBVIOUS

LEMMA Pair ==
    ASSUME NEW f, NEW g
    PROVE  <<f>> \o <<g>> = <<f, g>>
<1> DEFINE T == {f, g}
<1>0. <<f>> \in Seq(T) /\ <<g>> \in Seq(T)
  OBVIOUS
<1>1. <<f, g>> \in Seq(T) /\ Len(<<f, g>>) = 2 /\ <<f, g>>[1] = f /\ <<f, g>>[2] = g
  OBVIOUS
<1>2. <<f>> \o <<g>> \in Seq(T) /\ Len(<<f>> \o <<g>>) = 2
  BY <1>0
<1>3. (<<f>> \o <<g>>)[1] = f /\ (<<f>> \o <<g>>)[2] = g
  BY <1>0
<1>4. \A i \in 1..2 : (<<f>> \o <<g>>)[i] = <<f, g>>[i]
  BY <1>1, <1>3
<1> QED BY <1>1, <1>2, <1>4, SeqEqual

LEMMA PushTwo ==
    ASSUME NEW S, NEW c \in Seq(S), NEW f, NEW g
    PROVE  /\ <<f, g>> \o c = <<f>> \o (<<g>> \o c)
           /\ <<f>> \o <<>> = <<f>> /\ <<>> \o c = c
<1> DEFINE T == S \cup {f, g}
<1>1. c \in Seq(T) /\ <<f>> \in Seq(T) /\ <<g>> \in Seq(T)
  OBVIOUS
<1>2. (<<f>> \o <<g>>) \o c = <<f>> \o (<<g>> \o c)
  BY <1>1, ConcatAssociative
<1>3. <<f>> \o <<g>> = <<f, g>>
  BY Pair
<1>4. <<f>> \o <<>> = <<f>> /\ <<>> \o c = c
  BY <1>1, ConcatEmptySeq
<1> QED BY <1>2, <1>3, <1>4

LEMMA PushAssoc ==
    ASSUME NEW S, NEW c \in Seq(S), NEW f, NEW g
    PROVE  (<<f>> \o <<g>>) \o c = <<f>> \o (<<g>> \o c)
<1> DEFINE T == S \cup {f, g}
<1>1. c \in Seq(T) /\ <<f>> \in Seq(T) /\ <<g>> \in Seq(T)
  OBVIOUS
<1> QED BY <1>1, ConcatAssociative

LEMMA FrameKinds ==
    ASSUME NEW hs, NEW np, NEW plan, NEW f \in CalmFrame(hs, np, plan)
    PROVE  /\ f.at = "HandleEncode" => f \in EncodeFrame(plan)
           /\ f.at = "StartAction" => f \in StartFrame(plan)
           /\ f.at = "HandleProcess" => f \in ProcessFrame
           /\ f.at = "HandleFinished" => f \in FinishedFrame(hs)
           /\ f.at = "PopFront" => f \in PopFrame(hs)
           /\ f.at = "ParallelRequest" => f \in RequestFrame(np)
           /\ f.at = "TellRecving" => f \in TellFrame(np)
           /\ f.at = "DropFront" => f \in DropFrame(np)
           /\ f.at = "EraseRecving" => f \in EraseFrame(np)
           /\ f.at = "AfterTimeout" => f \in AfterFrame(np)
           /\ f.at \notin {"StartActionProcess", "TryNextAction"}
BY DEF CalmFrame, EncodeFrame, StartFrame, ProcessFrame, FinishedFrame, PopFrame, RequestFrame,
       TellFrame, DropFrame, EraseFrame, AfterFrame

LEMMA FramesGrow ==
    ASSUME NEW hs, NEW gs, hs \subseteq gs, NEW np \in Nat, NEW mp \in Nat, np <= mp, NEW plan
    PROVE  CalmFrame(hs, np, plan) \subseteq CalmFrame(gs, mp, plan)
<1>1. 1..np \subseteq 1..mp
  OBVIOUS
<1>2. FinishedFrame(hs) \subseteq FinishedFrame(gs) /\ PopFrame(hs) \subseteq PopFrame(gs)
  BY DEF FinishedFrame, PopFrame
<1>3. /\ RequestFrame(np) \subseteq RequestFrame(mp) /\ TellFrame(np) \subseteq TellFrame(mp)
      /\ DropFrame(np) \subseteq DropFrame(mp) /\ EraseFrame(np) \subseteq EraseFrame(mp)
      /\ AfterFrame(np) \subseteq AfterFrame(mp)
  BY <1>1 DEF RequestFrame, TellFrame, DropFrame, EraseFrame, AfterFrame
<1> QED BY <1>2, <1>3 DEF CalmFrame

----------------------------------------------------------------------------
(* Calls put on the stack and taken off it *)

LEMMA CalmPush ==
    ASSUME NEW c, NEW nt, NEW np, NEW plan, NEW f,
           Calm(c, nt, np, plan), Under(f, c, nt, np, plan)
    PROVE  Calm(<<f>> \o c, nt, np, plan)
<1> DEFINE F == CalmFrame(DOMAIN nt, np, plan)
           s == <<f>> \o c
<1>1. c \in Seq(F) /\ f \in F /\ Len(c) \in Nat /\ DOMAIN c = 1..Len(c)
  BY DEF Calm, Under
<1>2. /\ Len(s) = Len(c) + 1 /\ DOMAIN s = 1..(Len(c) + 1) /\ s \in Seq(F)
      /\ s[1] = f /\ \A i \in 1..Len(c) : s[i + 1] = c[i]
  BY <1>1, Push
<1>3. ASSUME NEW i \in DOMAIN s PROVE i = 1 \/ (i - 1 \in DOMAIN c /\ s[i] = c[i - 1])
  <2>1. i \in 1..(Len(c) + 1)
    BY <1>2
  <2>2. CASE i # 1
    <3>1. i - 1 \in 1..Len(c) /\ (i - 1) + 1 = i
      BY <1>1, <2>1, <2>2
    <3> QED BY <1>1, <1>2, <3>1
  <2> QED BY <2>2
<1>4. ASSUME NEW i \in DOMAIN s, First(s[i]) PROVE i = Len(s)
  <2>1. CASE i = 1
    <3>1. c = <<>>
      BY <1>2, <1>4, <2>1 DEF Under
    <3> QED BY <1>2, <2>1, <3>1
  <2>2. CASE i # 1
    <3>1. i - 1 \in DOMAIN c /\ First(c[i - 1])
      BY <1>3, <1>4, <2>2
    <3>2. i - 1 = Len(c)
      BY <3>1 DEF Calm
    <3> QED BY <1>1, <1>2, <3>2
  <2> QED BY <2>1, <2>2
<1>5. ASSUME NEW i \in DOMAIN s, s[i].at = "PopFront"
      PROVE  /\ nt[s[i].h].action = None /\ nt[s[i].h].type = "LongWithPending"
             /\ \A j \in DOMAIN s : s[j].at = "PopFront" /\ s[j].h = s[i].h => j = i
  <2>1. CASE i = 1
    <3>1. /\ s[i] = f /\ nt[s[i].h].action = None /\ nt[s[i].h].type = "LongWithPending"
          /\ ~PopIn(c, f.h)
      BY <1>2, <1>5, <2>1 DEF Under
    <3> QED BY <1>3, <2>1, <3>1 DEF PopIn
  <2>2. CASE i # 1
    <3>1. i - 1 \in DOMAIN c /\ c[i - 1].at = "PopFront" /\ s[i] = c[i - 1]
      BY <1>3, <1>5, <2>2
    <3>2. /\ nt[s[i].h].action = None /\ nt[s[i].h].type = "LongWithPending"
          /\ \A j \in DOMAIN c : c[j].at = "PopFront" /\ c[j].h = s[i].h => j = i - 1
      BY <3>1 DEF Calm
    <3>3. ASSUME NEW j \in DOMAIN s, s[j].at = "PopFront", s[j].h = s[i].h PROVE j = i
      <4>1. CASE j = 1
        <5>1. f.at = "PopFront" /\ f.h = c[i - 1].h
          BY <1>2, <3>1, <3>3, <4>1
        <5> QED BY <3>1, <5>1 DEF Under, PopIn
      <4>2. CASE j # 1
        <5>1. j - 1 \in DOMAIN c /\ s[j] = c[j - 1]
          BY <1>3, <4>2
        <5>2. j - 1 = i - 1
          BY <3>2, <3>3, <5>1
        <5> QED BY <1>2, <5>2
      <4> QED BY <4>1, <4>2
    <3> QED BY <3>2, <3>3
  <2> QED BY <2>1, <2>2
<1> HIDE DEF s
<1>6. s \in Seq(CalmFrame(DOMAIN nt, np, plan))
  BY <1>2
<1>7. Calm(s, nt, np, plan)
  BY <1>4, <1>5, <1>6 DEF Calm
<1> QED BY <1>7 DEF s

LEMMA CalmTail ==
    ASSUME NEW c, NEW nt, NEW np, NEW plan, Calm(c, nt, np, plan), c # <<>>
    PROVE  Calm(Tail(c), nt, np, plan) /\ Under(Head(c), Tail(c), nt, np, plan)
<1> DEFINE F == CalmFrame(DOMAIN nt, np, plan)
           s == Tail(c)
<1>1. c \in Seq(F)
  BY DEF Calm
<1>2. /\ s \in Seq(F) /\ Len(c) \in Nat \ {0} /\ Len(s) = Len(c) - 1
      /\ DOMAIN c = 1..Len(c) /\ DOMAIN s = 1..(Len(c) - 1)
      /\ Head(c) = c[1] /\ Head(c) \in F /\ \A i \in 1..(Len(c) - 1) : s[i] = c[i + 1]
  BY <1>1, Pop
<1>3. ASSUME NEW i \in DOMAIN s PROVE i \in Int /\ i + 1 \in DOMAIN c /\ s[i] = c[i + 1] /\ i + 1 # 1
  BY <1>2
<1>4. ASSUME NEW i \in DOMAIN s, First(s[i]) PROVE i = Len(s)
  <2>1. i + 1 = Len(c)
    BY <1>3, <1>4 DEF Calm
  <2> QED BY <1>2, <1>3, <2>1
<1>5. ASSUME NEW i \in DOMAIN s, s[i].at = "PopFront"
      PROVE  /\ nt[s[i].h].action = None /\ nt[s[i].h].type = "LongWithPending"
             /\ \A j \in DOMAIN s : s[j].at = "PopFront" /\ s[j].h = s[i].h => j = i
  <2>1. i + 1 \in DOMAIN c /\ c[i + 1].at = "PopFront" /\ s[i] = c[i + 1]
    BY <1>3, <1>5
  <2>2. /\ nt[s[i].h].action = None /\ nt[s[i].h].type = "LongWithPending"
        /\ \A j \in DOMAIN c : c[j].at = "PopFront" /\ c[j].h = s[i].h => j = i + 1
    BY <2>1 DEF Calm
  <2>3. ASSUME NEW j \in DOMAIN s, s[j].at = "PopFront", s[j].h = s[i].h PROVE j = i
    <3>1. j + 1 = i + 1
      BY <1>3, <2>2, <2>3
    <3> QED BY <1>3, <3>1
  <2> QED BY <2>2, <2>3
<1>6. First(Head(c)) => s = <<>>
  <2>1. SUFFICES ASSUME First(c[1]) PROVE s = <<>>
    BY <1>2
  <2>2. 1 = Len(c)
    BY <1>2, <2>1 DEF Calm
  <2> HIDE DEF s, F
  <2>3. s \in Seq(F)
    BY <1>2
  <2>4. Len(s) = Len(c) - 1 /\ Len(c) = 1
    BY <1>2, <2>2
  <2>5. Len(s) = 0
    BY <2>4
  <2> QED BY <2>3, <2>5, EmptySeq
<1>7. ASSUME Head(c).at = "PopFront"
      PROVE  /\ nt[Head(c).h].action = None /\ nt[Head(c).h].type = "LongWithPending"
             /\ ~PopIn(s, Head(c).h)
  <2>1. /\ nt[c[1].h].action = None /\ nt[c[1].h].type = "LongWithPending"
        /\ \A j \in DOMAIN c : c[j].at = "PopFront" /\ c[j].h = c[1].h => j = 1
    BY <1>2, <1>7 DEF Calm
  <2>2. ~PopIn(s, c[1].h)
    BY <1>3, <2>1 DEF PopIn
  <2> QED BY <1>2, <2>1, <2>2
<1> HIDE DEF s
<1>8. Calm(s, nt, np, plan)
  BY <1>2, <1>4, <1>5 DEF Calm
<1>9. Under(Head(c), s, nt, np, plan)
  BY <1>2, <1>6, <1>7 DEF Under
<1> QED BY <1>8, <1>9 DEF s

LEMMA CalmEmpty ==
    ASSUME NEW nt, NEW np, NEW plan
    PROVE  Calm(<<>>, nt, np, plan) /\ \A h : ~PopIn(<<>>, h)
BY DEF Calm, PopIn

LEMMA CalmSound ==
    ASSUME NEW c, NEW nt, NEW np, NEW plan, Calm(c, nt, np, plan)
    PROVE  Sound(c, nt, np, plan)
<1>1. c \in Seq(CalmFrame(DOMAIN nt, np, plan) \cup TopFrame(DOMAIN nt))
  BY DEF Calm
<1> QED BY <1>1, CalmTail DEF Sound

LEMMA TopSound ==
    ASSUME NEW c, NEW nt, NEW np, NEW plan, NEW f, Calm(c, nt, np, plan), Top(f, c, nt)
    PROVE  Sound(<<f>> \o c, nt, np, plan)
<1> DEFINE F == CalmFrame(DOMAIN nt, np, plan) \cup TopFrame(DOMAIN nt)
<1>1. c \in Seq(F) /\ f \in F
  BY DEF Calm, Top
<1>2. <<f>> \o c \in Seq(F) /\ Head(<<f>> \o c) = f /\ Tail(<<f>> \o c) = c
  BY <1>1, Push
<1> QED BY <1>2 DEF Sound

LEMMA SoundHead ==
    ASSUME NEW st, NEW nt, NEW np, NEW plan, Sound(st, nt, np, plan), st # <<>>
    PROVE  /\ Calm(Tail(st), nt, np, plan)
           /\ Head(st).at \in {"StartActionProcess", "TryNextAction"} => Top(Head(st), Tail(st), nt)
           /\ Head(st).at \notin {"StartActionProcess", "TryNextAction"} => Under(Head(st), Tail(st), nt, np, plan)
<1>1. Calm(Tail(st), nt, np, plan) /\ (Top(Head(st), Tail(st), nt) \/ Under(Head(st), Tail(st), nt, np, plan))
  BY DEF Sound
<1>2. Top(Head(st), Tail(st), nt) => Head(st).at \in {"StartActionProcess", "TryNextAction"}
  BY DEF Top, TopFrame
<1>3. Under(Head(st), Tail(st), nt, np, plan) => Head(st).at \notin {"StartActionProcess", "TryNextAction"}
  BY FrameKinds DEF Under
<1> QED BY <1>1, <1>2, <1>3

\* Calls go on soundly when no object gets an action while one of them pops its list.
LEMMA CalmNet ==
    ASSUME NEW c, NEW nt, NEW ot, NEW np \in Nat, NEW mp \in Nat, NEW plan,
           Calm(c, nt, np, plan), np <= mp, DOMAIN nt \subseteq DOMAIN ot,
           \A h \in DOMAIN nt : ot[h].type = nt[h].type,
           \A h \in DOMAIN nt : PopIn(c, h) => ot[h].action = None
    PROVE  Calm(c, ot, mp, plan)
<1>1. CalmFrame(DOMAIN nt, np, plan) \subseteq CalmFrame(DOMAIN ot, mp, plan)
  BY FramesGrow
<1>2. c \in Seq(CalmFrame(DOMAIN nt, np, plan)) /\ c \in Seq(CalmFrame(DOMAIN ot, mp, plan))
  BY <1>1 DEF Calm
<1>3. ASSUME NEW i \in DOMAIN c, c[i].at = "PopFront"
      PROVE  ot[c[i].h].action = None /\ ot[c[i].h].type = "LongWithPending"
  <2>1. c[i] \in PopFrame(DOMAIN nt)
    BY <1>2, <1>3, FrameKinds
  <2>2. c[i].h \in DOMAIN nt /\ PopIn(c, c[i].h)
    BY <1>3, <2>1 DEF PopFrame, PopIn
  <2> QED BY <1>3, <2>2 DEF Calm
<1> QED BY <1>2, <1>3 DEF Calm

LEMMA CalmFailed ==
    ASSUME NEW c, NEW nt, NEW np, NEW plan, Calm(c, nt, np, plan)
    PROVE  /\ Calm(Failed(c), nt, np, plan)
           /\ \A h : PopIn(Failed(c), h) => PopIn(c, h)
           /\ c = <<>> => Failed(c) = <<>>
<1>1. CASE c # <<>> /\ Head(c).at = "StartAction" /\ Head(c).left = {}
  <2>1. Failed(c) = Tail(c) /\ Calm(Tail(c), nt, np, plan)
    BY <1>1, CalmTail DEF Failed
  <2>2. ASSUME NEW h, PopIn(Tail(c), h) PROVE PopIn(c, h)
    <3>1. c \in Seq(CalmFrame(DOMAIN nt, np, plan))
      BY DEF Calm
    <3>2. /\ Len(c) \in Nat /\ DOMAIN c = 1..Len(c) /\ DOMAIN Tail(c) = 1..(Len(c) - 1)
          /\ \A i \in 1..(Len(c) - 1) : Tail(c)[i] = c[i + 1]
      BY <1>1, <3>1, Pop
    <3>3. PICK i \in DOMAIN Tail(c) : Tail(c)[i].at = "PopFront" /\ Tail(c)[i].h = h
      BY <2>2 DEF PopIn
    <3>4. i + 1 \in DOMAIN c /\ c[i + 1] = Tail(c)[i]
      BY <3>2
    <3> QED BY <3>3, <3>4 DEF PopIn
  <2> QED BY <1>1, <2>1, <2>2
<1>2. CASE ~(c # <<>> /\ Head(c).at = "StartAction" /\ Head(c).left = {})
  BY <1>2 DEF Failed
<1> QED BY <1>1, <1>2

LEMMA PopInPush ==
    ASSUME NEW S, NEW c \in Seq(S), NEW f, NEW h, f.at = "PopFront" => f.h # h
    PROVE  PopIn(<<f>> \o c, h) => PopIn(c, h)
<1> DEFINE s == <<f>> \o c
<1>1. /\ Len(c) \in Nat /\ DOMAIN c = 1..Len(c) /\ DOMAIN s = 1..(Len(c) + 1)
      /\ s[1] = f /\ \A i \in 1..Len(c) : s[i + 1] = c[i]
  BY Push
<1> SUFFICES ASSUME NEW i \in DOMAIN s, s[i].at = "PopFront", s[i].h = h PROVE PopIn(c, h)
  BY DEF PopIn
<1>2. i # 1
  BY <1>1
<1>3. i - 1 \in 1..Len(c) /\ (i - 1) + 1 = i
  BY <1>1, <1>2
<1>4. s[i] = c[i - 1] /\ i - 1 \in DOMAIN c
  BY <1>1, <1>3
<1> HIDE DEF s
<1> QED BY <1>4 DEF PopIn

----------------------------------------------------------------------------
(* A step that changes one connection object, or one of the parallel ones *)

LEMMA NetStep ==
    ASSUME IInv, UNCHANGED <<frame, idle, ary, par>>, NEW h \in DOMAIN net, NEW r, HandlerOk(r),
           r.type = net[h].type, net' = [net EXCEPT ![h] = r],
           Sound(stack', net', Len(par), conf.plan)
    PROVE  IInv'
<1>1. DOMAIN net' = DOMAIN net /\ \A x \in DOMAIN net : net'[x] = IF x = h THEN r ELSE net[x]
  BY DEF IInv
<1>2. NetOk(net') /\ net' = [x \in DOMAIN net' |-> net'[x]] /\ DOMAIN net' \subseteq Nat
  BY <1>1 DEF IInv, NetOk
<1>3. \A x \in idle : net'[x].type # "LongWithPending"
  BY <1>1 DEF IInv
<1>4. conf' = conf /\ msg' = msg /\ sets' = sets /\ idle' = idle /\ ary' = ary /\ par' = par
  BY DEF frame
<1> QED BY <1>1, <1>2, <1>3, <1>4 DEF IInv

LEMMA ParStep ==
    ASSUME IInv, UNCHANGED <<frame, net, idle, ary>>, NEW p \in DOMAIN par, NEW r, ParallelOk(r),
           par' = [par EXCEPT ![p] = r], Sound(stack', net, Len(par), conf.plan)
    PROVE  IInv'
<1>1. par \in Seq(PType) /\ r \in PType
  BY DEF IInv, ParallelOk
<1>2. par' \in Seq(PType) /\ Len(par') = Len(par) /\ DOMAIN par' = DOMAIN par
  BY <1>1
<1>3. \A x \in DOMAIN par : ParallelOk(par'[x])
  BY <1>1 DEF IInv
<1>4. conf' = conf /\ msg' = msg /\ sets' = sets /\ idle' = idle /\ ary' = ary /\ net' = net
  BY DEF frame
<1> QED BY <1>2, <1>3, <1>4 DEF IInv

LEMMA Still ==
    ASSUME IInv, UNCHANGED <<frame, net, idle, ary, par>>, Sound(stack', net, Len(par), conf.plan)
    PROVE  IInv'
<1>1. /\ conf' = conf /\ msg' = msg /\ sets' = sets /\ idle' = idle /\ ary' = ary
      /\ net' = net /\ par' = par
  BY DEF frame
<1> QED BY <1>1 DEF IInv

LEMMA RunningCall ==
    ASSUME IInv, NEW at, Running(at)
    PROVE  /\ stack # <<>> /\ Head(stack).at = at /\ Calm(Tail(stack), net, Len(par), conf.plan)
           /\ at \in {"StartActionProcess", "TryNextAction"} => Top(Head(stack), Tail(stack), net)
           /\ at \notin {"StartActionProcess", "TryNextAction"} =>
                 Under(Head(stack), Tail(stack), net, Len(par), conf.plan)
           /\ Len(par) \in Nat
BY SoundHead DEF IInv, Running

LEMMA NewAction ==
    ASSUME NEW a \in ActId
    PROVE  a # None /\ a[1] \in Nat /\ a[2] \in Nat \ {0} /\ a[3] \in Nat /\ a = <<a[1], a[2], a[3]>>
BY AsyncAssumption DEF ActId

\* The end of an action is told above any calls.
LEMMA FinishedUnder ==
    ASSUME NEW c, NEW nt, NEW np, NEW plan, NEW a \in ActId, NEW h \in DOMAIN nt \cup {None},
           NEW ans \in {None, a}, Calm(c, nt, np, plan)
    PROVE  /\ Under(FinishedOf(a, h, ans), c, nt, np, plan)
           /\ Calm(<<FinishedOf(a, h, ans)>> \o c, nt, np, plan)
           /\ \A x : PopIn(<<FinishedOf(a, h, ans)>> \o c, x) => PopIn(c, x)
<1> DEFINE f == FinishedOf(a, h, ans)
<1>1. f.at = "HandleFinished"
  BY DEF FinishedOf
<1>2. f \in FinishedFrame(DOMAIN nt)
  BY DEF FinishedOf, FinishedFrame
<1>3. f \in CalmFrame(DOMAIN nt, np, plan)
  BY <1>2 DEF CalmFrame
<1>4. ~First(f)
  BY <1>1 DEF First
<1> HIDE DEF f
<1>5. Under(f, c, nt, np, plan)
  BY <1>1, <1>3, <1>4 DEF Under
<1>6. Calm(<<f>> \o c, nt, np, plan)
  BY <1>5, CalmPush
<1>7. c \in Seq(CalmFrame(DOMAIN nt, np, plan))
  BY DEF Calm
<1>8. \A x : PopIn(<<f>> \o c, x) => PopIn(c, x)
  BY <1>1, <1>7, PopInPush
<1> QED BY <1>5, <1>6, <1>8 DEF f

\* Calls that do not pop the list of object h go on when it changes.
LEMMA CalmChange ==
    ASSUME NEW nt, NEW np \in Nat, NEW plan, NEW h \in DOMAIN nt, NEW r, r.type = nt[h].type,
           NEW c, Calm(c, nt, np, plan), ~PopIn(c, h) \/ r.action = nt[h].action
    PROVE  Calm(c, [nt EXCEPT ![h] = r], np, plan)
<1> DEFINE ot == [nt EXCEPT ![h] = r]
<1>1. DOMAIN ot = DOMAIN nt /\ ot[h] = r /\ \A x \in DOMAIN nt : x # h => ot[x] = nt[x]
  OBVIOUS
<1> HIDE DEF ot
<1>2. \A x \in DOMAIN nt : ot[x].type = nt[x].type
  BY <1>1
<1>3. \A x \in DOMAIN nt : PopIn(c, x) => ot[x].action = None
  <2> SUFFICES ASSUME NEW x \in DOMAIN nt, PopIn(c, x) PROVE ot[x].action = None
    OBVIOUS
  <2>1. PICK i \in DOMAIN c : c[i].at = "PopFront" /\ c[i].h = x
    BY DEF PopIn
  <2>2. nt[x].action = None
    BY <2>1 DEF Calm
  <2> QED BY <1>1, <2>2
<1>4. Calm(c, ot, np, plan)
  BY <1>1, <1>2, <1>3, CalmNet
<1> QED BY <1>4 DEF ot

LEMMA CalmKeep ==
    ASSUME IInv, NEW h \in DOMAIN net, NEW r, r.type = net[h].type,
           NEW c, Calm(c, net, Len(par), conf.plan), ~PopIn(c, h) \/ r.action = net[h].action
    PROVE  Calm(c, [net EXCEPT ![h] = r], Len(par), conf.plan)
<1>1. Len(par) \in Nat
  BY DEF IInv
<1> QED BY <1>1, CalmChange

\* The rest of the calls of a step that takes object h away from its action.
LEMMA TryNextSound ==
    ASSUME IInv, NEW h \in DOMAIN net, NEW r, r.type = net[h].type, r.action = None,
           NEW c, Calm(c, net, Len(par), conf.plan), ~PopIn(c, h),
           NEW g, g = <<>> \/ \E a \in ActId : \E ans \in {None, a} : g = <<FinishedOf(a, h, ans)>>
    PROVE  Sound((<<TryNextOf(h)>> \o g) \o c, [net EXCEPT ![h] = r], Len(par), conf.plan)
<1> DEFINE nt == [net EXCEPT ![h] = r]
           f == TryNextOf(h)
<1>1. DOMAIN nt = DOMAIN net /\ nt[h] = r /\ \A x \in DOMAIN net : x # h => nt[x] = net[x]
  OBVIOUS
<1>2. Len(par) \in Nat
  BY DEF IInv
<1>3. Calm(c, nt, Len(par), conf.plan)
  BY CalmKeep
<1>4. f.at = "TryNextAction" /\ f.h = h /\ f \in TopFrame(DOMAIN nt)
  BY <1>1 DEF TryNextOf, TopFrame
<1> HIDE DEF nt, f
<1>5. c \in Seq(CalmFrame(DOMAIN nt, Len(par), conf.plan))
  BY <1>3 DEF Calm
<1>6. CASE g = <<>>
  <2>1. (<<f>> \o g) \o c = <<f>> \o c
    BY <1>5, <1>6, PushTwo
  <2>2. Top(f, c, nt)
    BY <1>1, <1>4 DEF Top
  <2> QED BY <1>3, <2>1, <2>2, TopSound DEF nt, f
<1>7. CASE g # <<>>
  <2>1. PICK a \in ActId : \E ans \in {None, a} : g = <<FinishedOf(a, h, ans)>>
    BY <1>7
  <2>0. PICK ans \in {None, a} : g = <<FinishedOf(a, h, ans)>>
    BY <2>1
  <2> DEFINE e == FinishedOf(a, h, ans)
             d == <<e>> \o c
  <2>2. h \in DOMAIN nt
    BY <1>1
  <2>3. Calm(d, nt, Len(par), conf.plan) /\ ~PopIn(d, h)
    BY <1>3, <2>2, FinishedUnder
  <2> HIDE DEF e
  <2>4. (<<f>> \o g) \o c = <<f>> \o d
    <3>1. g = <<e>>
      BY <2>0 DEF e
    <3>2. (<<f>> \o <<e>>) \o c = <<f>> \o (<<e>> \o c)
      BY <1>5, PushAssoc
    <3> QED BY <3>1, <3>2
  <2> HIDE DEF d
  <2>5. Top(f, d, nt)
    BY <1>1, <1>4, <2>3 DEF Top
  <2> QED BY <2>3, <2>4, <2>5, TopSound DEF nt, f
<1> QED BY <1>6, <1>7

----------------------------------------------------------------------------
(* CNetHandler *)

LEMMA Closed ==
    ASSUME NEW x \in HType
    PROVE  LET r == EnableIdleTimer(Close([x EXCEPT !.action = None])) IN
           HandlerOk(r) /\ r.type = x.type /\ r.action = None
<1> DEFINE y == [x EXCEPT !.action = None]
           z == Close(y)
<1>1. y \in HType /\ y.type = x.type /\ y.action = None
  BY DEF HType
<1> HIDE DEF y
<1>2. /\ z \in HType /\ z.type = x.type /\ z.action = None /\ z.sent = <<>>
      /\ z.proc = "IDLE"
  <2>1. <<>> \in Seq(ActId)
    OBVIOUS
  <2>2. z \in HType
    BY <1>1, <2>1 DEF Close, HType
  <2>3. z.type = y.type /\ z.action = y.action /\ z.sent = <<>> /\ z.proc = "IDLE"
    BY <1>1 DEF Close, HType
  <2> QED BY <1>1, <2>2, <2>3
<1> HIDE DEF z
<1>3. HandlerOk(EnableIdleTimer(z)) /\ EnableIdleTimer(z).type = x.type /\ EnableIdleTimer(z).action = None
  BY <1>2 DEF EnableIdleTimer, HType, HandlerOk
<1> QED BY <1>3 DEF y, z

LEMMA DoErrorFinishedStep ==
    ASSUME IInv, UNCHANGED <<frame, idle, ary, par>>, NEW h \in DOMAIN net,
           NEW c, Calm(c, net, Len(par), conf.plan), ~PopIn(c, h), DoErrorFinished(h, c)
    PROVE  IInv'
<1> DEFINE a == net[h].action
           r == EnableIdleTimer(Close([net[h] EXCEPT !.action = None]))
           g == IF a = None THEN <<>> ELSE <<FinishedOf(a, h, None)>>
<1>1. net' = [net EXCEPT ![h] = r] /\ stack' = (<<TryNextOf(h)>> \o g) \o c
  BY DEF DoErrorFinished
<1>2. net[h] \in HType
  BY DEF IInv, NetOk, HandlerOk
<1>3. a \in ActId \cup {None}
  BY <1>2 DEF HType
<1>4. HandlerOk(r) /\ r.type = net[h].type /\ r.action = None
  BY <1>2, Closed
<1>5. g = <<>> \/ \E b \in ActId : \E ans \in {None, b} : g = <<FinishedOf(b, h, ans)>>
  BY <1>3
<1> HIDE DEF r, g
<1>6. Sound(stack', net', Len(par), conf.plan)
  BY <1>1, <1>4, <1>5, TryNextSound
<1> QED BY <1>1, <1>4, <1>6, NetStep

LEMMA DoFinishedStep ==
    ASSUME IInv, UNCHANGED <<frame, idle, ary, par>>, NEW h \in DOMAIN net,
           NEW r \in HType, r.sent = <<>>, r.action # None, r.type = net[h].type,
           NEW ans \in {None, r.action},
           NEW c, Calm(c, net, Len(par), conf.plan), ~PopIn(c, h), DoFinished(h, r, ans, c)
    PROVE  IInv'
<1> DEFINE free == [r EXCEPT !.action = None, !.proc = "IDLE"]
           n == EnableIdleTimer(IF r.type = "Short" THEN Close(free) ELSE free)
           g == FinishedOf(r.action, h, ans)
           f == TryNextOf(h)
<1>1. net' = [net EXCEPT ![h] = n] /\ stack' = <<f, g>> \o c
  BY DEF DoFinished
<1>2. r.action \in ActId
  BY DEF HType
<1>3. HandlerOk(n) /\ n.type = net[h].type /\ n.action = None
  BY DEF EnableIdleTimer, Close, HandlerOk, HType
<1>4. \E b \in ActId : \E x \in {None, b} : <<g>> = <<FinishedOf(b, h, x)>>
  BY <1>2
<1>5. Sound((<<f>> \o <<g>>) \o c, [net EXCEPT ![h] = n], Len(par), conf.plan)
  <2> HIDE DEF n, g
  <2> QED BY <1>3, <1>4, TryNextSound
<1>6. <<f, g>> \o c = (<<f>> \o <<g>>) \o c
  <2> HIDE DEF f, g
  <2>1. c \in Seq(CalmFrame(DOMAIN net, Len(par), conf.plan))
    BY DEF Calm
  <2>2. <<f, g>> \o c = <<f>> \o (<<g>> \o c)
    BY <2>1, PushTwo
  <2>3. (<<f>> \o <<g>>) \o c = <<f>> \o (<<g>> \o c)
    BY <2>1, PushAssoc
  <2> QED BY <2>2, <2>3
<1> HIDE DEF n, f, g
<1>7. Sound(stack', net', Len(par), conf.plan)
  BY <1>1, <1>5, <1>6
<1> QED BY <1>1, <1>3, <1>7, NetStep

\* The object goes on with the same action.
LEMMA KeepActionStep ==
    ASSUME IInv, UNCHANGED <<frame, idle, ary, par>>, NEW h \in DOMAIN net,
           NEW r, HandlerOk(r), r.type = net[h].type, r.action = net[h].action,
           Calm(stack', net, Len(par), conf.plan), net' = [net EXCEPT ![h] = r]
    PROVE  IInv'
<1>1. Calm(stack', net', Len(par), conf.plan)
  BY CalmKeep
<1>2. Sound(stack', net', Len(par), conf.plan)
  BY <1>1, CalmSound
<1> QED BY <1>2, NetStep

LEMMA DoSendStep ==
    ASSUME IInv, UNCHANGED <<frame, idle, ary, par>>, NEW h \in DOMAIN net,
           NEW r, HandlerOk(r), r.proc = "SENDING", r.type = net[h].type, r.action = net[h].action,
           NEW c, Calm(c, net, Len(par), conf.plan), ~PopIn(c, h), DoSend(h, r, c)
    PROVE  IInv'
<1>1. r \in HType /\ r.sent = <<>> /\ r.action # None /\ r.action \in ActId
  BY DEF HandlerOk, HType
<1>2. CASE net' = [net EXCEPT ![h] = r] /\ stack' = c
  BY <1>2, KeepActionStep
<1>3. CASE DoErrorFinished(h, Failed(c))
  <2>1. Calm(Failed(c), net, Len(par), conf.plan) /\ ~PopIn(Failed(c), h)
    BY CalmFailed
  <2> QED BY <1>3, <2>1, DoErrorFinishedStep
<1>4. CASE DoFinished(h, r, None, c)
  BY <1>1, <1>4, DoFinishedStep
<1>5. CASE /\ net' = [net EXCEPT ![h] = [r EXCEPT !.proc = "RECVING", !.sent = Append(@, r.action)]]
           /\ stack' = c
  <2> DEFINE n == [r EXCEPT !.proc = "RECVING", !.sent = Append(@, r.action)]
  <2>0. Append(<<>>, r.action) = <<r.action>> /\ <<r.action>> \in Seq(ActId)
    BY <1>1
  <2>1. n.sent = <<r.action>> /\ n.proc = "RECVING" /\ n.action = r.action /\ n.type = r.type
    BY <1>1, <2>0 DEF HType
  <2>2. n \in HType
    BY <1>1, <2>0 DEF HType
  <2> HIDE DEF n
  <2>3. HandlerOk(n)
    BY <1>1, <2>1, <2>2 DEF HandlerOk
  <2>4. net' = [net EXCEPT ![h] = n]
    BY <1>5 DEF n
  <2> QED BY <1>5, <2>1, <2>3, <2>4, KeepActionStep
<1> QED BY <1>2, <1>3, <1>4, <1>5 DEF DoSend

LEMMA StartActionProcessStep ==
    ASSUME IInv, StartActionProcess
    PROVE  IInv'
<1> DEFINE h == Head(stack).h
           c == Tail(stack)
           r == [net[h] EXCEPT !.proc = "SENDING", !.timer = "doing"]
<1>1. Running("StartActionProcess") /\ UNCHANGED <<frame, idle, ary, par>>
  BY DEF StartActionProcess
<1>2. /\ Head(stack).at = "StartActionProcess" /\ Calm(c, net, Len(par), conf.plan)
      /\ Top(Head(stack), c, net)
  BY <1>1, RunningCall
<1>3. h \in DOMAIN net /\ ~PopIn(c, h) /\ net[h].action # None /\ net[h].sent = <<>>
  BY <1>2 DEF Top, TopFrame
<1>4. HandlerOk(net[h])
  BY <1>3 DEF IInv, NetOk
<1>5. HandlerOk(r) /\ r.proc = "SENDING" /\ r.type = net[h].type /\ r.action = net[h].action /\ r \in HType
  BY <1>3, <1>4 DEF HandlerOk, HType
<1>6. Open(h, r, c) \/ DoSend(h, r, c)
  BY DEF StartActionProcess
<1> HIDE DEF h, c, r
<1>7. CASE DoSend(h, r, c)
  BY <1>1, <1>2, <1>3, <1>5, <1>7, DoSendStep
<1>8. CASE Open(h, r, c)
  <2>1. CASE DoErrorFinished(h, Failed(c))
    <3>1. Calm(Failed(c), net, Len(par), conf.plan) /\ ~PopIn(Failed(c), h)
      BY <1>2, <1>3, CalmFailed
    <3> QED BY <1>1, <1>3, <2>1, <3>1, DoErrorFinishedStep
  <2>2. CASE \E k \in {"CONNECTING", "CONNECTED"} : net' = [net EXCEPT ![h] = [r EXCEPT !.conn = k]] /\ stack' = c
    <3>1. PICK k \in {"CONNECTING", "CONNECTED"} : net' = [net EXCEPT ![h] = [r EXCEPT !.conn = k]] /\ stack' = c
      BY <2>2
    <3> DEFINE n == [r EXCEPT !.conn = k]
    <3>2. HandlerOk(n) /\ n.type = net[h].type /\ n.action = net[h].action
      BY <1>5 DEF HandlerOk, HType
    <3>3. net' = [net EXCEPT ![h] = n] /\ stack' = c
      BY <3>1
    <3> HIDE DEF n
    <3> QED BY <1>1, <1>2, <1>3, <3>2, <3>3, KeepActionStep
  <2> QED BY <1>8, <2>1, <2>2 DEF Open
<1> QED BY <1>6, <1>7, <1>8

LEMMA TryNextActionStep ==
    ASSUME IInv, TryNextAction
    PROVE  IInv'
<1> DEFINE h == Head(stack).h
           c == Tail(stack)
           list == net[h].pend
           b == list[1].a
           waits == net[h].type = "LongWithPending" /\ list # <<>>
           Pend == [a : ActId, exp : BOOLEAN]
<1>1. Running("TryNextAction") /\ UNCHANGED <<frame, idle, ary, par>>
  BY DEF TryNextAction
<1>2. Calm(c, net, Len(par), conf.plan) /\ Top(Head(stack), c, net) /\ Head(stack).at = "TryNextAction"
  BY <1>1, RunningCall
<1>3. h \in DOMAIN net /\ ~PopIn(c, h) /\ net[h].action = None
  BY <1>2 DEF Top, TopFrame
<1>4. HandlerOk(net[h]) /\ net[h] \in HType /\ net[h].sent = <<>>
  BY <1>3 DEF IInv, NetOk, HandlerOk
<1>5. list \in Seq(Pend)
  BY <1>4 DEF HType
<1>6. CASE stack' = c /\ UNCHANGED net
  <2>1. Sound(stack', net, Len(par), conf.plan)
    BY <1>2, <1>6, CalmSound
  <2> QED BY <1>1, <1>6, <2>1, Still
<1>7. CASE /\ waits /\ net' = [net EXCEPT ![h].pend[1].exp = TRUE]
           /\ stack' = <<FinishedOf(b, h, None), PopOf(h, b)>> \o c
  <2> DEFINE n == [net[h] EXCEPT !.pend = [list EXCEPT ![1] = [list[1] EXCEPT !.exp = TRUE]]]
             nt == [net EXCEPT ![h] = n]
             f == PopOf(h, b)
             d == <<f>> \o c
             e == FinishedOf(b, h, None)
  <2>1. net' = nt
    BY <1>7
  <2>2. 1 \in DOMAIN list /\ list[1] \in Pend /\ b \in ActId
    <3>1. 1 \in DOMAIN list
      BY <1>5, <1>7
    <3>2. list[1] \in Pend
      <4> HIDE DEF Pend, list
      <4> QED BY <1>5, <3>1
    <3>3. b \in ActId
      BY <3>2
    <3> QED BY <3>1, <3>2, <3>3
  <2>3. [list EXCEPT ![1] = [list[1] EXCEPT !.exp = TRUE]] \in Seq(Pend)
    <3>1. [list[1] EXCEPT !.exp = TRUE] \in Pend
      BY <2>2
    <3> QED BY <1>5, <2>2, <3>1
  <2>4. HandlerOk(n) /\ n.type = net[h].type /\ n.action = net[h].action
    <3> HIDE DEF list
    <3> QED BY <1>4, <2>3 DEF HandlerOk, HType
  <2> HIDE DEF n
  <2>5. Calm(c, nt, Len(par), conf.plan)
    BY <1>2, <1>3, <2>4, CalmKeep
  <2>6. DOMAIN nt = DOMAIN net /\ nt[h] = n
    BY <1>3
  <2> HIDE DEF nt, b
  <2>7. f.at = "PopFront" /\ f.h = h /\ f \in CalmFrame(DOMAIN nt, Len(par), conf.plan) /\ ~First(f)
    BY <1>3, <2>2, <2>6 DEF PopOf, PopFrame, CalmFrame, First
  <2> HIDE DEF f
  <2>8. Under(f, c, nt, Len(par), conf.plan)
    BY <1>3, <1>7, <2>4, <2>6, <2>7 DEF Under
  <2>9. Calm(d, nt, Len(par), conf.plan)
    BY <2>5, <2>8, CalmPush
  <2>10. Calm(<<e>> \o d, nt, Len(par), conf.plan)
    <3> HIDE DEF d
    <3> QED BY <1>3, <2>2, <2>6, <2>9, FinishedUnder
  <2>11. <<e, f>> \o c = <<e>> \o d
    <3>1. c \in Seq(CalmFrame(DOMAIN nt, Len(par), conf.plan))
      BY <2>5 DEF Calm
    <3> HIDE DEF e
    <3> QED BY <3>1, PushTwo
  <2>12. stack' = <<e, f>> \o c
    BY <1>7 DEF f
  <2> HIDE DEF d, e
  <2>13. Sound(stack', net', Len(par), conf.plan)
    BY <2>1, <2>10, <2>11, <2>12, CalmSound
  <2> QED BY <1>1, <1>3, <2>1, <2>4, <2>13, NetStep DEF nt
<1>8. CASE /\ waits /\ net' = [net EXCEPT ![h].action = b, ![h].pend = Tail(@)]
           /\ stack' = <<StartProcessOf(h)>> \o c
  <2> DEFINE n == [net[h] EXCEPT !.action = b, !.pend = Tail(list)]
             nt == [net EXCEPT ![h] = n]
             f == StartProcessOf(h)
  <2>1. net' = nt
    BY <1>3, <1>8
  <2>2. b \in ActId /\ Tail(list) \in Seq(Pend)
    <3>1. list[1] \in Pend /\ Tail(list) \in Seq(Pend)
      <4> HIDE DEF Pend, list
      <4> QED BY <1>5, <1>8, Pop
    <3>2. b \in ActId
      BY <3>1
    <3> QED BY <3>1, <3>2
  <2>3. b # None
    BY <2>2, NewAction
  <2> HIDE DEF b, list
  <2>4. HandlerOk(n) /\ n.type = net[h].type /\ n.action = b /\ n.sent = <<>>
    BY <1>4, <2>2, <2>3 DEF HandlerOk, HType
  <2> HIDE DEF n
  <2>5. Calm(c, nt, Len(par), conf.plan)
    BY <1>2, <1>3, <2>4, CalmKeep
  <2>6. DOMAIN nt = DOMAIN net /\ nt[h] = n
    BY <1>3
  <2> HIDE DEF nt
  <2>7. f.at = "StartActionProcess" /\ f.h = h /\ f \in TopFrame(DOMAIN nt)
    BY <1>3, <2>6 DEF StartProcessOf, TopFrame
  <2> HIDE DEF f
  <2>8. Top(f, c, nt)
    BY <1>3, <2>3, <2>4, <2>6, <2>7 DEF Top
  <2>9. Sound(stack', net', Len(par), conf.plan)
    BY <1>8, <2>1, <2>5, <2>8, TopSound DEF f
  <2> QED BY <1>1, <1>3, <2>1, <2>4, <2>9, NetStep DEF nt
<1> QED BY <1>6, <1>7, <1>8 DEF TryNextAction

LEMMA PopFrontStep ==
    ASSUME IInv, PopFront
    PROVE  IInv'
<1> DEFINE h == Head(stack).h
           c == Tail(stack)
           n == [net[h] EXCEPT !.pend = Tail(@)]
           nt == [net EXCEPT ![h] = n]
           f == TryNextOf(h)
<1>1. Running("PopFront") /\ UNCHANGED <<frame, idle, ary, par>>
  BY DEF PopFront
<1>2. /\ Calm(c, net, Len(par), conf.plan) /\ Head(stack).at = "PopFront"
      /\ Under(Head(stack), c, net, Len(par), conf.plan)
  BY <1>1, RunningCall
<1>3. Head(stack) \in PopFrame(DOMAIN net)
  BY <1>2, FrameKinds DEF Under
<1>4. h \in DOMAIN net /\ ~PopIn(c, h) /\ net[h].action = None
  BY <1>2, <1>3 DEF Under, PopFrame
<1>5. net' = nt /\ stack' = <<f>> \o c
  BY DEF PopFront
<1>6. HandlerOk(net[h]) /\ net[h] \in HType
  BY <1>4 DEF IInv, NetOk, HandlerOk
<1>7. Tail(net[h].pend) \in Seq([a : ActId, exp : BOOLEAN])
  <2>1. net[h].pend \in Seq([a : ActId, exp : BOOLEAN])
    BY <1>6 DEF HType
  <2>2. CASE net[h].pend = <<>>
    BY <2>2
  <2>3. CASE net[h].pend # <<>>
    BY <2>1, <2>3, Pop
  <2> QED BY <2>2, <2>3
<1> HIDE DEF h
<1>8. HandlerOk(n) /\ n.type = net[h].type /\ n.action = None
  BY <1>4, <1>6, <1>7 DEF HandlerOk, HType
<1> HIDE DEF n, c
<1>9. Sound((<<f>> \o <<>>) \o c, nt, Len(par), conf.plan)
  BY <1>2, <1>4, <1>8, TryNextSound
<1>10. (<<f>> \o <<>>) \o c = <<f>> \o c
  <2>1. c \in Seq(CalmFrame(DOMAIN net, Len(par), conf.plan))
    BY <1>2 DEF Calm
  <2> HIDE DEF f
  <2> QED BY <2>1, PushTwo
<1>11. Sound(stack', net', Len(par), conf.plan)
  BY <1>5, <1>9, <1>10
<1> QED BY <1>1, <1>4, <1>5, <1>8, <1>11, NetStep

LEMMA Empty ==
    ASSUME IInv
    PROVE  Calm(<<>>, net, Len(par), conf.plan) /\ \A h : ~PopIn(<<>>, h)
BY CalmEmpty

LEMMA InputNotifyStep ==
    ASSUME IInv, NEW h \in DOMAIN net, InputNotify(h)
    PROVE  IInv'
<1>1. UNCHANGED <<frame, idle, ary, par>>
  BY DEF InputNotify
<1>2. HandlerOk(net[h]) /\ net[h] \in HType
  BY DEF IInv, NetOk, HandlerOk
<1>3. CASE DoErrorFinished(h, <<>>)
  BY <1>1, <1>3, Empty, DoErrorFinishedStep
<1>4. CASE /\ net[h].sent # <<>>
           /\ DoFinished(h, [net[h] EXCEPT !.sent = Tail(@)], Head(net[h].sent), <<>>)
  <2> DEFINE r == [net[h] EXCEPT !.sent = Tail(@)]
  <2>1. net[h].action # None /\ net[h].sent = <<net[h].action>>
    BY <1>2, <1>4 DEF HandlerOk
  <2>2. Tail(net[h].sent) = <<>> /\ Head(net[h].sent) = net[h].action
    BY <2>1
  <2>3. r \in HType /\ r.sent = <<>> /\ r.action = net[h].action /\ r.type = net[h].type
    <3> DEFINE t == Tail(net[h].sent)
    <3>0. t = <<>> /\ r = [net[h] EXCEPT !.sent = t]
      BY <2>2
    <3>a. <<>> \in Seq(ActId)
      OBVIOUS
    <3> HIDE DEF t, r
    <3>1. t = <<>> /\ t \in Seq(ActId) /\ r = [net[h] EXCEPT !.sent = t]
      BY <3>0, <3>a
    <3>2. r \in HType
      BY <1>2, <3>1 DEF HType
    <3>3. r.sent = t /\ r.action = net[h].action /\ r.type = net[h].type
      BY <1>2, <3>1 DEF HType
    <3> QED BY <3>1, <3>2, <3>3
  <2> HIDE DEF r
  <2>4. DoFinished(h, r, Head(net[h].sent), <<>>) /\ Head(net[h].sent) \in {None, r.action}
    BY <1>4, <2>2, <2>3 DEF r
  <2> QED BY <1>1, <2>1, <2>3, <2>4, Empty, DoFinishedStep
<1> QED BY <1>3, <1>4 DEF InputNotify, DoRecv

LEMMA OutputNotifyStep ==
    ASSUME IInv, NEW h \in DOMAIN net, OutputNotify(h)
    PROVE  IInv'
<1> DEFINE r == [net[h] EXCEPT !.conn = "CONNECTED"]
<1>1. UNCHANGED <<frame, idle, ary, par>> /\ net[h].proc = "SENDING"
  BY DEF OutputNotify
<1>2. HandlerOk(net[h]) /\ net[h] \in HType
  BY DEF IInv, NetOk, HandlerOk
<1>3. HandlerOk(r) /\ r.proc = "SENDING" /\ r.type = net[h].type /\ r.action = net[h].action
  BY <1>1, <1>2 DEF HandlerOk, HType
<1>4. DoErrorFinished(h, <<>>) \/ DoSend(h, r, <<>>)
  BY DEF OutputNotify
<1> HIDE DEF r
<1> QED BY <1>1, <1>3, <1>4, Empty, DoErrorFinishedStep, DoSendStep

LEMMA HangupNotifyStep ==
    ASSUME IInv, NEW h \in DOMAIN net, HangupNotify(h)
    PROVE  IInv'
BY Empty, DoErrorFinishedStep DEF HangupNotify

LEMMA TimerNotifyStep ==
    ASSUME IInv, NEW h \in DOMAIN net, TimerNotify(h)
    PROVE  IInv'
<1> DEFINE r == [net[h] EXCEPT !.timer = "none", !.proc = "IDLE_RECYCLE"]
<1>1. UNCHANGED <<frame, idle, ary, par>> /\ stack = <<>>
  BY DEF TimerNotify
<1>2. CASE DoErrorFinished(h, <<>>)
  BY <1>1, <1>2, Empty, DoErrorFinishedStep
<1>3. CASE /\ net[h].proc = "IDLE" /\ UNCHANGED stack
           /\ net' = [net EXCEPT ![h].timer = "none", ![h].proc = "IDLE_RECYCLE"]
  <2>1. HandlerOk(net[h]) /\ net[h] \in HType
    BY DEF IInv, NetOk, HandlerOk
  <2>2. HandlerOk(r) /\ r.type = net[h].type /\ r.action = net[h].action
    BY <1>3, <2>1 DEF HandlerOk, HType
  <2>3. net' = [net EXCEPT ![h] = r]
    BY <1>3
  <2> HIDE DEF r
  <2>4. Calm(stack', net, Len(par), conf.plan)
    BY <1>1, <1>3, Empty
  <2> QED BY <1>1, <2>2, <2>3, <2>4, KeepActionStep
<1> QED BY <1>2, <1>3 DEF TimerNotify

----------------------------------------------------------------------------
(* CParallelNetHandler *)

\* The calls of an object p, put above others.
LEMMA ParallelUnder ==
    ASSUME IInv, NEW p \in DOMAIN par, NEW c, Calm(c, net, Len(par), conf.plan)
    PROVE  /\ \A i \in Nat \ {0} : Calm(<<TellRecvingOf(p, i)>> \o c, net, Len(par), conf.plan)
           /\ \A a \in ActId \cup {None} : Calm(<<DropFrontOf(p, a)>> \o c, net, Len(par), conf.plan)
           /\ \A a \in ActId : Calm(<<EraseOf(p, a)>> \o c, net, Len(par), conf.plan)
           /\ \A a \in ActId, ret \in {"none", "ok", "fail"} :
                 Calm(<<ParallelRequestOf(p, a, ret)>> \o c, net, Len(par), conf.plan)
           /\ Calm(<<AfterTimeoutOf(p)>> \o c, net, Len(par), conf.plan)
<1> DEFINE F == RequestFrame(Len(par)) \cup TellFrame(Len(par)) \cup DropFrame(Len(par))
                  \cup EraseFrame(Len(par)) \cup AfterFrame(Len(par))
<1>1. p \in 1..Len(par)
  BY DEF IInv
<1>2. ASSUME NEW f \in F PROVE Calm(<<f>> \o c, net, Len(par), conf.plan)
  <2>1. f \in CalmFrame(DOMAIN net, Len(par), conf.plan)
    BY DEF CalmFrame
  <2>2. f.at \notin {"HandleEncode", "StartAction", "PopFront"}
    BY DEF RequestFrame, TellFrame, DropFrame, EraseFrame, AfterFrame
  <2>3. Under(f, c, net, Len(par), conf.plan)
    BY <2>1, <2>2 DEF Under, First
  <2> QED BY <2>3, CalmPush
<1>3. \A i \in Nat \ {0} : TellRecvingOf(p, i) \in F
  BY <1>1 DEF TellRecvingOf, TellFrame
<1>4. \A a \in ActId \cup {None} : DropFrontOf(p, a) \in F
  BY <1>1 DEF DropFrontOf, DropFrame
<1>5. \A a \in ActId : EraseOf(p, a) \in F
  BY <1>1 DEF EraseOf, EraseFrame
<1>6. \A a \in ActId, ret \in {"none", "ok", "fail"} : ParallelRequestOf(p, a, ret) \in F
  BY <1>1 DEF ParallelRequestOf, RequestFrame
<1>7. AfterTimeoutOf(p) \in F
  BY <1>1 DEF AfterTimeoutOf, AfterFrame
<1> HIDE DEF F
<1> QED BY <1>2, <1>3, <1>4, <1>5, <1>6, <1>7

LEMMA ParCalmStep ==
    ASSUME IInv, UNCHANGED <<frame, net, idle, ary>>, NEW p \in DOMAIN par, NEW r, ParallelOk(r),
           par' = [par EXCEPT ![p] = r], Calm(stack', net, Len(par), conf.plan)
    PROVE  IInv'
BY ParStep, CalmSound

LEMMA ErrorFinishedStep ==
    ASSUME IInv, UNCHANGED <<frame, net, idle, ary>>, NEW p \in DOMAIN par, NEW r, ParallelOk(r),
           NEW c, Calm(c, net, Len(par), conf.plan), ErrorFinished(p, r, c)
    PROVE  IInv'
<1> DEFINE n == CloseParallel(r)
<1>1. par' = [par EXCEPT ![p] = n] /\ stack' = <<TellRecvingOf(p, 1)>> \o c
  BY DEF ErrorFinished
<1>2. n \in PType /\ n.sending = r.sending
  <2>1. r \in PType /\ <<>> \in Seq(ActId)
    BY DEF ParallelOk
  <2> QED BY <2>1 DEF PType, CloseParallel
<1> HIDE DEF n
<1>3. ParallelOk(n)
  BY <1>2 DEF ParallelOk
<1>4. Calm(stack', net, Len(par), conf.plan)
  <2>1. 1 \in Nat \ {0}
    OBVIOUS
  <2> QED BY <1>1, <2>1, ParallelUnder
<1> QED BY <1>1, <1>3, <1>4, ParCalmStep

LEMMA OpenParallelStep ==
    ASSUME IInv, UNCHANGED <<frame, net, idle, ary>>, NEW p \in DOMAIN par, NEW r, ParallelOk(r),
           NEW c, Calm(c, net, Len(par), conf.plan), NEW d, Calm(d, net, Len(par), conf.plan),
           OpenParallel(p, r, c, d)
    PROVE  IInv'
<1>1. CASE ErrorFinished(p, r, d)
  BY <1>1, ErrorFinishedStep
<1>2. CASE /\ \E k \in {"CONNECTING", "CONNECTED"} : par' = [par EXCEPT ![p] = [r EXCEPT !.conn = k]]
           /\ stack' = c
  <2>1. PICK k \in {"CONNECTING", "CONNECTED"} : par' = [par EXCEPT ![p] = [r EXCEPT !.conn = k]]
    BY <1>2
  <2> DEFINE n == [r EXCEPT !.conn = k]
  <2>2. n \in PType /\ n.sending = r.sending
    BY DEF ParallelOk, PType
  <2> HIDE DEF n
  <2>3. ParallelOk(n)
    BY <2>2 DEF ParallelOk
  <2>4. par' = [par EXCEPT ![p] = n]
    BY <2>1 DEF n
  <2> QED BY <1>2, <2>3, <2>4, ParCalmStep
<1> QED BY <1>1, <1>2 DEF OpenParallel

\* What is left of the sending list, and the actions that now await an answer.
LEMMA SendAllParts ==
    ASSUME NEW r, ParallelOk(r), NEW k \in 0..Len(r.sending)
    PROVE  LET gone == SubSeq(r.sending, 1, k)
               rest == SubSeq(r.sending, k + 1, Len(r.sending))
               acs == [i \in 1..k |-> gone[i].ac]
               told == IF k > 0 /\ gone[1].ac = None THEN Tail(acs) ELSE acs
           IN  /\ rest \in Seq(Entry) /\ \A i \in DOMAIN rest : i > 1 => rest[i].ac # None
               /\ told \in Seq(ActId) /\ [i \in 1..k |-> gone[i].seq] \in Seq(ActId)
<1> DEFINE q == r.sending
           gone == SubSeq(q, 1, k)
           rest == SubSeq(q, k + 1, Len(q))
           acs == [i \in 1..k |-> gone[i].ac]
<1>1. q \in Seq(Entry) /\ \A i \in DOMAIN q : i > 1 => q[i].ac # None
  BY DEF ParallelOk, PType, Entry
<1>2. DOMAIN q = 1..Len(q) /\ Len(q) \in Nat
  BY <1>1
<1> HIDE DEF q
<1>3. /\ gone \in Seq(Entry) /\ Len(gone) = k /\ \A i \in 1..k : gone[i] = q[i]
      /\ rest \in Seq(Entry) /\ Len(rest) = Len(q) - k /\ \A i \in 1..(Len(q) - k) : rest[i] = q[k + i]
  <2>1. k \in 0..Len(q)
    BY DEF q
  <2> QED BY <1>1, <2>1, SubSeqParts
<1> HIDE DEF gone, rest
<1>4. ASSUME NEW i \in DOMAIN rest, i > 1 PROVE rest[i].ac # None
  <2>1. i \in 1..(Len(q) - k)
    BY <1>3
  <2>2. k + i \in DOMAIN q /\ k + i > 1
    BY <1>2, <1>4, <2>1
  <2> QED BY <1>1, <1>3, <2>1, <2>2
<1>5. \A i \in 1..k : gone[i] \in Entry /\ (i > 1 => gone[i].ac # None)
  <2> SUFFICES ASSUME NEW i \in 1..k PROVE gone[i] \in Entry /\ (i > 1 => gone[i].ac # None)
    OBVIOUS
  <2>1. k \in 0..Len(q)
    BY DEF q
  <2>2. i \in DOMAIN q /\ gone[i] = q[i]
    BY <1>2, <1>3, <2>1
  <2> QED BY <1>1, <2>2
<1>6. [i \in 1..k |-> gone[i].seq] \in Seq(ActId)
  <2>1. \A i \in 1..k : gone[i].seq \in ActId
    BY <1>5 DEF Entry
  <2> QED BY <2>1
<1>7. CASE k > 0 /\ gone[1].ac = None
  <2>1. \A i \in 1..k : acs[i] \in ActId \cup {None} /\ (i > 1 => acs[i] # None)
    BY <1>5 DEF Entry
  <2>2. acs \in Seq(ActId \cup {None}) /\ Len(acs) = k /\ acs # <<>>
    BY <1>7, <2>1
  <2> HIDE DEF acs
  <2>3. Tail(acs) \in Seq(ActId \cup {None}) /\ Len(Tail(acs)) = k - 1 /\ \A i \in 1..(k - 1) : Tail(acs)[i] = acs[i + 1]
    BY <2>2, Pop
  <2>4. \A i \in 1..(k - 1) : Tail(acs)[i] \in ActId
    BY <2>1, <2>3
  <2>5. Tail(acs) \in Seq(ActId)
    BY <2>3, <2>4, SeqIn
  <2> QED BY <1>3, <1>4, <1>6, <1>7, <2>5 DEF q, gone, rest, acs
<1>8. CASE ~(k > 0 /\ gone[1].ac = None)
  <2>1. \A i \in 1..k : gone[i].ac \in ActId
    BY <1>5, <1>8 DEF Entry
  <2>2. acs \in Seq(ActId)
    BY <2>1
  <2> HIDE DEF acs
  <2> QED BY <1>3, <1>4, <1>6, <1>8, <2>2 DEF q, gone, rest, acs
<1> QED BY <1>7, <1>8

LEMMA SendAllStep ==
    ASSUME IInv, UNCHANGED <<frame, net, idle, ary>>, NEW p \in DOMAIN par, NEW r, ParallelOk(r),
           NEW c, Calm(c, net, Len(par), conf.plan), SendAll(p, r, c)
    PROVE  IInv'
<1>1. PICK k \in 0..Len(r.sending) :
         LET gone == SubSeq(r.sending, 1, k)
             rest == SubSeq(r.sending, k + 1, Len(r.sending))
             acs == [i \in 1..k |-> gone[i].ac]
             told == IF k > 0 /\ gone[1].ac = None THEN Tail(acs) ELSE acs
             s == [r EXCEPT !.sending = rest, !.recving = @ \o told, !.sent = @ \o [i \in 1..k |-> gone[i].seq]]
         IN  \/ rest = <<>> /\ par' = [par EXCEPT ![p] = s] /\ stack' = c
             \/ /\ rest # <<>>
                /\ \E part \in {rest[1].part, TRUE} : par' = [par EXCEPT ![p] = [s EXCEPT !.sending[1].part = part]]
                /\ stack' = c
             \/ rest # <<>> /\ ErrorFinished(p, s, Failed(c))
  BY DEF SendAll
<1> DEFINE gone == SubSeq(r.sending, 1, k)
           rest == SubSeq(r.sending, k + 1, Len(r.sending))
           acs == [i \in 1..k |-> gone[i].ac]
           told == IF k > 0 /\ gone[1].ac = None THEN Tail(acs) ELSE acs
           seqs == [i \in 1..k |-> gone[i].seq]
           s == [r EXCEPT !.sending = rest, !.recving = @ \o told, !.sent = @ \o seqs]
<1>2. /\ rest \in Seq(Entry) /\ \A i \in DOMAIN rest : i > 1 => rest[i].ac # None
      /\ told \in Seq(ActId) /\ seqs \in Seq(ActId)
  BY SendAllParts
<1>3. \/ par' = [par EXCEPT ![p] = s] /\ stack' = c
      \/ /\ rest # <<>>
         /\ \E part \in {rest[1].part, TRUE} : par' = [par EXCEPT ![p] = [s EXCEPT !.sending[1].part = part]]
         /\ stack' = c
      \/ ErrorFinished(p, s, Failed(c))
  BY <1>1
<1> HIDE DEF gone, rest, acs, told, seqs
<1>4. r \in PType
  BY DEF ParallelOk
<1>5. s \in PType /\ s.sending = rest
  <2>1. r.recving \in Seq(ActId) /\ r.sent \in Seq(ActId)
    BY <1>4 DEF PType
  <2>2. r.recving \o told \in Seq(ActId) /\ r.sent \o seqs \in Seq(ActId)
    BY <1>2, <2>1
  <2> DEFINE u == r.recving \o told
             v == r.sent \o seqs
  <2>3. s = [r EXCEPT !.sending = rest, !.recving = u, !.sent = v] /\ u \in Seq(ActId) /\ v \in Seq(ActId)
    BY <2>2
  <2> HIDE DEF u, v, s
  <2> QED BY <1>2, <1>4, <2>3 DEF PType, Entry
<1> HIDE DEF s
<1>6. ParallelOk(s)
  BY <1>2, <1>5 DEF ParallelOk
<1>7. CASE par' = [par EXCEPT ![p] = s] /\ stack' = c
  BY <1>6, <1>7, ParCalmStep
<1>8. CASE ErrorFinished(p, s, Failed(c))
  <2>1. Calm(Failed(c), net, Len(par), conf.plan)
    BY CalmFailed
  <2> QED BY <1>6, <1>8, <2>1, ErrorFinishedStep
<1>9. CASE /\ rest # <<>>
           /\ \E part \in {rest[1].part, TRUE} : par' = [par EXCEPT ![p] = [s EXCEPT !.sending[1].part = part]]
           /\ stack' = c
  <2>1. PICK part \in {rest[1].part, TRUE} : par' = [par EXCEPT ![p] = [s EXCEPT !.sending[1].part = part]]
    BY <1>9
  <2>2. 1 \in DOMAIN rest /\ rest[1] \in Entry
    BY <1>2, <1>9
  <2> DEFINE e == [rest[1] EXCEPT !.part = part]
             l == [rest EXCEPT ![1] = e]
             n == [s EXCEPT !.sending = l]
  <2>3. part \in BOOLEAN /\ e \in Entry
    <3>1. rest[1].part \in BOOLEAN
      BY <2>2 DEF Entry
    <3>2. part \in BOOLEAN
      BY <3>1
    <3> QED BY <2>2, <3>2 DEF Entry
  <2>4. par' = [par EXCEPT ![p] = n]
    BY <1>5, <2>1
  <2> HIDE DEF e
  <2>5. l \in Seq(Entry) /\ DOMAIN l = DOMAIN rest /\ \A i \in DOMAIN rest : i > 1 => l[i] = rest[i]
    BY <1>2, <2>2, <2>3
  <2> HIDE DEF l
  <2>6. n \in PType /\ n.sending = l
    BY <1>5, <2>5 DEF PType, Entry
  <2> HIDE DEF n
  <2>7. ParallelOk(n)
    BY <1>2, <2>5, <2>6 DEF ParallelOk
  <2> QED BY <1>9, <2>4, <2>7, ParCalmStep
<1> QED BY <1>3, <1>7, <1>8, <1>9

\* The running call of a parallel object.
LEMMA ParallelHead ==
    ASSUME IInv, NEW at \in {"ParallelRequest", "TellRecving", "DropFront", "EraseRecving", "AfterTimeout"},
           Running(at)
    PROVE  /\ Calm(Tail(stack), net, Len(par), conf.plan)
           /\ Head(stack).p \in DOMAIN par /\ ParallelOk(par[Head(stack).p])
           /\ at = "ParallelRequest" => Head(stack) \in RequestFrame(Len(par))
           /\ at = "TellRecving" => Head(stack).i \in Nat \ {0}
<1> DEFINE f == Head(stack)
<1>1. /\ f.at = at /\ Calm(Tail(stack), net, Len(par), conf.plan)
      /\ Under(f, Tail(stack), net, Len(par), conf.plan)
  BY RunningCall
<1> HIDE DEF f
<1>2. f \in CalmFrame(DOMAIN net, Len(par), conf.plan)
  BY <1>1 DEF Under
<1>3. /\ at = "ParallelRequest" => f \in RequestFrame(Len(par))
      /\ at = "TellRecving" => f \in TellFrame(Len(par))
      /\ at = "DropFront" => f \in DropFrame(Len(par))
      /\ at = "EraseRecving" => f \in EraseFrame(Len(par))
      /\ at = "AfterTimeout" => f \in AfterFrame(Len(par))
  BY <1>1, <1>2, FrameKinds
<1>4. f.p \in 1..Len(par)
  BY <1>3 DEF RequestFrame, TellFrame, DropFrame, EraseFrame, AfterFrame
<1>5. f.p \in DOMAIN par /\ ParallelOk(par[f.p])
  BY <1>4 DEF IInv
<1>6. at = "TellRecving" => f.i \in Nat \ {0}
  BY <1>3 DEF TellFrame
<1> QED BY <1>1, <1>3, <1>5, <1>6 DEF f

LEMMA ParallelRequestStep ==
    ASSUME IInv, ParallelRequest
    PROVE  IInv'
<1> DEFINE f == Head(stack)
           c == Tail(stack)
           r == par[f.p]
           q == [r EXCEPT !.sending = Append(@, [seq |-> f.a, ac |-> f.a, part |-> FALSE])]
<1>1. Running("ParallelRequest") /\ UNCHANGED <<frame, net, idle, ary>>
  BY DEF ParallelRequest
<1>2. /\ Calm(c, net, Len(par), conf.plan) /\ f.p \in DOMAIN par /\ ParallelOk(r)
      /\ f \in RequestFrame(Len(par))
  BY <1>1, ParallelHead
<1>3. f.a \in ActId /\ f.at = "ParallelRequest"
  BY <1>2 DEF RequestFrame
<1>4. \/ OpenParallel(f.p, r, <<[f EXCEPT !.ret = "ok"]>> \o c, <<[f EXCEPT !.ret = "fail"]>> \o c)
      \/ SendAll(f.p, q, c)
      \/ par' = [par EXCEPT ![f.p] = q] /\ stack' \in {c, Failed(c)}
  BY DEF ParallelRequest
<1> HIDE DEF f, c, r
<1>5. ParallelOk(q)
  <2> DEFINE e == [seq |-> f.a, ac |-> f.a, part |-> FALSE]
             l == Append(r.sending, e)
  <2>1. r \in PType /\ r.sending \in Seq(Entry) /\ \A i \in DOMAIN r.sending : i > 1 => r.sending[i].ac # None
    BY <1>2 DEF ParallelOk, PType, Entry
  <2>2. e \in Entry /\ e.ac # None
    BY <1>3, NewAction DEF Entry
  <2> HIDE DEF e
  <2>3. /\ l \in Seq(Entry) /\ Len(l) = Len(r.sending) + 1 /\ l[Len(r.sending) + 1] = e
        /\ \A i \in 1..Len(r.sending) : l[i] = r.sending[i]
    BY <2>1, <2>2, AppendProperties
  <2> HIDE DEF l
  <2>4. \A i \in DOMAIN l : i > 1 => l[i].ac # None
    BY <2>1, <2>2, <2>3
  <2>5. q = [r EXCEPT !.sending = l]
    BY DEF l, e
  <2> HIDE DEF q
  <2>6. q \in PType /\ q.sending = l
    BY <2>1, <2>3, <2>5 DEF PType, Entry
  <2> QED BY <2>4, <2>6 DEF ParallelOk
<1> HIDE DEF q
<1>6. CASE OpenParallel(f.p, r, <<[f EXCEPT !.ret = "ok"]>> \o c, <<[f EXCEPT !.ret = "fail"]>> \o c)
  <2>1. ASSUME NEW ret \in {"ok", "fail"} PROVE Calm(<<[f EXCEPT !.ret = ret]>> \o c, net, Len(par), conf.plan)
    <3> DEFINE g == [f EXCEPT !.ret = ret]
    <3>1. g \in RequestFrame(Len(par)) /\ g.at = "ParallelRequest"
      BY <1>2 DEF RequestFrame
    <3> HIDE DEF g
    <3>2. Under(g, c, net, Len(par), conf.plan)
      BY <3>1 DEF Under, First, CalmFrame
    <3>3. Calm(<<g>> \o c, net, Len(par), conf.plan)
      BY <1>2, <3>2, CalmPush
    <3> QED BY <3>3 DEF g
  <2> QED BY <1>1, <1>2, <1>6, <2>1, OpenParallelStep
<1>7. CASE SendAll(f.p, q, c)
  BY <1>1, <1>2, <1>5, <1>7, SendAllStep
<1>8. CASE par' = [par EXCEPT ![f.p] = q] /\ stack' \in {c, Failed(c)}
  <2>1. Calm(Failed(c), net, Len(par), conf.plan)
    BY <1>2, CalmFailed
  <2> QED BY <1>1, <1>2, <1>5, <1>8, <2>1, ParCalmStep
<1> QED BY <1>4, <1>6, <1>7, <1>8

LEMMA FirstRemoved ==
    ASSUME NEW S, NEW q \in Seq(S), NEW x
    PROVE  RemoveFirst(q, x) \in Seq(S)
<1>1. CASE ~\E i \in 1..Len(q) : q[i] = x
  BY <1>1 DEF RemoveFirst
<1>2. CASE \E i \in 1..Len(q) : q[i] = x
  <2> DEFINE I == {j \in 1..Len(q) : q[j] = x}
             n == SelectInSeq(q, LAMBDA v : v = x)
  <2>1. n = Min(I)
    BY <1>2 DEF SelectInSeq
  <2>2. \E m \in I : \A j \in I : m <= j
    <3>1. I # {} /\ I \subseteq Nat
      BY <1>2
    <3> HIDE DEF I
    <3>2. PICK m \in I : \A j \in I : ~(<<j, m>> \in OpToRel(<, Nat))
      BY <3>1, NatLessThanWellFounded, WFMin
    <3>3. \A j \in I : ~(j < m)
      BY <3>1, <3>2 DEF OpToRel
    <3> QED BY <3>1, <3>3
  <2>3. Min(I) \in I
    BY <2>2 DEF Min
  <2>4. n \in 1..Len(q)
    BY <2>1, <2>3
  <2>5. RemoveFirst(q, x) = RemoveAt(q, n)
    BY <1>2 DEF RemoveFirst
  <2> HIDE DEF n
  <2>6. RemoveAt(q, n) \in Seq(S)
    BY <2>4 DEF RemoveAt
  <2> QED BY <2>5, <2>6
<1> QED BY <1>1, <1>2

\* The object waits for fewer answers.
LEMMA FewerRecving ==
    ASSUME NEW r, ParallelOk(r), NEW l \in Seq(ActId), NEW n, n = [r EXCEPT !.recving = l]
    PROVE  ParallelOk(n)
<1>1. n \in PType /\ n.sending = r.sending
  BY DEF ParallelOk, PType
<1> QED BY <1>1 DEF ParallelOk

LEMMA TellRecvingStep ==
    ASSUME IInv, TellRecving
    PROVE  IInv'
<1> DEFINE p == Head(stack).p
           i == Head(stack).i
           c == Tail(stack)
           r == par[p]
           a == r.sending[1].ac
<1>1. Running("TellRecving") /\ UNCHANGED <<frame, net, idle, ary>>
  BY DEF TellRecving
<1>2. Calm(c, net, Len(par), conf.plan) /\ p \in DOMAIN par /\ ParallelOk(r) /\ i \in Nat \ {0}
  BY <1>1, ParallelHead
<1>3. c \in Seq(CalmFrame(DOMAIN net, Len(par), conf.plan))
  BY <1>2 DEF Calm
<1>4. r.recving \in Seq(ActId) /\ r.sending \in Seq(Entry)
  BY <1>2 DEF ParallelOk, PType, Entry
<1>5. CASE i \in DOMAIN r.recving
  <2> DEFINE b == r.recving[i]
             e == FinishedOf(b, None, None)
             f == TellRecvingOf(p, i + 1)
  <2>1. stack' = <<e, f>> \o c /\ UNCHANGED par
    BY <1>5 DEF TellRecving
  <2>2. b \in ActId /\ i + 1 \in Nat \ {0}
    BY <1>2, <1>4, <1>5
  <2> HIDE DEF b, i, p, c
  <2>3. Calm(<<f>> \o c, net, Len(par), conf.plan)
    BY <1>2, <2>2, ParallelUnder
  <2>4. Calm(<<e>> \o (<<f>> \o c), net, Len(par), conf.plan)
    <3> HIDE DEF f
    <3> QED BY <2>2, <2>3, FinishedUnder
  <2>5. <<e, f>> \o c = <<e>> \o (<<f>> \o c)
    <3> HIDE DEF e, f
    <3> QED BY <1>3, PushTwo
  <2>6. Calm(stack', net, Len(par), conf.plan)
    BY <2>1, <2>4, <2>5
  <2>7. Sound(stack', net, Len(par), conf.plan)
    BY <2>6, CalmSound
  <2> QED BY <1>1, <2>1, <2>7, Still
<1>6. CASE i \notin DOMAIN r.recving
  <2> DEFINE n == [r EXCEPT !.recving = <<>>]
             f == DropFrontOf(p, a)
             e == FinishedOf(a, None, None)
  <2>1. par' = [par EXCEPT ![p] = n]
    BY <1>6 DEF TellRecving
  <2>2. \/ stack' = c
        \/ r.sending # <<>> /\ stack' = ((IF a = None THEN <<>> ELSE <<e>>) \o <<f>>) \o c
    BY <1>6 DEF TellRecving
  <2>3. ParallelOk(n)
    <3>1. <<>> \in Seq(ActId)
      OBVIOUS
    <3> QED BY <1>2, <3>1, FewerRecving
  <2> HIDE DEF n
  <2>4. ASSUME r.sending # <<>>, stack' = ((IF a = None THEN <<>> ELSE <<e>>) \o <<f>>) \o c
        PROVE  Calm(stack', net, Len(par), conf.plan)
    <3>1. a \in ActId \cup {None}
      <4>1. r.sending[1] \in Entry
        BY <1>4, <2>4, Pop
      <4> QED BY <4>1 DEF Entry
    <3> HIDE DEF a, p, c
    <3>2. Calm(<<f>> \o c, net, Len(par), conf.plan)
      BY <1>2, <3>1, ParallelUnder
    <3>3. CASE a = None
      <4>1. <<>> \o <<f>> = <<f>>
        OBVIOUS
      <4>2. stack' = <<f>> \o c
        BY <2>4, <3>3, <4>1
      <4> QED BY <3>2, <4>2
    <3>4. CASE a # None
      <4>1. Calm(<<e>> \o (<<f>> \o c), net, Len(par), conf.plan)
        <5> HIDE DEF f
        <5> QED BY <3>1, <3>2, <3>4, FinishedUnder
      <4> HIDE DEF e, f
      <4>2. (<<e>> \o <<f>>) \o c = <<e>> \o (<<f>> \o c)
        BY <1>3, PushAssoc
      <4> QED BY <2>4, <3>4, <4>1, <4>2
    <3> QED BY <3>3, <3>4
  <2>5. Calm(stack', net, Len(par), conf.plan)
    BY <1>2, <2>2, <2>4
  <2> QED BY <1>1, <1>2, <2>1, <2>3, <2>5, ParCalmStep
<1> QED BY <1>5, <1>6

LEMMA DropFrontStep ==
    ASSUME IInv, DropFront
    PROVE  IInv'
<1> DEFINE p == Head(stack).p
           c == Tail(stack)
           q == par[p].sending
           r == [par[p] EXCEPT !.sending = Tail(@)]
<1>1. Running("DropFront") /\ UNCHANGED <<frame, net, idle, ary>>
  BY DEF DropFront
<1>2. Calm(c, net, Len(par), conf.plan) /\ p \in DOMAIN par /\ ParallelOk(par[p])
  BY <1>1, ParallelHead
<1>3. (par' = [par EXCEPT ![p] = r] /\ stack' = c) \/ OpenParallel(p, r, c, c)
  BY DEF DropFront
<1>4. q \in Seq(Entry) /\ par[p] \in PType /\ \A i \in DOMAIN q : i > 1 => q[i].ac # None
  BY <1>2 DEF ParallelOk, PType, Entry
<1>5. Tail(q) \in Seq(Entry) /\ \A i \in DOMAIN Tail(q) : i > 1 => Tail(q)[i].ac # None
  <2> HIDE DEF q
  <2>1. CASE q = <<>>
    BY <2>1
  <2>2. CASE q # <<>>
    BY <1>4, <2>2, Pop
  <2> QED BY <2>1, <2>2
<1> DEFINE l == Tail(q)
<1>6. r = [par[p] EXCEPT !.sending = l]
  OBVIOUS
<1> HIDE DEF r, l, p, c, q
<1>7. r \in PType /\ r.sending = l
  BY <1>4, <1>5, <1>6 DEF l, PType, Entry
<1>8. ParallelOk(r)
  BY <1>5, <1>7 DEF l, ParallelOk
<1> QED BY <1>1, <1>2, <1>3, <1>8, ParCalmStep, OpenParallelStep

LEMMA EraseRecvingStep ==
    ASSUME IInv, EraseRecving
    PROVE  IInv'
<1> DEFINE p == Head(stack).p
           c == Tail(stack)
           l == RemoveFirst(par[p].recving, Head(stack).a)
           n == [par[p] EXCEPT !.recving = l]
<1>1. Running("EraseRecving") /\ UNCHANGED <<frame, net, idle, ary>>
  BY DEF EraseRecving
<1>2. Calm(c, net, Len(par), conf.plan) /\ p \in DOMAIN par /\ ParallelOk(par[p])
  BY <1>1, ParallelHead
<1>3. par' = [par EXCEPT ![p] = n] /\ stack' = c
  BY DEF EraseRecving
<1>4. par[p].recving \in Seq(ActId)
  BY <1>2 DEF ParallelOk, PType
<1>5. l \in Seq(ActId)
  BY <1>4, FirstRemoved
<1> HIDE DEF l
<1>6. ParallelOk(n)
  BY <1>2, <1>5, FewerRecving
<1> HIDE DEF n
<1> QED BY <1>1, <1>2, <1>3, <1>6, ParCalmStep

LEMMA AfterTimeoutStep ==
    ASSUME IInv, AfterTimeout
    PROVE  IInv'
<1> DEFINE p == Head(stack).p
           c == Tail(stack)
           r == IF par[p].recving = <<>> /\ par[p].sending = <<>> THEN CloseParallel(par[p]) ELSE par[p]
<1>1. Running("AfterTimeout") /\ UNCHANGED <<frame, net, idle, ary>>
  BY DEF AfterTimeout
<1>2. Calm(c, net, Len(par), conf.plan) /\ p \in DOMAIN par /\ ParallelOk(par[p])
  BY <1>1, ParallelHead
<1>3. (par' = [par EXCEPT ![p] = r] /\ stack' = c) \/ ErrorFinished(p, r, c)
  BY DEF AfterTimeout
<1>4. ParallelOk(r)
  <2>1. par[p] \in PType /\ <<>> \in Seq(ActId)
    BY <1>2 DEF ParallelOk
  <2>2. CloseParallel(par[p]) \in PType /\ CloseParallel(par[p]).sending = par[p].sending
    BY <2>1 DEF CloseParallel, PType
  <2>3. ParallelOk(CloseParallel(par[p]))
    BY <1>2, <2>2 DEF ParallelOk
  <2> QED BY <1>2, <2>3
<1> HIDE DEF r
<1> QED BY <1>1, <1>2, <1>3, <1>4, ParCalmStep, ErrorFinishedStep

LEMMA PairAlone ==
    ASSUME NEW e, NEW f
    PROVE  <<e>> \o (<<f>> \o <<>>) = <<e, f>>
<1>1. <<f>> \in Seq({f})
  OBVIOUS
<1>2. <<f>> \o <<>> = <<f>>
  BY <1>1, ConcatEmptySeq
<1>3. <<e>> \o <<f>> = <<e, f>>
  BY Pair
<1> QED BY <1>2, <1>3

\* Without the entry i every entry after the first comes from one after the first.
LEMMA Removed ==
    ASSUME NEW S, NEW q \in Seq(S), NEW i \in DOMAIN q
    PROVE  /\ RemoveAt(q, i) \in Seq(S)
           /\ \A j \in DOMAIN RemoveAt(q, i) : j > 1 => \E m \in DOMAIN q : m > 1 /\ RemoveAt(q, i)[j] = q[m]
<1> DEFINE l == SubSeq(q, 1, i - 1)
           r == SubSeq(q, i + 1, Len(q))
<1>1. DOMAIN q = 1..Len(q) /\ Len(q) \in Nat /\ i \in 1..Len(q)
  OBVIOUS
<1>2. l \in Seq(S) /\ Len(l) = i - 1 /\ \A x \in 1..(i - 1) : l[x] = q[x]
  <2>1. i - 1 \in 0..Len(q)
    BY <1>1
  <2> QED BY <2>1, SubSeqParts
<1>3. r \in Seq(S) /\ Len(r) = Len(q) - i /\ \A x \in 1..(Len(q) - i) : r[x] = q[i + x]
  <2>1. i \in 0..Len(q)
    BY <1>1
  <2> QED BY <2>1, SubSeqParts
<1> HIDE DEF l, r
<1>4. /\ l \o r \in Seq(S) /\ Len(l \o r) = Len(q) - 1
      /\ \A x \in 1..(i - 1) : (l \o r)[x] = l[x]
      /\ \A x \in i..(Len(q) - 1) : (l \o r)[x] = r[x - (i - 1)]
  <2> DEFINE s == l \o r
  <2>1. /\ s \in Seq(S) /\ Len(s) = Len(l) + Len(r)
        /\ \A x \in 1..(Len(l) + Len(r)) : s[x] = IF x <= Len(l) THEN l[x] ELSE r[x - Len(l)]
    BY <1>2, <1>3, ConcatProperties
  <2> HIDE DEF s
  <2>2. Len(s) = Len(q) - 1
    BY <1>1, <1>2, <1>3, <2>1
  <2>3. ASSUME NEW x \in 1..(i - 1) PROVE s[x] = l[x]
    BY <1>1, <1>2, <1>3, <2>1
  <2>4. ASSUME NEW x \in i..(Len(q) - 1) PROVE s[x] = r[x - (i - 1)]
    BY <1>1, <1>2, <1>3, <2>1
  <2> QED BY <2>1, <2>2, <2>3, <2>4 DEF s
<1>5. ASSUME NEW j \in DOMAIN (l \o r), j > 1 PROVE \E m \in DOMAIN q : m > 1 /\ (l \o r)[j] = q[m]
  <2>1. j \in 1..(Len(q) - 1)
    BY <1>4
  <2>2. CASE j < i
    <3>1. j \in 1..(i - 1) /\ j \in DOMAIN q
      BY <1>1, <2>1, <2>2
    <3>2. (l \o r)[j] = q[j]
      BY <1>2, <1>4, <3>1
    <3> QED BY <1>5, <3>1, <3>2
  <2>3. CASE j >= i
    <3>1. j \in i..(Len(q) - 1) /\ j - (i - 1) \in 1..(Len(q) - i) /\ i + (j - (i - 1)) = j + 1
      BY <1>1, <2>1, <2>3
    <3>2. (l \o r)[j] = q[j + 1]
      BY <1>3, <1>4, <3>1
    <3>3. j + 1 \in DOMAIN q /\ j + 1 > 1
      BY <1>1, <2>1
    <3> QED BY <3>2, <3>3
  <2> QED BY <1>1, <2>1, <2>2, <2>3
<1>6. RemoveAt(q, i) = l \o r
  BY DEF RemoveAt, l, r
<1> QED BY <1>4, <1>5, <1>6

LEMMA ParallelInputStep ==
    ASSUME IInv, NEW p \in DOMAIN par, ParallelInput(p)
    PROVE  IInv'
<1> DEFINE r == par[p]
<1>1. UNCHANGED <<frame, net, idle, ary>>
  BY DEF ParallelInput
<1>2. ParallelOk(r) /\ r \in PType /\ r.recving \in Seq(ActId) /\ r.sent \in Seq(ActId)
  BY DEF IInv, ParallelOk, PType
<1>3. CASE ErrorFinished(p, r, <<>>)
  BY <1>1, <1>2, <1>3, Empty, ErrorFinishedStep
<1>4. CASE \E x \in Range(r.sent) :
              par' = [par EXCEPT ![p].sent = RemoveFirst(@, x), ![p].timeouts = 0] /\ RecvFinished(p, x)
  <2>1. PICK x \in Range(r.sent) :
           par' = [par EXCEPT ![p].sent = RemoveFirst(@, x), ![p].timeouts = 0] /\ RecvFinished(p, x)
    BY <1>4
  <2> DEFINE l == RemoveFirst(r.sent, x)
             n == [r EXCEPT !.sent = l, !.timeouts = 0]
  <2>2. par' = [par EXCEPT ![p] = n]
    BY <2>1
  <2>3. l \in Seq(ActId)
    BY <1>2, FirstRemoved
  <2> HIDE DEF l, r
  <2>4. n \in PType /\ n.sending = r.sending
    BY <1>2, <2>3 DEF PType
  <2> HIDE DEF n
  <2>5. ParallelOk(n)
    BY <1>2, <2>4 DEF ParallelOk
  <2>6. Calm(stack', net, Len(par), conf.plan)
    <3> DEFINE e == FinishedOf(x, None, x)
               f == EraseOf(p, x)
    <3>1. CASE x \notin Range(r.recving)
      <4>1. stack' = <<>>
        BY <2>1, <3>1 DEF RecvFinished, r
      <4> QED BY <4>1, Empty
    <3>2. CASE x \in Range(r.recving)
      <4>1. stack' = <<e, f>>
        BY <2>1, <3>2 DEF RecvFinished, r
      <4>2. x \in ActId
        BY <1>2, <3>2 DEF Range
      <4>3. Calm(<<f>> \o <<>>, net, Len(par), conf.plan)
        BY <4>2, Empty, ParallelUnder
      <4>4. Calm(<<e>> \o (<<f>> \o <<>>), net, Len(par), conf.plan)
        <5> HIDE DEF f
        <5> QED BY <4>2, <4>3, FinishedUnder
      <4> HIDE DEF e, f
      <4>5. <<e>> \o (<<f>> \o <<>>) = <<e, f>>
        BY PairAlone
      <4> QED BY <4>1, <4>4, <4>5
    <3> QED BY <3>1, <3>2
  <2> QED BY <1>1, <2>2, <2>5, <2>6, ParCalmStep
<1> QED BY <1>3, <1>4 DEF ParallelInput, RecvAll

LEMMA ParallelOutputStep ==
    ASSUME IInv, NEW p \in DOMAIN par, ParallelOutput(p)
    PROVE  IInv'
<1> DEFINE r == par[p]
           n == [r EXCEPT !.conn = "CONNECTED"]
<1>1. UNCHANGED <<frame, net, idle, ary>>
  BY DEF ParallelOutput
<1>2. ParallelOk(r) /\ r \in PType
  BY DEF IInv, ParallelOk
<1>3. ErrorFinished(p, r, <<>>) \/ SendAll(p, n, <<>>)
  BY DEF ParallelOutput
<1> HIDE DEF r
<1>4. n \in PType /\ n.sending = r.sending
  BY <1>2 DEF PType
<1> HIDE DEF n
<1>5. ParallelOk(n)
  BY <1>2, <1>4 DEF ParallelOk
<1> QED BY <1>1, <1>2, <1>3, <1>5, Empty, ErrorFinishedStep, SendAllStep

LEMMA ParallelHangupStep ==
    ASSUME IInv, NEW p \in DOMAIN par, ParallelHangup(p)
    PROVE  IInv'
<1>1. UNCHANGED <<frame, net, idle, ary>> /\ ErrorFinished(p, par[p], <<>>)
  BY DEF ParallelHangup
<1>2. ParallelOk(par[p])
  BY DEF IInv
<1> QED BY <1>1, <1>2, Empty, ErrorFinishedStep

LEMMA ParallelTimerStep ==
    ASSUME IInv, NEW p \in DOMAIN par, NEW a \in ActId, ParallelTimer(p, a)
    PROVE  IInv'
<1> DEFINE r == [par[p] EXCEPT !.timeouts = @ + 1]
           e == FinishedOf(a, None, None)
           f == AfterTimeoutOf(p)
<1>1. UNCHANGED <<frame, net, idle, ary>> /\ stack' = <<e, f>>
  BY DEF ParallelTimer
<1>2. ParallelOk(r)
  <2>1. par[p] \in PType /\ ParallelOk(par[p])
    BY DEF IInv, ParallelOk
  <2>2. r \in PType /\ r.sending = par[p].sending
    BY <2>1 DEF PType, Entry
  <2> HIDE DEF r
  <2> QED BY <2>1, <2>2 DEF ParallelOk
<1>3. Calm(stack', net, Len(par), conf.plan)
  <2>1. Calm(<<f>> \o <<>>, net, Len(par), conf.plan)
    BY Empty, ParallelUnder
  <2>2. Calm(<<e>> \o (<<f>> \o <<>>), net, Len(par), conf.plan)
    <3> HIDE DEF f
    <3> QED BY <2>1, FinishedUnder
  <2> HIDE DEF e, f
  <2>3. <<e>> \o (<<f>> \o <<>>) = <<e, f>>
    BY PairAlone
  <2> QED BY <1>1, <2>2, <2>3
<1>4. \/ par' = [par EXCEPT ![p] = [r EXCEPT !.recving = RemoveFirst(@, a)]]
      \/ r.sending # <<>> /\ par' = [par EXCEPT ![p] = CopyToPending(r)]
      \/ \E i \in DOMAIN r.sending : par' = [par EXCEPT ![p] = [r EXCEPT !.sending = RemoveAt(@, i)]]
  <2>1. ASSUME NEW i \in {j \in DOMAIN r.sending : r.sending[j].ac = a},
               par' = [par EXCEPT ![p] = IF i = 1 /\ r.sending[1].part THEN CopyToPending(r)
                                         ELSE [r EXCEPT !.sending = RemoveAt(@, i)]]
        PROVE  \/ r.sending # <<>> /\ par' = [par EXCEPT ![p] = CopyToPending(r)]
               \/ \E j \in DOMAIN r.sending : par' = [par EXCEPT ![p] = [r EXCEPT !.sending = RemoveAt(@, j)]]
    <3> HIDE DEF r
    <3>1. r.sending # <<>>
      OBVIOUS
    <3>2. i \in DOMAIN r.sending
      OBVIOUS
    <3>3. CASE i = 1 /\ r.sending[1].part
      BY <2>1, <3>1, <3>3
    <3>4. CASE ~(i = 1 /\ r.sending[1].part)
      BY <2>1, <3>2, <3>4
    <3> QED BY <3>3, <3>4
  <2>2. \/ par' = [par EXCEPT ![p] = [r EXCEPT !.recving = RemoveFirst(@, a)]]
        \/ \E i \in {j \in DOMAIN r.sending : r.sending[j].ac = a} :
              par' = [par EXCEPT ![p] = IF i = 1 /\ r.sending[1].part THEN CopyToPending(r)
                                        ELSE [r EXCEPT !.sending = RemoveAt(@, i)]]
    BY DEF ParallelTimer
  <2> HIDE DEF r
  <2> QED BY <2>1, <2>2
<1> HIDE DEF r, e, f
<1> DEFINE q == r.sending
<1>5. /\ r \in PType /\ r.recving \in Seq(ActId) /\ q \in Seq(Entry)
      /\ \A i \in DOMAIN q : i > 1 => q[i].ac # None
  BY <1>2 DEF ParallelOk, PType, Entry
<1>6. CASE par' = [par EXCEPT ![p] = [r EXCEPT !.recving = RemoveFirst(@, a)]]
  <2> DEFINE l == RemoveFirst(r.recving, a)
             n == [r EXCEPT !.recving = l]
  <2>1. par' = [par EXCEPT ![p] = n]
    BY <1>6
  <2>2. l \in Seq(ActId)
    BY <1>5, FirstRemoved
  <2> HIDE DEF l
  <2>3. ParallelOk(n)
    BY <1>2, <2>2, FewerRecving
  <2> HIDE DEF n
  <2> QED BY <1>1, <1>3, <2>1, <2>3, ParCalmStep
<1>7. ASSUME NEW n, NEW l \in Seq(Entry), n = [r EXCEPT !.sending = l],
             \A i \in DOMAIN l : i > 1 => l[i].ac # None,
             par' = [par EXCEPT ![p] = n]
      PROVE  IInv'
  <2>1. n \in PType /\ n.sending = l
    BY <1>5, <1>7 DEF PType, Entry
  <2>2. ParallelOk(n)
    BY <1>7, <2>1 DEF ParallelOk
  <2> QED BY <1>1, <1>3, <1>7, <2>2, ParCalmStep
<1>8. CASE q # <<>> /\ par' = [par EXCEPT ![p] = CopyToPending(r)]
  <2> DEFINE k == [q[1] EXCEPT !.ac = None, !.part = FALSE]
             l == [q EXCEPT ![1] = k]
             n == [r EXCEPT !.sending = l]
  <2>1. 1 \in DOMAIN q /\ q[1] \in Entry
    BY <1>5, <1>8, Pop
  <2>2. k \in Entry
    BY <2>1 DEF Entry
  <2>3. CopyToPending(r) = n
    BY <1>5 DEF CopyToPending, PType
  <2> HIDE DEF k, q
  <2>4. l \in Seq(Entry) /\ \A i \in DOMAIN l : i > 1 => l[i].ac # None
    BY <1>5, <2>1, <2>2
  <2> HIDE DEF l
  <2>5. par' = [par EXCEPT ![p] = n]
    BY <1>8, <2>3
  <2> QED BY <1>7, <2>4, <2>5
<1>9. CASE \E i \in DOMAIN q : par' = [par EXCEPT ![p] = [r EXCEPT !.sending = RemoveAt(@, i)]]
  <2>1. PICK i \in DOMAIN q : par' = [par EXCEPT ![p] = [r EXCEPT !.sending = RemoveAt(@, i)]]
    BY <1>9
  <2> DEFINE l == RemoveAt(q, i)
             n == [r EXCEPT !.sending = l]
  <2>2. par' = [par EXCEPT ![p] = n]
    BY <2>1
  <2> HIDE DEF q
  <2>3. l \in Seq(Entry) /\ \A j \in DOMAIN l : j > 1 => \E m \in DOMAIN q : m > 1 /\ l[j] = q[m]
    BY <1>5, Removed
  <2> HIDE DEF l
  <2>4. \A j \in DOMAIN l : j > 1 => l[j].ac # None
    BY <1>5, <2>3
  <2> QED BY <1>7, <2>2, <2>3, <2>4
<1> QED BY <1>4, <1>6, <1>8, <1>9

----------------------------------------------------------------------------
(* CAsyncFrame *)

\* A step of the frame that leaves the connection objects alone.
LEMMA FrameStep ==
    ASSUME IInv, UNCHANGED <<conf, net, ary, par>>, DOMAIN msg' \subseteq Nat,
           DOMAIN sets' \subseteq Nat \X DOMAIN conf.plan,
           idle' \subseteq DOMAIN net, \A h \in idle' : net[h].type # "LongWithPending",
           Calm(stack', net, Len(par), conf.plan)
    PROVE  IInv'
<1>1. Sound(stack', net, Len(par), conf.plan)
  BY CalmSound
<1>2. conf' = conf /\ net' = net /\ ary' = ary /\ par' = par
  OBVIOUS
<1> QED BY <1>1, <1>2 DEF IInv

LEMMA PlanType ==
    ASSUME IInv
    PROVE  /\ conf.plan \in Seq(Seq(ActionTypes)) /\ DOMAIN conf.plan = 1..Len(conf.plan) /\ Len(conf.plan) \in Nat
           /\ \A s \in DOMAIN conf.plan : DOMAIN conf.plan[s] \subseteq Nat \ {0}
           /\ \A s \in DOMAIN conf.plan : \A i \in DOMAIN conf.plan[s] : conf.plan[s][i] \in ActionTypes
<1> DEFINE P == conf.plan
<1>1. P \in Seq(Seq(ActionTypes))
  BY AsyncAssumption DEF IInv
<1> HIDE DEF P
<1>2. \A s \in DOMAIN P : P[s] \in Seq(ActionTypes)
  BY <1>1
<1>3. \A s \in DOMAIN P : DOMAIN P[s] \subseteq Nat \ {0} /\ \A i \in DOMAIN P[s] : P[s][i] \in ActionTypes
  <2> SUFFICES ASSUME NEW s \in DOMAIN P
               PROVE  DOMAIN P[s] \subseteq Nat \ {0} /\ \A i \in DOMAIN P[s] : P[s][i] \in ActionTypes
    OBVIOUS
  <2> DEFINE Q == P[s]
  <2>1. Q \in Seq(ActionTypes)
    BY <1>2
  <2> HIDE DEF Q
  <2>2. DOMAIN Q \subseteq Nat \ {0} /\ \A i \in DOMAIN Q : Q[i] \in ActionTypes
    BY <2>1
  <2> QED BY <2>2 DEF Q
<1>4. DOMAIN P = 1..Len(P) /\ Len(P) \in Nat
  BY <1>1
<1> QED BY <1>1, <1>3, <1>4 DEF P

LEMMA ActionsOf ==
    ASSUME IInv, NEW as \in Nat \X DOMAIN conf.plan
    PROVE  /\ Actions(as) \subseteq ActId
           /\ \A a \in Actions(as) : a[2] = as[2] /\ a[3] \in DOMAIN conf.plan[a[2]]
<1> SUFFICES ASSUME NEW a \in Actions(as)
             PROVE  a \in ActId /\ a[2] = as[2] /\ a[3] \in DOMAIN conf.plan[a[2]]
  OBVIOUS
<1>1. PICK i \in DOMAIN conf.plan[as[2]] : a = <<as[1], as[2], i>>
  BY DEF Actions
<1>2. as[1] \in Nat /\ as[2] \in DOMAIN conf.plan
  OBVIOUS
<1>3. as[2] \in Nat \ {0} /\ i \in Nat
  <2>1. as[2] \in 1..Len(conf.plan) /\ Len(conf.plan) \in Nat
    BY <1>2, PlanType
  <2>2. DOMAIN conf.plan[as[2]] \subseteq Nat \ {0}
    BY <1>2, PlanType
  <2>3. as[2] \in Nat \ {0}
    <3>1. \A s \in 1..Len(conf.plan) : s \in Nat \ {0}
      OBVIOUS
    <3> QED BY <2>1, <3>1
  <2>4. i \in Nat
    BY <2>2
  <2> QED BY <2>3, <2>4
<1>4. a[2] = as[2] /\ a[3] = i
  BY <1>1
<1> QED BY <1>1, <1>2, <1>3, <1>4 DEF ActId

LEMMA ProcessStep ==
    ASSUME IInv, NEW m \in Msgs, Process(m)
    PROVE  IInv'
<1>1. UNCHANGED <<conf, net, ary, par>> /\ idle' = idle /\ sets' = sets /\ stack = <<>>
  BY DEF Process
<1>2. DOMAIN msg' = DOMAIN msg /\ m \in Nat
  BY DEF Process, IInv, Msgs
<1>3. Calm(stack', net, Len(par), conf.plan)
  <2>1. CASE UNCHANGED stack
    BY <1>1, <2>1, Empty
  <2>2. CASE \E s \in DOMAIN conf.plan : stack' = <<HandleEncodeOf(m, s)>>
    <3>1. PICK s \in DOMAIN conf.plan : stack' = <<HandleEncodeOf(m, s)>>
      BY <2>2
    <3> DEFINE f == HandleEncodeOf(m, s)
    <3>2. f \in EncodeFrame(conf.plan) /\ f.at = "HandleEncode"
      BY <1>2 DEF HandleEncodeOf, EncodeFrame
    <3> HIDE DEF f
    <3>3. Under(f, <<>>, net, Len(par), conf.plan)
      BY <3>2 DEF Under, CalmFrame
    <3>4. Calm(<<f>> \o <<>>, net, Len(par), conf.plan)
      BY <3>3, Empty, CalmPush
    <3>5. <<f>> \o <<>> = <<f>>
      <4>1. <<f>> \in Seq({f})
        OBVIOUS
      <4> QED BY <4>1, ConcatEmptySeq
    <3> QED BY <3>1, <3>4, <3>5 DEF f
  <2> QED BY <2>1, <2>2 DEF Process
<1> QED BY <1>1, <1>2, <1>3, FrameStep DEF IInv

LEMMA ProcessUnder ==
    ASSUME IInv, NEW c, Calm(c, net, Len(par), conf.plan), NEW as \in Nat \X (Nat \ {0})
    PROVE  Calm(<<HandleProcessOf(as)>> \o c, net, Len(par), conf.plan)
<1> DEFINE f == HandleProcessOf(as)
<1>1. f \in ProcessFrame /\ f.at = "HandleProcess"
  BY DEF HandleProcessOf, ProcessFrame
<1> HIDE DEF f
<1>2. Under(f, c, net, Len(par), conf.plan)
  BY <1>1 DEF Under, CalmFrame, First
<1>3. Calm(<<f>> \o c, net, Len(par), conf.plan)
  BY <1>2, CalmPush
<1> QED BY <1>3 DEF f

LEMMA HandleEncodeStep ==
    ASSUME IInv, HandleEncode
    PROVE  IInv'
<1> DEFINE f == Head(stack)
           c == Tail(stack)
           as == <<f.m, f.s>>
<1>1. Running("HandleEncode") /\ UNCHANGED <<conf, net, ary, par>> /\ idle' = idle
  BY DEF HandleEncode
<1>2. f.at = "HandleEncode" /\ Calm(c, net, Len(par), conf.plan) /\ Under(f, c, net, Len(par), conf.plan)
  BY <1>1, RunningCall
<1>3. f \in EncodeFrame(conf.plan)
  BY <1>2, FrameKinds DEF Under
<1>4. f.m \in Nat /\ f.s \in DOMAIN conf.plan /\ as \in Nat \X DOMAIN conf.plan /\ as \in Nat \X (Nat \ {0})
  <2>1. f.m \in Nat /\ f.s \in DOMAIN conf.plan
    BY <1>3 DEF EncodeFrame
  <2> QED BY <2>1, PlanType
<1>5. f.s = 1 => c = <<>>
  BY <1>2 DEF Under, First
<1>6. DOMAIN msg \subseteq Nat /\ DOMAIN sets \subseteq Nat \X DOMAIN conf.plan
      /\ idle \subseteq DOMAIN net /\ \A h \in idle : net[h].type # "LongWithPending"
  BY DEF IInv
<1>7. CASE Fini(f.m) /\ UNCHANGED sets
  <2>1. DOMAIN msg' = DOMAIN msg /\ stack' = c /\ sets' = sets
    BY <1>7 DEF Fini
  <2> HIDE DEF c
  <2> QED BY <1>1, <1>2, <1>6, <2>1, FrameStep
<1>8. CASE /\ sets' = [x \in DOMAIN sets \cup {as} |-> IF x = as THEN 0 ELSE sets[x]]
           /\ UNCHANGED <<msg, count>>
           /\ \/ stack' = <<HandleProcessOf(as)>> \o c
              \/ \E late \in BOOLEAN : stack' = <<StartActionOf(as, Actions(as), late)>> \o c
  <2>1. msg' = msg /\ DOMAIN sets' = DOMAIN sets \cup {as}
    BY <1>8
  <2>2. as[2] = f.s
    OBVIOUS
  <2> HIDE DEF as, c, f
  <2>3. ASSUME NEW late \in BOOLEAN
        PROVE  Calm(<<StartActionOf(as, Actions(as), late)>> \o c, net, Len(par), conf.plan)
    <3> DEFINE g == StartActionOf(as, Actions(as), late)
    <3>1. /\ Actions(as) \subseteq ActId
          /\ \A a \in Actions(as) : a[2] = as[2] /\ a[3] \in DOMAIN conf.plan[a[2]]
      BY <1>4, ActionsOf
    <3>2. g \in StartFrame(conf.plan) /\ g.at = "StartAction" /\ g.as = as
      BY <1>4, <3>1 DEF StartActionOf, StartFrame
    <3> HIDE DEF g
    <3>3. First(g) => c = <<>>
      BY <1>5, <2>2, <3>2 DEF First
    <3>4. Under(g, c, net, Len(par), conf.plan)
      BY <3>2, <3>3 DEF Under, CalmFrame
    <3>5. Calm(<<g>> \o c, net, Len(par), conf.plan)
      BY <1>2, <3>4, CalmPush
    <3> QED BY <3>5 DEF g
  <2>4. Calm(<<HandleProcessOf(as)>> \o c, net, Len(par), conf.plan)
    BY <1>2, <1>4, ProcessUnder
  <2>5. Calm(stack', net, Len(par), conf.plan)
    BY <1>8, <2>3, <2>4
  <2>6. DOMAIN sets' \subseteq Nat \X DOMAIN conf.plan
    BY <1>4, <1>6, <2>1
  <2> QED BY <1>1, <1>6, <2>1, <2>5, <2>6, FrameStep
<1> QED BY <1>7, <1>8 DEF HandleEncode

LEMMA HandleProcessStep ==
    ASSUME IInv, HandleProcess
    PROVE  IInv'
<1> DEFINE as == Head(stack).as
           c == Tail(stack)
<1>1. Running("HandleProcess") /\ UNCHANGED <<conf, net, ary, par>> /\ idle' = idle
  BY DEF HandleProcess
<1>2. /\ Head(stack).at = "HandleProcess" /\ Calm(c, net, Len(par), conf.plan)
      /\ Under(Head(stack), c, net, Len(par), conf.plan)
  BY <1>1, RunningCall
<1>3. Head(stack) \in ProcessFrame
  BY <1>2, FrameKinds DEF Under
<1>4. as[1] \in Nat /\ as[2] \in Nat \ {0}
  BY <1>3 DEF ProcessFrame
<1>5. DOMAIN msg \subseteq Nat /\ DOMAIN sets \subseteq Nat \X DOMAIN conf.plan
      /\ idle \subseteq DOMAIN net /\ \A h \in idle : net[h].type # "LongWithPending"
  BY DEF IInv
<1>6. DOMAIN sets' \subseteq DOMAIN sets
  BY DEF HandleProcess
<1>7. DOMAIN sets' \subseteq Nat \X DOMAIN conf.plan
  BY <1>5, <1>6
<1>8. CASE Fini(as[1])
  <2>1. DOMAIN msg' = DOMAIN msg /\ stack' = c
    BY <1>8 DEF Fini
  <2> HIDE DEF c
  <2> QED BY <1>1, <1>2, <1>5, <1>7, <2>1, FrameStep
<1>9. CASE /\ \E s \in (as[2] + 1)..Len(conf.plan) : stack' = <<HandleEncodeOf(as[1], s)>> \o c
           /\ UNCHANGED <<msg, count>>
  <2>1. PICK s \in (as[2] + 1)..Len(conf.plan) : stack' = <<HandleEncodeOf(as[1], s)>> \o c
    BY <1>9
  <2> DEFINE f == HandleEncodeOf(as[1], s)
  <2>2. s \in DOMAIN conf.plan /\ s # 1
    BY <1>4, PlanType
  <2> HIDE DEF as, c
  <2>3. f \in EncodeFrame(conf.plan) /\ f.at = "HandleEncode" /\ f.s = s
    BY <1>4, <2>2 DEF HandleEncodeOf, EncodeFrame
  <2> HIDE DEF f
  <2>4. Under(f, c, net, Len(par), conf.plan)
    BY <2>2, <2>3 DEF Under, CalmFrame, First
  <2>5. Calm(<<f>> \o c, net, Len(par), conf.plan)
    BY <1>2, <2>4, CalmPush
  <2>6. Calm(stack', net, Len(par), conf.plan) /\ msg' = msg
    BY <1>9, <2>1, <2>5 DEF f
  <2> QED BY <1>1, <1>5, <1>7, <2>6, FrameStep
<1> QED BY <1>8, <1>9 DEF HandleProcess

LEMMA HandleFinishedStep ==
    ASSUME IInv, HandleFinished
    PROVE  IInv'
<1> DEFINE f == Head(stack)
           c == Tail(stack)
           as == SetOf(f.a)
<1>1. Running("HandleFinished") /\ UNCHANGED <<conf, net, ary, par>> /\ msg' = msg
  BY DEF HandleFinished
<1>2. f.at = "HandleFinished" /\ Calm(c, net, Len(par), conf.plan) /\ Under(f, c, net, Len(par), conf.plan)
  BY <1>1, RunningCall
<1>3. f \in FinishedFrame(DOMAIN net)
  BY <1>2, FrameKinds DEF Under
<1>4. f.a \in ActId /\ f.h \in DOMAIN net \cup {None}
  BY <1>3 DEF FinishedFrame
<1>5. as \in Nat \X (Nat \ {0})
  BY <1>4, NewAction DEF SetOf
<1>6. idle' = RecycleHandler(f.h) /\ DOMAIN sets' = DOMAIN sets
  BY DEF HandleFinished
<1>7. stack' = <<HandleProcessOf(as)>> \o c \/ stack' = <<>> \o c
  BY DEF HandleFinished
<1>8. Calm(stack', net, Len(par), conf.plan)
  <2> HIDE DEF as, c
  <2>1. Calm(<<HandleProcessOf(as)>> \o c, net, Len(par), conf.plan)
    BY <1>2, <1>5, ProcessUnder
  <2>2. <<>> \o c = c
    <3>1. c \in Seq(CalmFrame(DOMAIN net, Len(par), conf.plan))
      BY <1>2 DEF Calm
    <3> QED BY <3>1, ConcatEmptySeq
  <2> QED BY <1>2, <1>7, <2>1, <2>2
<1>9. idle' \subseteq DOMAIN net /\ \A h \in idle' : net[h].type # "LongWithPending"
  BY <1>4, <1>6 DEF RecycleHandler, IInv
<1> QED BY <1>1, <1>6, <1>8, <1>9, FrameStep DEF IInv

LEMMA CheckIdleHanderStep ==
    ASSUME IInv, CheckIdleHander
    PROVE  IInv'
<1> DEFINE old == {h \in DOMAIN net \cap (idle \cup Range(ary)) : net[h].proc = "IDLE_RECYCLE"}
<1>1. /\ stack = <<>> /\ net' = [h \in DOMAIN net \ old |-> net[h]] /\ idle' = idle \ old
      /\ ary' = [i \in DOMAIN ary |-> IF ary[i] \in old THEN None ELSE ary[i]]
      /\ UNCHANGED <<frame, par, stack>>
  BY DEF CheckIdleHander
<1> HIDE DEF old
<1>2. DOMAIN net' = DOMAIN net \ old /\ \A h \in DOMAIN net' : net'[h] = net[h]
  BY <1>1
<1>3. net' = [h \in DOMAIN net' |-> net'[h]] /\ DOMAIN net' \subseteq Nat /\ NetOk(net')
  BY <1>1, <1>2 DEF IInv, NetOk
<1>4. idle' \subseteq DOMAIN net' /\ \A h \in idle' : net'[h].type # "LongWithPending"
  BY <1>1, <1>2 DEF IInv
<1>5. ary' \in [1..MaxPending -> DOMAIN net' \cup {None}]
  BY <1>1, <1>2 DEF IInv
<1>6. Sound(stack', net', Len(par), conf.plan)
  <2>1. stack' = <<>> /\ Calm(<<>>, net', Len(par), conf.plan)
    BY <1>1, CalmEmpty
  <2> QED BY <2>1, CalmSound
<1>7. conf' = conf /\ msg' = msg /\ sets' = sets /\ par' = par
  BY <1>1 DEF frame
<1> QED BY <1>3, <1>4, <1>5, <1>6, <1>7 DEF IInv

----------------------------------------------------------------------------
(* The start of the actions of a state *)

LEMMA NewHandlerOk ==
    ASSUME NEW type \in {"Short", "Long", "LongWithPending"}
    PROVE  HandlerOk(NewHandler(type)) /\ NewHandler(type).type = type /\ NewHandler(type).action = None
<1>1. <<>> \in Seq([a : ActId, exp : BOOLEAN]) /\ <<>> \in Seq(ActId)
  OBVIOUS
<1>2. NewHandler(type) \in HType
  BY <1>1 DEF NewHandler, HType
<1> QED BY <1>2 DEF NewHandler, HandlerOk

\* The tables hold live objects, and those without waiting actions are never
\* mistaken for the others.
TablesOk(g) ==
    /\ g.h \in DOMAIN g.net /\ DOMAIN net \subseteq DOMAIN g.net /\ DOMAIN g.net \subseteq Nat
    /\ g.net = [x \in DOMAIN g.net |-> g.net[x]] /\ NetOk(g.net)
    /\ \A x \in DOMAIN net : g.net[x] = net[x]
    /\ g.idle \subseteq DOMAIN net /\ \A x \in g.idle : net[x].type # "LongWithPending"
    /\ g.ary \in [1..MaxPending -> DOMAIN g.net \cup {None}]

LEMMA GotHandler ==
    ASSUME IInv, NEW type \in {"Short", "Long", "LongWithPending"}, NEW g \in GetHandler(type)
    PROVE  TablesOk(g) /\ (type # "LongWithPending" => g.net[g.h].type # "LongWithPending")
<1> DEFINE slots == IF \A i \in DOMAIN ary : ary[i] = None THEN {1} ELSE DOMAIN ary
<1>1. slots \subseteq 1..MaxPending /\ DOMAIN ary = 1..MaxPending
  <2>1. ary \in [1..MaxPending -> DOMAIN net \cup {None}] /\ MaxPending \in Nat \ {0}
    BY AsyncAssumption DEF IInv
  <2> QED BY <2>1
<1>2. ASSUME NEW h \in NextHandler
      PROVE  /\ h \in DOMAIN AddHandler(h, type) /\ DOMAIN net \subseteq DOMAIN AddHandler(h, type) /\ DOMAIN AddHandler(h, type) \subseteq Nat
             /\ AddHandler(h, type) = [x \in DOMAIN AddHandler(h, type) |-> AddHandler(h, type)[x]] /\ NetOk(AddHandler(h, type))
             /\ \A x \in DOMAIN net : AddHandler(h, type)[x] = net[x]
             /\ AddHandler(h, type)[h].type = type
             /\ DOMAIN AddHandler(h, type) = DOMAIN net \cup {h}
  <2>1. h \in Nat /\ h \notin DOMAIN net
    BY AsyncAssumption DEF NextHandler
  <2>2. DOMAIN net \subseteq Nat /\ NetOk(net)
    BY DEF IInv
  <2>3. DOMAIN AddHandler(h, type) = DOMAIN net \cup {h} /\ AddHandler(h, type)[h] = NewHandler(type)
    BY DEF AddHandler
  <2>4. \A x \in DOMAIN net : AddHandler(h, type)[x] = net[x]
    BY <2>1 DEF AddHandler
  <2>5. AddHandler(h, type) = [x \in DOMAIN AddHandler(h, type) |-> AddHandler(h, type)[x]]
    BY DEF AddHandler
  <2>6. NetOk(AddHandler(h, type)) /\ AddHandler(h, type)[h].type = type
    BY <2>2, <2>3, <2>4, NewHandlerOk DEF NetOk
  <2> QED BY <2>1, <2>2, <2>3, <2>4, <2>5, <2>6
<1>3. /\ net = [x \in DOMAIN net |-> net[x]] /\ DOMAIN net \subseteq Nat /\ NetOk(net)
      /\ idle \subseteq DOMAIN net /\ \A h \in idle : net[h].type # "LongWithPending"
      /\ ary \in [1..MaxPending -> DOMAIN net \cup {None}]
  BY DEF IInv
<1>4. \/ /\ type # "LongWithPending"
         /\ \E x \in idle : g = [h |-> x, net |-> net, idle |-> idle \ {x}, ary |-> ary]
      \/ /\ type # "LongWithPending"
         /\ \E h \in NextHandler : g = [h |-> h, net |-> AddHandler(h, type), idle |-> idle, ary |-> ary]
      \/ /\ type = "LongWithPending"
         /\ \E i \in slots : ary[i] # None /\ g = [h |-> ary[i], net |-> net, idle |-> idle, ary |-> ary]
      \/ /\ type = "LongWithPending"
         /\ \E i \in slots, h \in NextHandler :
               g = [h |-> h, net |-> AddHandler(h, type), idle |-> idle, ary |-> [ary EXCEPT ![i] = h]]
  <2>1. g \in IF type # "LongWithPending"
              THEN IF idle # {}
                   THEN {[h |-> x, net |-> net, idle |-> idle \ {x}, ary |-> ary] : x \in idle}
                   ELSE {[h |-> h, net |-> AddHandler(h, type), idle |-> idle, ary |-> ary] : h \in NextHandler}
              ELSE {[h |-> ary[i], net |-> net, idle |-> idle, ary |-> ary] : i \in {j \in slots : ary[j] # None}}
                    \cup {[h |-> h, net |-> AddHandler(h, type), idle |-> idle, ary |-> [ary EXCEPT ![i] = h]] :
                             i \in {j \in slots : ary[j] = None}, h \in NextHandler}
    BY DEF GetHandler
  <2> HIDE DEF slots
  <2> QED BY <2>1
<1> HIDE DEF slots
<1>5. CASE \E x \in idle : g = [h |-> x, net |-> net, idle |-> idle \ {x}, ary |-> ary]
  BY <1>3, <1>5 DEF TablesOk
<1>6. CASE type # "LongWithPending" /\ \E h \in NextHandler : g = [h |-> h, net |-> AddHandler(h, type), idle |-> idle, ary |-> ary]
  <2>1. PICK h \in NextHandler : g = [h |-> h, net |-> AddHandler(h, type), idle |-> idle, ary |-> ary]
    BY <1>6
  <2> DEFINE nt == AddHandler(h, type)
  <2>2. g.h = h /\ g.net = nt /\ g.idle = idle /\ g.ary = ary
    BY <2>1
  <2>3. /\ h \in DOMAIN nt /\ DOMAIN net \subseteq DOMAIN nt /\ DOMAIN nt \subseteq Nat
        /\ nt = [x \in DOMAIN nt |-> nt[x]] /\ NetOk(nt) /\ nt[h].type = type
        /\ \A x \in DOMAIN net : nt[x] = net[x]
    BY <1>2
  <2> HIDE DEF nt
  <2>4. ary \in [1..MaxPending -> DOMAIN nt \cup {None}]
    BY <1>3, <2>3
  <2> QED BY <1>3, <1>6, <2>2, <2>3, <2>4 DEF TablesOk
<1>7. CASE /\ type = "LongWithPending"
           /\ \E i \in slots : ary[i] # None /\ g = [h |-> ary[i], net |-> net, idle |-> idle, ary |-> ary]
  <2>1. PICK i \in slots : ary[i] # None /\ g = [h |-> ary[i], net |-> net, idle |-> idle, ary |-> ary]
    BY <1>7
  <2>2. ary[i] \in DOMAIN net
    BY <1>1, <1>3, <2>1
  <2>3. g.h = ary[i] /\ g.net = net /\ g.idle = idle /\ g.ary = ary
    BY <2>1
  <2> QED BY <1>3, <1>7, <2>2, <2>3 DEF TablesOk
<1>8. CASE /\ type = "LongWithPending"
           /\ \E i \in slots, h \in NextHandler :
                 g = [h |-> h, net |-> AddHandler(h, type), idle |-> idle, ary |-> [ary EXCEPT ![i] = h]]
  <2>1. PICK i \in slots, h \in NextHandler :
           g = [h |-> h, net |-> AddHandler(h, type), idle |-> idle, ary |-> [ary EXCEPT ![i] = h]]
    BY <1>8
  <2> DEFINE nt == AddHandler(h, type)
             ay == [ary EXCEPT ![i] = h]
  <2>2. g.h = h /\ g.net = nt /\ g.idle = idle /\ g.ary = ay
    BY <2>1
  <2>3. /\ h \in DOMAIN nt /\ DOMAIN net \subseteq DOMAIN nt /\ DOMAIN nt \subseteq Nat
        /\ nt = [x \in DOMAIN nt |-> nt[x]] /\ NetOk(nt)
        /\ \A x \in DOMAIN net : nt[x] = net[x]
    BY <1>2
  <2> HIDE DEF nt
  <2>4. ay \in [1..MaxPending -> DOMAIN nt \cup {None}]
    BY <1>3, <2>3
  <2> HIDE DEF ay
  <2> QED BY <1>3, <1>8, <2>2, <2>3, <2>4 DEF TablesOk
<1> QED BY <1>4, <1>5, <1>6, <1>7, <1>8

\* An object that a running call is to pop is one with waiting actions.
LEMMA PopInType ==
    ASSUME NEW c, NEW nt, NEW np, NEW plan, Calm(c, nt, np, plan), NEW h, PopIn(c, h)
    PROVE  nt[h].type = "LongWithPending" /\ nt[h].action = None
<1>1. PICK i \in DOMAIN c : c[i].at = "PopFront" /\ c[i].h = h
  BY DEF PopIn
<1> QED BY <1>1 DEF Calm

LEMMA HandleRequestStep ==
    ASSUME IInv, NEW g, TablesOk(g), UNCHANGED <<frame, par>>, idle' = g.idle, ary' = g.ary,
           NEW a \in ActId, NEW c, Calm(c, net, Len(par), conf.plan), ~PopIn(c, g.h),
           HandleRequest(g.h, g.net, a, c)
    PROVE  IInv'
<1> DEFINE ot == g.net
           h == g.h
<1>1. /\ h \in DOMAIN ot /\ DOMAIN net \subseteq DOMAIN ot /\ DOMAIN ot \subseteq Nat
      /\ ot = [x \in DOMAIN ot |-> ot[x]] /\ NetOk(ot) /\ \A x \in DOMAIN net : ot[x] = net[x]
      /\ g.idle \subseteq DOMAIN net /\ \A x \in g.idle : net[x].type # "LongWithPending"
      /\ g.ary \in [1..MaxPending -> DOMAIN ot \cup {None}]
  BY DEF TablesOk
<1>2. \/ /\ ot[h].action = None /\ net' = [ot EXCEPT ![h].action = a]
         /\ stack' = <<StartProcessOf(h)>> \o c
      \/ /\ ot[h].action # None /\ stack' = c
         /\ net' = [ot EXCEPT ![h].pend = Append(@, [a |-> a, exp |-> FALSE])]
  BY DEF HandleRequest
<1> HIDE DEF ot, h
<1>3. Len(par) \in Nat
  BY DEF IInv
<1>4. Calm(c, ot, Len(par), conf.plan)
  <2>1. \A x \in DOMAIN net : PopIn(c, x) => ot[x].action = None
    BY <1>1, PopInType
  <2>2. \A x \in DOMAIN net : ot[x].type = net[x].type
    BY <1>1
  <2> QED BY <1>1, <1>3, <2>1, <2>2, CalmNet
<1>5. HandlerOk(ot[h]) /\ ot[h] \in HType
  BY <1>1 DEF NetOk, HandlerOk
<1>6. a # None
  BY NewAction
<1>7. ASSUME NEW n, HandlerOk(n), n.type = ot[h].type, net' = [ot EXCEPT ![h] = n],
             Sound(stack', net', Len(par), conf.plan)
      PROVE  IInv'
  <2>1. DOMAIN net' = DOMAIN ot /\ \A x \in DOMAIN ot : net'[x] = IF x = h THEN n ELSE ot[x]
    BY <1>7
  <2>2. net' = [x \in DOMAIN net' |-> net'[x]] /\ DOMAIN net' \subseteq Nat /\ NetOk(net')
    BY <1>1, <1>7, <2>1 DEF NetOk
  <2>3. idle' \subseteq DOMAIN net' /\ \A x \in idle' : net'[x].type # "LongWithPending"
    BY <1>1, <1>7, <2>1
  <2>4. ary' \in [1..MaxPending -> DOMAIN net' \cup {None}]
    BY <1>1, <2>1
  <2>5. conf' = conf /\ msg' = msg /\ sets' = sets /\ par' = par
    BY DEF frame
  <2> QED BY <1>7, <2>2, <2>3, <2>4, <2>5 DEF IInv
<1>8. CASE /\ ot[h].action = None /\ net' = [ot EXCEPT ![h].action = a]
           /\ stack' = <<StartProcessOf(h)>> \o c
  <2> DEFINE n == [ot[h] EXCEPT !.action = a]
             nt == [ot EXCEPT ![h] = n]
             f == StartProcessOf(h)
  <2>1. net' = nt
    BY <1>8
  <2>2. ot[h].sent = <<>>
    BY <1>5, <1>8 DEF HandlerOk
  <2>3. HandlerOk(n) /\ n.type = ot[h].type /\ n.action = a /\ n.sent = <<>>
    BY <1>5, <1>6, <2>2 DEF HandlerOk, HType
  <2> HIDE DEF n
  <2>4. ~PopIn(c, h)
    BY DEF h
  <2>5. Calm(c, nt, Len(par), conf.plan)
    BY <1>1, <1>3, <1>4, <2>3, <2>4, CalmChange
  <2>6. DOMAIN nt = DOMAIN ot /\ nt[h] = n
    BY <1>1
  <2> HIDE DEF nt
  <2>7. f.at = "StartActionProcess" /\ f.h = h /\ f \in TopFrame(DOMAIN nt)
    BY <1>1, <2>6 DEF StartProcessOf, TopFrame
  <2> HIDE DEF f
  <2>8. Top(f, c, nt)
    BY <1>6, <2>3, <2>4, <2>6, <2>7 DEF Top
  <2>9. Sound(stack', net', Len(par), conf.plan)
    BY <1>8, <2>1, <2>5, <2>8, TopSound DEF f
  <2> QED BY <1>7, <2>1, <2>3, <2>9 DEF nt
<1>9. CASE /\ ot[h].action # None /\ stack' = c
           /\ net' = [ot EXCEPT ![h].pend = Append(@, [a |-> a, exp |-> FALSE])]
  <2> DEFINE l == Append(ot[h].pend, [a |-> a, exp |-> FALSE])
             n == [ot[h] EXCEPT !.pend = l]
             nt == [ot EXCEPT ![h] = n]
  <2>1. net' = nt
    BY <1>9
  <2>2. l \in Seq([a : ActId, exp : BOOLEAN])
    <3>1. ot[h].pend \in Seq([a : ActId, exp : BOOLEAN])
      BY <1>5 DEF HType
    <3>2. [a |-> a, exp |-> FALSE] \in [a : ActId, exp : BOOLEAN]
      OBVIOUS
    <3> QED BY <3>1, <3>2, AppendProperties
  <2> HIDE DEF l
  <2>3. HandlerOk(n) /\ n.type = ot[h].type /\ n.action = ot[h].action
    BY <1>5, <2>2 DEF HandlerOk, HType
  <2> HIDE DEF n
  <2>4. Calm(c, nt, Len(par), conf.plan)
    BY <1>1, <1>3, <1>4, <2>3, CalmChange
  <2>5. Sound(stack', net', Len(par), conf.plan)
    BY <1>9, <2>1, <2>4, CalmSound
  <2> QED BY <1>7, <2>1, <2>3, <2>5
<1> QED BY <1>2, <1>8, <1>9

LEMMA ParallelStartStep ==
    ASSUME IInv, NEW g \in GetParallelHandler, par' = g.par, NEW a \in ActId,
           NEW c, Calm(c, net, Len(par), conf.plan),
           stack' = <<ParallelRequestOf(g.p, a, "none")>> \o c, UNCHANGED <<frame, net, idle, ary>>
    PROVE  IInv'
<1>1. par \in Seq(PType) /\ Len(par) \in Nat /\ DOMAIN par = 1..Len(par) /\ \A p \in DOMAIN par : ParallelOk(par[p])
  BY DEF IInv
<1>2. NewParallel \in PType /\ ParallelOk(NewParallel)
  <2>1. <<>> \in Seq(Entry) /\ <<>> \in Seq(ActId)
    OBVIOUS
  <2>2. NewParallel \in PType
    BY <2>1 DEF NewParallel, PType, Entry
  <2>3. NewParallel.sending = <<>>
    BY DEF NewParallel
  <2> QED BY <2>2, <2>3 DEF ParallelOk
<1>3. /\ g.par \in Seq(PType) /\ Len(g.par) \in Nat /\ Len(par) <= Len(g.par) /\ g.p \in 1..Len(g.par)
      /\ \A p \in DOMAIN g.par : ParallelOk(g.par[p])
  <2>1. CASE g = [p |-> Len(par) + 1, par |-> Append(par, NewParallel)]
    <3> DEFINE q == Append(par, NewParallel)
    <3>1. g.p = Len(par) + 1 /\ g.par = q
      BY <2>1
    <3>2. /\ q \in Seq(PType) /\ Len(q) = Len(par) + 1 /\ q[Len(par) + 1] = NewParallel
          /\ \A i \in 1..Len(par) : q[i] = par[i]
      BY <1>1, <1>2, AppendProperties
    <3> HIDE DEF q
    <3>3. \A p \in DOMAIN q : ParallelOk(q[p])
      BY <1>1, <1>2, <3>2
    <3> QED BY <1>1, <3>1, <3>2, <3>3
  <2>2. CASE \E p \in DOMAIN par : g = [p |-> p, par |-> par]
    BY <1>1, <2>2
  <2> QED BY <2>1, <2>2 DEF GetParallelHandler
<1>4. Calm(c, net, Len(g.par), conf.plan)
  <2>1. \A h \in DOMAIN net : PopIn(c, h) => net[h].action = None
    BY PopInType
  <2> QED BY <1>1, <1>3, <2>1, CalmNet
<1> DEFINE f == ParallelRequestOf(g.p, a, "none")
<1>5. f \in RequestFrame(Len(g.par)) /\ f.at = "ParallelRequest"
  BY <1>3 DEF ParallelRequestOf, RequestFrame
<1> HIDE DEF f
<1>6. Under(f, c, net, Len(g.par), conf.plan)
  BY <1>5 DEF Under, First, CalmFrame
<1>7. Calm(<<f>> \o c, net, Len(g.par), conf.plan)
  BY <1>4, <1>6, CalmPush
<1>8. Sound(stack', net, Len(par'), conf.plan)
  BY <1>7, CalmSound DEF f
<1>9. conf' = conf /\ msg' = msg /\ sets' = sets /\ net' = net /\ idle' = idle /\ ary' = ary
  BY DEF frame
<1> QED BY <1>3, <1>8, <1>9 DEF IInv

LEMMA HandleErrorStep ==
    ASSUME IInv, UNCHANGED frame, NEW a \in ActId, NEW c, Calm(c, net, Len(par), conf.plan), HandleError(a, c)
    PROVE  IInv'
<1>1. UNCHANGED <<frame, net, idle, ary, par>> /\ stack' = <<FinishedOf(a, None, None)>> \o Failed(c)
  BY DEF HandleError
<1>2. Calm(Failed(c), net, Len(par), conf.plan)
  BY CalmFailed
<1>3. Calm(<<FinishedOf(a, None, None)>> \o Failed(c), net, Len(par), conf.plan)
  BY <1>2, FinishedUnder
<1>4. Sound(stack', net, Len(par), conf.plan)
  BY <1>1, <1>3, CalmSound
<1> QED BY <1>1, <1>4, Still

LEMMA StartActionStep ==
    ASSUME WaitFirst, IInv, StartAction
    PROVE  IInv'
<1> DEFINE f == Head(stack)
           d == Tail(stack)
<1>1. Running("StartAction") /\ UNCHANGED frame
  BY DEF StartAction
<1>2. f.at = "StartAction" /\ Calm(d, net, Len(par), conf.plan) /\ Under(f, d, net, Len(par), conf.plan)
  BY <1>1, RunningCall
<1>3. f \in StartFrame(conf.plan)
  BY <1>2, FrameKinds DEF Under
<1>4. CASE stack' = d /\ UNCHANGED <<net, idle, ary, par>>
  <2>1. Sound(stack', net, Len(par), conf.plan)
    BY <1>2, <1>4, CalmSound
  <2> QED BY <1>1, <1>4, <2>1, Still
<1>5. ASSUME NEW a \in f.left,
             LET calls == <<[f EXCEPT !.left = @ \ {a}]>> \o d IN
             IF f.late THEN HandleError(a, calls) ELSE HandleRoute(a, calls)
      PROVE  IInv'
  <2> DEFINE e == [f EXCEPT !.left = @ \ {a}]
             c == <<e>> \o d
  <2>1. HandleError(a, c) \/ HandleStart(a, c)
    BY <1>5 DEF HandleRoute
  <2> HIDE DEF f, d
  <2>2. a \in ActId /\ a[2] = f.as[2] /\ a[2] \in DOMAIN conf.plan /\ a[3] \in DOMAIN conf.plan[a[2]]
    BY <1>3, <1>5 DEF StartFrame
  <2>3. e \in StartFrame(conf.plan) /\ e.at = "StartAction" /\ e.as = f.as
    BY <1>3 DEF StartFrame
  <2>4. f.as[2] = 1 => d = <<>>
    BY <1>2 DEF Under, First
  <2> HIDE DEF e
  <2>5. Calm(c, net, Len(par), conf.plan)
    <3>1. First(e) => d = <<>>
      BY <2>3, <2>4 DEF First
    <3>2. Under(e, d, net, Len(par), conf.plan)
      BY <2>3, <3>1 DEF Under, CalmFrame
    <3> QED BY <1>2, <3>2, CalmPush
  <2>6. ASSUME a[2] = 1, NEW h PROVE ~PopIn(c, h)
    <3>1. d = <<>>
      BY <2>2, <2>4, <2>6
    <3>2. d \in Seq(CalmFrame(DOMAIN net, Len(par), conf.plan)) /\ ~PopIn(d, h)
      BY <1>2, <3>1, CalmEmpty DEF Calm
    <3> QED BY <2>3, <3>2, PopInPush
  <2> HIDE DEF c
  <2>7. CASE HandleError(a, c)
    BY <1>1, <2>2, <2>5, <2>7, HandleErrorStep
  <2>8. CASE /\ \E g \in GetParallelHandler :
                   par' = g.par /\ stack' = <<ParallelRequestOf(g.p, a, "none")>> \o c
             /\ UNCHANGED <<net, idle, ary>>
    BY <1>1, <2>2, <2>5, <2>8, ParallelStartStep
  <2>9. CASE /\ Type(a) # "SendRecv_Parallel"
             /\ \E g \in GetHandler(ConnType(a)) :
                   idle' = g.idle /\ ary' = g.ary /\ HandleRequest(g.h, g.net, a, c)
             /\ UNCHANGED par
    <3>1. PICK g \in GetHandler(ConnType(a)) :
             idle' = g.idle /\ ary' = g.ary /\ HandleRequest(g.h, g.net, a, c)
      BY <2>9
    <3>2. Type(a) \in ActionTypes
      BY <2>2, PlanType DEF Type
    <3>3. ConnType(a) \in {"Short", "Long", "LongWithPending"}
      BY DEF ConnType
    <3>4. TablesOk(g) /\ (ConnType(a) # "LongWithPending" => g.net[g.h].type # "LongWithPending")
      BY <3>1, <3>3, GotHandler
    <3>5. ~PopIn(c, g.h)
      <4>1. CASE ConnType(a) = "LongWithPending"
        <5>1. Type(a) \in {"SendRecv_KeepAliveWithPending", "SendOnly_KeepAliveWithPending"}
          BY <2>9, <3>2, <4>1 DEF ConnType, ActionTypes
        <5>2. a[2] = 1
          BY <2>2, <5>1 DEF WaitFirst, Type, IInv
        <5> QED BY <2>6, <5>2
      <4>2. CASE ConnType(a) # "LongWithPending"
        <5> SUFFICES ASSUME PopIn(c, g.h) PROVE FALSE
          OBVIOUS
        <5>1. g.h \in DOMAIN net /\ net[g.h].type = "LongWithPending"
          <6>1. PICK i \in DOMAIN c : c[i].at = "PopFront" /\ c[i].h = g.h
            BY DEF PopIn
          <6>2. c[i] \in CalmFrame(DOMAIN net, Len(par), conf.plan)
            BY <2>5, <6>1 DEF Calm
          <6>3. c[i] \in PopFrame(DOMAIN net)
            BY <6>1, <6>2, FrameKinds
          <6> QED BY <2>5, <6>1, <6>3, PopInType DEF PopFrame
        <5>2. g.net[g.h] = net[g.h]
          BY <3>4, <5>1 DEF TablesOk
        <5> QED BY <3>4, <4>2, <5>1, <5>2
      <4> QED BY <4>1, <4>2
    <3> QED BY <1>1, <2>2, <2>5, <2>9, <3>1, <3>4, <3>5, HandleRequestStep
  <2> QED BY <2>1, <2>7, <2>8, <2>9 DEF HandleStart
<1> QED BY <1>4, <1>5 DEF StartAction
----------------------------------------------------------------------------
LEMMA InitIInv ==
    ASSUME Init
    PROVE  IInv
<1>1. conf \in Confs /\ stack = <<>> /\ par = <<>> /\ net = <<>>
  BY DEF Init
<1>2. conf.msgs \in Nat
  BY <1>1, AsyncAssumption
<1>3. DOMAIN msg \subseteq Nat /\ DOMAIN sets = {} /\ DOMAIN net = {} /\ idle = {}
  BY <1>2 DEF Init
<1>4. net = [h \in DOMAIN net |-> net[h]]
  BY <1>1
<1>5. ary \in [1..MaxPending -> DOMAIN net \cup {None}]
  BY DEF Init
<1>6. Sound(stack, net, Len(par), conf.plan)
  BY <1>1, CalmEmpty, CalmSound
<1>7. par \in Seq(PType) /\ DOMAIN par = {}
  BY <1>1
<1> QED BY <1>1, <1>3, <1>4, <1>5, <1>6, <1>7 DEF IInv, NetOk

LEMMA NextIInv ==
    ASSUME WaitFirst, IInv, [Next]_vars
    PROVE  IInv'
<1>1. CASE Call
  BY <1>1, StartActionStep, HandleFinishedStep, HandleEncodeStep, HandleProcessStep, StartActionProcessStep,
     TryNextActionStep, PopFrontStep, ParallelRequestStep, TellRecvingStep, DropFrontStep, EraseRecvingStep,
     AfterTimeoutStep DEF Call
<1>2. CASE Timer
  <2>1. ASSUME NEW p \in DOMAIN par, NEW as \in DOMAIN sets, NEW a \in Actions(as), ParallelTimer(p, a)
        PROVE  IInv'
    <3>1. as \in Nat \X DOMAIN conf.plan
      BY DEF IInv
    <3>2. a \in ActId
      BY <3>1, ActionsOf
    <3> QED BY <2>1, <3>2, ParallelTimerStep
  <2> QED BY <1>2, <2>1, TimerNotifyStep DEF Timer
<1>3. ASSUME NEW m \in Msgs, Process(m) PROVE IInv'
  BY <1>3, ProcessStep
<1>4. ASSUME NEW h \in DOMAIN net, InputNotify(h) \/ OutputNotify(h) \/ HangupNotify(h) PROVE IInv'
  BY <1>4, InputNotifyStep, OutputNotifyStep, HangupNotifyStep
<1>5. ASSUME NEW p \in DOMAIN par, ParallelInput(p) \/ ParallelOutput(p) \/ ParallelHangup(p) PROVE IInv'
  BY <1>5, ParallelInputStep, ParallelOutputStep, ParallelHangupStep
<1>6. CASE CheckIdleHander
  BY <1>6, CheckIdleHanderStep
<1>7. CASE UNCHANGED vars
  <2>1. UNCHANGED <<frame, net, idle, ary, par>> /\ stack' = stack
    BY <1>7 DEF vars
  <2>2. Sound(stack', net, Len(par), conf.plan)
    BY <2>1 DEF IInv
  <2> QED BY <2>1, <2>2, Still
<1> QED BY <1>1, <1>2, <1>3, <1>4, <1>5, <1>6, <1>7 DEF Next

LEMMA IInvOwnAnswer ==
    ASSUME IInv
    PROVE  OwnAnswer
<1> SUFFICES ASSUME NEW i \in DOMAIN stack, stack[i].at = "HandleFinished"
             PROVE  stack[i].ans \in {None, stack[i].a}
  BY DEF OwnAnswer
<1> DEFINE F == CalmFrame(DOMAIN net, Len(par), conf.plan)
           G == TopFrame(DOMAIN net)
<1>1. stack \in Seq(F \cup G)
  BY DEF IInv, Sound
<1> HIDE DEF F, G
<1>2. stack[i] \in F \cup G
  BY <1>1
<1>3. stack[i] \notin G
  BY DEF G, TopFrame
<1>4. stack[i] \in FinishedFrame(DOMAIN net)
  BY <1>2, <1>3, FrameKinds DEF F
<1> QED BY <1>4 DEF FinishedFrame

\* An action of the asynchronous frame is never given the answer to the request of
\* another action, for any number of requests, states, objects and limits, when only the
\* first state of a request has actions that may wait on a connection (WaitFirst).
THEOREM AsyncOwnAnswer == WaitFirst => (Spec => []OwnAnswer)
<1> SUFFICES ASSUME WaitFirst PROVE Spec => []OwnAnswer
  OBVIOUS
<1>1. Init => IInv
  BY InitIInv
<1>2. IInv /\ [Next]_vars => IInv'
  BY NextIInv
<1>3. IInv => OwnAnswer
  BY IInvOwnAnswer
<1> QED BY <1>1, <1>2, <1>3, PTL DEF Spec
=============================================================================
