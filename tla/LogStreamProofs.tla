--------------------------- MODULE LogStreamProofs ---------------------------
(***************************************************************************)
(* Proofs about LogStream, for any number of jobs, runs and reconnects and *)
(* logs of any length.                                                     *)
(***************************************************************************)
EXTENDS LogStream, DeployStoreProofs

-----------------------------------------------------------------------------
(* The inductive invariant                                                 *)

IsPrefixOf(p, s) == Len(p) <= Len(s) /\ \A i \in 1..Len(p) : p[i] = s[i]

\* The lines in memory are the first of the log: all of them while the gateway
\* alone may write, and those a tail has counted while another process does.
LogInMemory ==
  /\ HasRecord => IsPrefixOf(rec.log, dlog)
  /\ (IsRunning /\ (~rec.tail \/ pend = "expire")) => Len(rec.log) = Len(dlog)
  /\ rec.tail => rec.emitted = Len(rec.log)

\* What the steps of a client go by; j is its state.
JobOK(j) ==
  /\ j \in Job
  /\ j.conn # "none" <=> j.pc = "stream"
  /\ j.pc = "stream" => j.reconnects <= MaxReconnects
  /\ j.conn = "none" => j.chan = <<>>
  /\ j.conn = "open" => up /\ IsRunning
  /\ j.run <= runs
  /\ j.pc \in {"post", "asked"} => j.cursor = 0 /\ j.got = <<>>
  /\ j.pc \notin {"post", "failure"} => j.run # 0
  /\ j.gh = "success" => j.pc = "success"
  /\ \A i \in 1..Len(j.got) : ~IsExit(j.got[i])

Latest(j) == j.run = runs /\ runs # 0
Read(j)   == j.got \o j.chan        \* read, or on its way

\* What a client of the latest run has read, and will read, is the first part
\* of the log; ...
ReadIsLog(j) ==
  Latest(j) => j.cursor = Len(j.got) /\ IsPrefixOf(Read(j), dlog)

\* ... the gateway that it asks again has the record of that run, with all that
\* was read; an open connection carries all that there is.
Following(j) ==
  (Latest(j) /\ j.pc \in {"connect", "stream"}) =>
    /\ meta.file = "ok" => meta.run = runs
    /\ HasRecord => rec.run = runs /\ Len(Read(j)) <= Len(rec.log)
    /\ j.conn = "open" => Len(Read(j)) = Len(rec.log)

\* Who has read a success has read the first verdict of the run.
DurableSuccess == \E i \in DOMAIN dlog : FirstExit(dlog, i) /\ dlog[i].text = "EXIT:0"
ReadSuccess(j) ==
  (Latest(j) /\ j.pc \in {"confirm", "health", "success"}) => DurableSuccess

JobInv(j) == JobOK(j) /\ ReadIsLog(j) /\ Following(j) /\ ReadSuccess(j)

StreamInv ==
  /\ StoreInv /\ MetaCurrent /\ LogInMemory
  /\ job \in [Clients -> Job]
  /\ \A c \in Clients : JobInv(job[c])

-----------------------------------------------------------------------------
(* Part 1: the first part of a log                                         *)

LEMMA PrefixSelf ==
  ASSUME NEW s \in Seq(Line)
  PROVE  IsPrefixOf(s, s) /\ IsPrefixOf(<<>>, s)
BY LenProperties, EmptySeq DEF IsPrefixOf

LEMMA PrefixGrows ==
  ASSUME NEW p \in Seq(Line), NEW s \in Seq(Line), NEW b \in Seq(Line), IsPrefixOf(p, s)
  PROVE  IsPrefixOf(p, s \o b)
<1>1. /\ Len(p) \in Nat /\ Len(s) \in Nat /\ Len(b) \in Nat
      /\ Len(s \o b) = Len(s) + Len(b)
      /\ \A i \in 1..(Len(s) + Len(b)) :
           (s \o b)[i] = IF i <= Len(s) THEN s[i] ELSE b[i - Len(s)]
  BY ConcatProperties, LenProperties
<1> QED
  BY <1>1 DEF IsPrefixOf

LEMMA PrefixWhole ==
  ASSUME NEW p \in Seq(Line), NEW s \in Seq(Line), IsPrefixOf(p, s), Len(p) = Len(s)
  PROVE  p = s
BY SeqEqual DEF IsPrefixOf

LEMMA PrefixTrans ==
  ASSUME NEW p \in Seq(Line), NEW q \in Seq(Line), NEW s \in Seq(Line),
         IsPrefixOf(p, q), IsPrefixOf(q, s)
  PROVE  IsPrefixOf(p, s)
<1>1. Len(p) \in Nat /\ Len(q) \in Nat /\ Len(s) \in Nat
  BY LenProperties
<1> QED
  BY <1>1 DEF IsPrefixOf

LEMMA PrefixShort ==
  ASSUME NEW p \in Seq(Line), NEW q \in Seq(Line), NEW s \in Seq(Line),
         IsPrefixOf(p \o q, s)
  PROVE  IsPrefixOf(p, s) /\ Len(p) <= Len(p \o q)
<1>1. IsPrefixOf(p, p \o q)
  BY PrefixSelf, PrefixGrows
<1>2. p \o q \in Seq(Line)
  BY ConcatProperties
<1> QED
  BY <1>1, <1>2, PrefixTrans DEF IsPrefixOf

\* A part that follows what is there makes a longer first part.
LEMMA PrefixExtends ==
  ASSUME NEW p \in Seq(Line), NEW s \in Seq(Line), NEW k \in Nat,
         IsPrefixOf(p, s), Len(p) <= k, k <= Len(s)
  PROVE  /\ SubSeq(s, Len(p) + 1, k) \in Seq(Line)
         /\ Len(p \o SubSeq(s, Len(p) + 1, k)) = k
         /\ IsPrefixOf(p \o SubSeq(s, Len(p) + 1, k), s)
<1> DEFINE b == SubSeq(s, Len(p) + 1, k)
<1>1. /\ Len(p) \in Nat /\ Len(s) \in Nat /\ Len(p) + 1 \in Int /\ k \in Int
      /\ \A i \in (Len(p) + 1)..k : s[i] \in Line
  BY LenProperties, ElementOfSeq
<1>2. /\ b \in Seq(Line)
      /\ Len(b) = IF Len(p) + 1 <= k THEN k - (Len(p) + 1) + 1 ELSE 0
      /\ \A i \in 1..(k - (Len(p) + 1) + 1) : b[i] = s[Len(p) + 1 + i - 1]
  BY <1>1, SubSeqProperties
<1>3. Len(b) = k - Len(p)
  BY <1>1, <1>2
<1> HIDE DEF b
<1>4. /\ Len(p \o b) = Len(p) + Len(b)
      /\ \A i \in 1..(Len(p) + Len(b)) :
           (p \o b)[i] = IF i <= Len(p) THEN p[i] ELSE b[i - Len(p)]
  BY <1>2, ConcatProperties
<1>5. Len(p \o b) = k
  BY <1>1, <1>3, <1>4
<1>6. \A i \in 1..k : (p \o b)[i] = s[i]
  <2> SUFFICES ASSUME NEW i \in 1..k PROVE (p \o b)[i] = s[i]
    OBVIOUS
  <2>1. CASE i <= Len(p)
    BY <1>1, <1>3, <1>4, <2>1 DEF IsPrefixOf
  <2>2. CASE ~(i <= Len(p))
    <3>1. i - Len(p) \in 1..(k - (Len(p) + 1) + 1)
      BY <1>1, <2>2
    <3>2. b[i - Len(p)] = s[Len(p) + 1 + (i - Len(p)) - 1]
      BY <1>2, <3>1
    <3>3. Len(p) + 1 + (i - Len(p)) - 1 = i
      BY <1>1
    <3> QED
      BY <1>1, <1>3, <1>4, <2>2, <3>2, <3>3
  <2> QED
    BY <2>1, <2>2
<1> QED
  BY <1>1, <1>2, <1>5, <1>6 DEF IsPrefixOf, b

\* Of two first parts of a log the shorter is the first part of the longer.
LEMMA BothFirst ==
  ASSUME NEW p \in Seq(Line), NEW q \in Seq(Line), NEW s \in Seq(Line),
         IsPrefixOf(p, s), IsPrefixOf(q, s), Len(p) <= Len(q)
  PROVE  IsPrefixOf(p, q)
<1>1. Len(p) \in Nat /\ Len(q) \in Nat
  BY LenProperties
<1> QED
  BY <1>1 DEF IsPrefixOf

\* What was read of a log, with what follows it, is the whole.
LEMMA RestFollows ==
  ASSUME NEW p \in Seq(Line), NEW q \in Seq(Line), NEW r \in Seq(Line),
         NEW s \in Seq(Line), IsPrefixOf(p \o q, s), IsPrefixOf(r, s),
         Len(p \o q) <= Len(r)
  PROVE  p \o SubSeq(r, Len(p) + 1, Len(r)) = r
<1>1. p \o q \in Seq(Line) /\ IsPrefixOf(p \o q, r)
  BY ConcatProperties, BothFirst
<1>2. Len(p) \in Nat /\ Len(r) \in Nat /\ IsPrefixOf(p, r) /\ Len(p) <= Len(r)
  BY <1>1, PrefixShort, LenProperties DEF IsPrefixOf
<1> DEFINE rest == SubSeq(r, Len(p) + 1, Len(r))
<1>3. rest \in Seq(Line) /\ Len(p \o rest) = Len(r) /\ IsPrefixOf(p \o rest, r)
  BY <1>2, PrefixExtends
<1> HIDE DEF rest
<1>4. p \o rest = r
  BY <1>3, PrefixWhole, ConcatProperties
<1> QED
  BY <1>4 DEF rest

LEMMA PrefixIsSubSeq ==
  ASSUME NEW p \in Seq(Line), NEW s \in Seq(Line), IsPrefixOf(p, s)
  PROVE  p = SubSeq(s, 1, Len(p))
<1>1. Len(p) \in Nat /\ Len(s) \in Nat /\ Len(p) <= Len(s)
  BY LenProperties DEF IsPrefixOf
<1>2. /\ \A i \in 1..Len(p) : s[i] \in Line
      /\ 1 \in Int /\ Len(p) \in Int
  BY <1>1, ElementOfSeq
<1>3. /\ SubSeq(s, 1, Len(p)) \in Seq(Line)
      /\ Len(SubSeq(s, 1, Len(p))) = IF 1 <= Len(p) THEN Len(p) - 1 + 1 ELSE 0
      /\ \A i \in 1..(Len(p) - 1 + 1) : SubSeq(s, 1, Len(p))[i] = s[1 + i - 1]
  BY <1>2, SubSeqProperties
<1>4. Len(SubSeq(s, 1, Len(p))) = Len(p)
  BY <1>1, <1>3
<1>5. \A i \in 1..Len(p) : SubSeq(s, 1, Len(p))[i] = p[i]
  BY <1>1, <1>3 DEF IsPrefixOf
<1> QED
  BY <1>3, <1>4, <1>5, SeqEqual

\* What has been appended is what follows the old part.
LEMMA AppendedPart ==
  ASSUME NEW s \in Seq(Line), NEW b \in Seq(Line)
  PROVE  SubSeq(s \o b, Len(s) + 1, Len(s \o b)) = b
<1> DEFINE t == s \o b
<1>1. /\ t \in Seq(Line) /\ Len(s) \in Nat /\ Len(b) \in Nat
      /\ Len(t) = Len(s) + Len(b) /\ IsPrefixOf(s, t)
  BY ConcatProperties, LenProperties, PrefixSelf, PrefixGrows
<1>2. Len(t) \in Nat /\ Len(s) <= Len(t)
  BY <1>1
<1> HIDE DEF t
<1> DEFINE r == SubSeq(t, Len(s) + 1, Len(t))
<1>3. r \in Seq(Line) /\ Len(s \o r) = Len(t) /\ IsPrefixOf(s \o r, t)
  BY <1>1, <1>2, PrefixExtends
<1> HIDE DEF r
<1>4. s \o r = t
  BY <1>1, <1>3, PrefixWhole, ConcatProperties
<1>5. r = b
  BY <1>3, <1>4, ConcatSimplifications DEF t
<1> QED
  BY <1>5 DEF r, t

\* Reading a line moves it from what is on its way to what was read.
LEMMA HeadMoves ==
  ASSUME NEW p \in Seq(Line), NEW q \in Seq(Line), q # <<>>
  PROVE  /\ Head(q) \in Line /\ Tail(q) \in Seq(Line)
         /\ Append(p, Head(q)) \in Seq(Line) /\ Len(Append(p, Head(q))) = Len(p) + 1
         /\ Append(p, Head(q)) \o Tail(q) = p \o q
<1>1. /\ Head(q) \in Line /\ Tail(q) \in Seq(Line) /\ <<Head(q)>> \in Seq(Line)
      /\ Append(p, Head(q)) = p \o <<Head(q)>>
      /\ Len(q) \in Nat \ {0} /\ Tail(q) = SubSeq(q, 2, Len(q))
  BY HeadTailProperties, AppendIsConcat, EmptySeq, TailIsSubSeq
<1>2. SubSeq(q, 1, Len(q)) = <<q[1]>> \o SubSeq(q, 1 + 1, Len(q))
  BY <1>1, SubSeqRecursiveFirst
<1>3. q = <<Head(q)>> \o Tail(q)
  BY <1>1, <1>2, SubSeqFull
<1>4. (p \o <<Head(q)>>) \o Tail(q) = p \o (<<Head(q)>> \o Tail(q))
  BY <1>1, ConcatAssociative
<1> QED
  BY <1>1, <1>3, <1>4, AppendProperties

LEMMA NoExitAdded ==
  ASSUME NEW p \in Seq(Line), NEW l \in Line, ~IsExit(l),
         \A k \in 1..Len(p) : ~IsExit(p[k])
  PROVE  \A k \in 1..Len(Append(p, l)) : ~IsExit(Append(p, l)[k])
<1>1. /\ Len(Append(p, l)) = Len(p) + 1 /\ Append(p, l)[Len(p) + 1] = l
      /\ \A k \in 1..Len(p) : Append(p, l)[k] = p[k]
      /\ Len(p) \in Nat
  BY AppendProperties, LenProperties
<1> QED
  BY <1>1

\* The verdict that follows lines which are none is the first.
LEMMA FirstFollows ==
  ASSUME NEW p \in Seq(Line), NEW q \in Seq(Line), NEW s \in Seq(Line),
         q # <<>>, IsPrefixOf(p \o q, s), IsExit(Head(q)),
         \A k \in 1..Len(p) : ~IsExit(p[k])
  PROVE  \E k \in DOMAIN s : FirstExit(s, k) /\ s[k] = Head(q)
<1>1. /\ Len(p) \in Nat /\ Len(q) \in Nat \ {0} /\ DOMAIN s = 1..Len(s)
      /\ Len(p \o q) = Len(p) + Len(q) /\ Len(s) \in Nat
      /\ \A k \in 1..(Len(p) + Len(q)) :
           (p \o q)[k] = IF k <= Len(p) THEN p[k] ELSE q[k - Len(p)]
  BY ConcatProperties, LenProperties, EmptySeq
<1>2. /\ \A k \in 1..Len(p) : s[k] = p[k]
      /\ s[Len(p) + 1] = q[1] /\ Len(p) + 1 \in 1..Len(s)
  <2>1. /\ Len(p) + 1 \in 1..(Len(p) + Len(q)) /\ ~(Len(p) + 1 <= Len(p))
        /\ (Len(p) + 1) - Len(p) = 1
        /\ \A k \in 1..Len(p) : k \in 1..(Len(p) + Len(q)) /\ k <= Len(p)
    BY <1>1
  <2>2. (p \o q)[Len(p) + 1] = q[1] /\ \A k \in 1..Len(p) : (p \o q)[k] = p[k]
    BY <1>1, <2>1
  <2>3. /\ Len(p) + Len(q) <= Len(s)
        /\ \A k \in 1..(Len(p) + Len(q)) : (p \o q)[k] = s[k]
    BY <1>1 DEF IsPrefixOf
  <2> QED
    BY <1>1, <2>1, <2>2, <2>3
<1>3. s[Len(p) + 1] = Head(q)
  BY <1>2
<1>4. FirstExit(s, Len(p) + 1)
  <2>1. Len(p) + 1 \in Exits(s)
    BY <1>1, <1>2, <1>3 DEF Exits
  <2>2. \A k \in Exits(s) : Len(p) + 1 <= k
    BY <1>1, <1>2 DEF Exits
  <2> QED
    BY <2>1, <2>2 DEF FirstExit
<1> QED
  BY <1>1, <1>2, <1>3, <1>4

-----------------------------------------------------------------------------
(* Part 2: the record followed is that of the store                        *)

LEMMA GatewayStepOfStore == ASSUME StoreInv, GatewayStep PROVE AnyLengthNext
<1>1. Observe
  BY DEF GatewayStep
<1>2. CASE Decide \/ Restart \/ Die \/ Start
  BY <1>1, <1>2 DEF Decide, Restart, AnyLengthNext, StoreWork, Tick
<1>3. CASE AppendLines(<<Ln("text", rec.run)>>)
  BY <1>1, <1>3 DEF AnyLengthNext, Chatter, Texts
<1>4. CASE \E v \in Versions : SetSelfUpdate(v)
  BY <1>1, <1>4 DEF AnyLengthNext, StoreWork
<1>5. CASE \E ls \in Preamble : StartTail(ls)
  BY <1>1, <1>5 DEF AnyLengthNext, Chatter
<1>6. CASE Handed /\ \E t \in Texts : ExternalAppend(Ln(t, runs))
  <2>1. runs \in Runs
    BY <1>6, StoreAssumption DEF Handed, StoreInv, TypeOK, Runs
  <2> QED
    BY <1>1, <1>6, <2>1, LineType DEF AnyLengthNext, Chatter
<1> QED
  BY <1>2, <1>3, <1>4, <1>5, <1>6 DEF GatewayStep

\* A client starts a run, or leaves the gateway's state alone.
LEMMA ClientLeavesStore ==
  ASSUME NEW c \in Clients, ClientStep(c) \/ Refused(c) \/ Cut(c)
  PROVE  Trigger(c) \/ UNCHANGED storeVars
BY DEF ClientStep, NotSent, Refused, Attach, Answered, Connect, NoStream, ReadLine,
       ReadExit, StreamEnds, Cut, GivesUp, Denied, Confirmed, Healthy, Unhealthy

LEMMA StreamStepOfStore ==
  ASSUME StoreInv, [Next]_streamVars
  PROVE  [AnyLengthNext]_storeVars
<1>1. CASE GatewayStep
  BY <1>1, GatewayStepOfStore
<1>2. ASSUME NEW c \in Clients, ClientStep(c) \/ Refused(c) \/ Cut(c)
      PROVE  [AnyLengthNext]_storeVars
  BY <1>2, ClientLeavesStore DEF Trigger, AnyLengthNext, StoreWork
<1>3. CASE UNCHANGED streamVars
  BY <1>3 DEF streamVars
<1> QED
  BY <1>1, <1>2, <1>3 DEF Next

\* The gateway that the jobs follow is the store of DeployStore under some
\* client: what is proved of that holds here.
THEOREM StreamUsesStore == Spec => StoreOfAnyLength
<1>1. StoreInv /\ [Next]_streamVars => [AnyLengthNext]_storeVars
  BY StreamStepOfStore
<1>2. Init => StoreInit
  BY DEF Init
<1> QED
  BY <1>1, <1>2, StoreInvInit, StoreInvStep, PTL DEF Spec, StoreOfAnyLength

-----------------------------------------------------------------------------
(* Part 3: the log in memory, and what a step of the gateway does to it    *)

\* The run goes on or ends: the record emits what is added to it.
Extended ==
  /\ up /\ up' /\ HasRecord /\ rec'.run = rec.run /\ runs' = runs
  /\ Emitted \in Seq(Line) /\ rec'.log = rec.log \o Emitted
  /\ rec'.status = "running" => rec.status = "running"
  /\ meta' = meta \/ (meta'.file = "ok" /\ meta'.run = rec.run)
  /\ IsPrefixOf(dlog, dlog')

\* Another run begins, ...
Started ==
  /\ up /\ up' /\ ~IsRunning /\ runs' = runs + 1

\* ... the process dies, or is down while another one writes, ...
Down ==
  /\ ~up' /\ runs' = runs /\ IsPrefixOf(dlog, dlog')
  /\ rec'.run = 0 /\ (meta' = meta \/ meta'.file # "ok")

\* ... or it boots, and the log is what the file holds.
Booted ==
  /\ ~up /\ up' /\ UNCHANGED <<runs, meta, dlog>>
  /\ \/ rec'.run = 0
     \/ meta.file = "ok" /\ rec'.run = meta.run /\ rec'.log = dlog

LEMMA LogTypes ==
  ASSUME StoreInv
  PROVE  /\ rec \in Record /\ rec.log \in Seq(Line) /\ dlog \in Seq(Line)
         /\ Len(rec.log) \in Nat /\ Len(dlog) \in Nat /\ rec.emitted \in Nat
BY LenProperties DEF StoreInv, TypeOK, Record

LEMMA NothingAppended ==
  ASSUME StoreInv
  PROVE  /\ rec.log \o <<>> = rec.log /\ <<>> \in Seq(Line)
         /\ IsPrefixOf(rec.log, rec.log) /\ IsPrefixOf(dlog, dlog)
BY LogTypes, ConcatEmptySeq, EmptySeq, PrefixSelf

\* What is added to the record is what it emits.
LEMMA IsEmitted ==
  ASSUME StoreInv, NEW b \in Seq(Line), rec'.log = rec.log \o b
  PROVE  Emitted = b
BY LogTypes, AppendedPart DEF Emitted

\* What the gateway writes itself goes to both, when it alone may write.
LEMMA BothGrow ==
  ASSUME StoreInv, LogInMemory, NEW b \in Seq(Line), up, up',
         IsRunning, ~rec.tail \/ pend = "expire",
         rec'.run = rec.run, UNCHANGED <<meta, runs>>,
         rec'.log = rec.log \o b, dlog' = dlog \o b,
         rec'.tail => rec'.emitted = Len(rec'.log)
  PROVE  Extended /\ LogInMemory'
<1>1. rec.log = dlog
  BY LogTypes, PrefixWhole DEF LogInMemory, IsRunning
<1>2. rec'.log = dlog' /\ dlog' \in Seq(Line)
  BY <1>1, LogTypes, ConcatProperties
<1>3. IsPrefixOf(dlog, dlog') /\ IsPrefixOf(rec'.log, dlog')
  BY <1>2, LogTypes, PrefixSelf, PrefixGrows
<1> QED
  BY <1>2, <1>3, IsEmitted DEF Extended, LogInMemory, HasRecord, IsRunning

\* A step that writes no line.
LEMMA NoneGrows ==
  ASSUME StoreInv, LogInMemory, up, up', HasRecord,
         rec'.run = rec.run, rec'.log = rec.log, UNCHANGED <<runs, dlog>>,
         rec'.status = rec.status, rec'.tail = rec.tail, rec'.emitted = rec.emitted,
         pend' = "expire" => pend' = pend \/ rec.emitted = Len(dlog),
         meta' = meta \/ (meta'.file = "ok" /\ meta'.run = rec.run)
  PROVE  Extended /\ LogInMemory'
<1>1. Emitted = <<>> /\ rec'.log = rec.log \o <<>> /\ <<>> \in Seq(Line)
  BY NothingAppended, IsEmitted
<1>2. IsPrefixOf(dlog, dlog')
  BY NothingAppended
<1>3. Extended
  BY <1>1, <1>2 DEF Extended
<1>4. LogInMemory'
  BY DEF LogInMemory, HasRecord, IsRunning
<1> QED
  BY <1>3, <1>4

\* The methods of the record.
LEMMA MethodsExtend ==
  ASSUME StoreInv, LogInMemory, ~LostWrites,
         \/ PersistMeta \/ BootFinish
         \/ ~rec.tail /\ \E x \in {0, 1}, ls \in Preamble : Finish(ls, x)
         \/ ~rec.tail /\ AppendLines(<<Ln("text", rec.run)>>)
         \/ \E v \in Versions : SetSelfUpdate(v)
         \/ \E ls \in Preamble : StartTail(ls)
  PROVE  Extended /\ LogInMemory'
<1> USE LogTypes DEF Record
<1>1. CASE PersistMeta
  <2>1. up /\ HasRecord
    BY <1>1 DEF PersistMeta, StoreInv, Coherent, HasRecord
  <2> QED
    BY <1>1, <2>1, NoneGrows DEF PersistMeta, MetaOf
<1>2. ASSUME NEW v \in Versions, SetSelfUpdate(v) PROVE Extended /\ LogInMemory'
  BY <1>2, NoneGrows DEF SetSelfUpdate, Quiescent, IsRunning
<1>3. ASSUME NEW b \in Seq(Line), AppendLines(b), ~rec.tail
      PROVE  Extended /\ LogInMemory'
  <2>1. dlog' = dlog \o b
    BY <1>3 DEF AppendLines, Appends
  <2> QED
    BY <1>3, <2>1, BothGrow DEF AppendLines, Quiescent
<1>4. ASSUME NEW b \in Seq(Line), StartTail(b)
      PROVE  Extended /\ LogInMemory'
  <2>1. dlog' = dlog \o b
    BY <1>4 DEF StartTail, Appends
  <2> QED
    BY <1>4, <2>1, BothGrow DEF StartTail, Quiescent
<1>5. ASSUME NEW ls \in Seq(Line), NEW x \in {0, 1}, Finish(ls, x), ~rec.tail
      PROVE  Extended /\ LogInMemory'
  <2> DEFINE b == Append(ls, ExitLine(x, rec.run))
  <2>1. b \in Seq(Line)
    BY <1>5, LinesType DEF Finish, IsRunning, HasRecord
  <2>2. /\ dlog' = dlog \o b /\ rec'.log = rec.log \o b
        /\ rec'.run = rec.run /\ ~rec'.tail
        /\ up /\ up' /\ IsRunning /\ UNCHANGED <<meta, runs>>
    BY <1>5 DEF Finish, Appends, Quiescent
  <2> HIDE DEF b
  <2> QED
    BY <1>5, <2>1, <2>2, BothGrow
<1>6. CASE BootFinish
  <2> DEFINE b == <<Ln("text", rec.run), ExitLine(IF pend = "verified" THEN 0 ELSE 1, rec.run)>>
  <2>1. rec.run \in Runs /\ IsRunning /\ ~rec.tail
    BY <1>6 DEF BootFinish, StoreInv, TypeOK, Coherent, Runs, IsRunning, HasRecord
  <2>2. b \in Seq(Line)
    BY <2>1, LineType, ExitLineType DEF Texts
  <2>3. /\ dlog' = dlog \o b /\ rec'.log = rec.log \o b
        /\ rec'.run = rec.run /\ ~rec'.tail
        /\ up /\ up' /\ UNCHANGED <<meta, runs>>
    BY <1>6, <2>1 DEF BootFinish, Appends
  <2> HIDE DEF b
  <2> QED
    BY <2>1, <2>2, <2>3, BothGrow
<1>7. HasRecord => Preamble \subseteq Seq(Line) /\ <<Ln("text", rec.run)>> \in Seq(Line)
  BY LinesType DEF HasRecord, Texts
<1>8. ASSUME NEW ls \in Preamble, StartTail(ls) PROVE Extended /\ LogInMemory'
  BY <1>4, <1>7, <1>8 DEF StartTail, IsRunning
<1>9. ASSUME ~rec.tail, NEW ls \in Preamble, NEW x \in {0, 1}, Finish(ls, x)
      PROVE  Extended /\ LogInMemory'
  BY <1>5, <1>7, <1>9 DEF Finish, IsRunning
<1>10. ASSUME ~rec.tail, AppendLines(<<Ln("text", rec.run)>>)
       PROVE  Extended /\ LogInMemory'
  BY <1>3, <1>7, <1>10 DEF AppendLines, IsRunning
<1> QED
  BY <1>1, <1>2, <1>6, <1>8, <1>9, <1>10

\* The tail.
LEMMA TailExtends ==
  ASSUME StoreInv, LogInMemory, ~LostWrites,
         TailEmit \/ TailExit \/ TailQuiet \/ TailExpire
  PROVE  Extended /\ LogInMemory'
<1> USE LogTypes DEF Record
<1>1. CASE TailQuiet
  BY <1>1, NoneGrows DEF TailQuiet, Quiescent, StoreInv, Coherent, HasRecord
<1>2. CASE TailExpire
  <2> DEFINE b == <<Ln("text", rec.run), Ln("EXIT:1", rec.run)>>
  <2>1. rec.run \in Runs /\ IsRunning
    BY <1>2 DEF TailExpire, StoreInv, TypeOK, Coherent, Runs, IsRunning, HasRecord
  <2>2. b \in Seq(Line)
    BY <2>1, LineType DEF Texts
  <2>3. /\ dlog' = dlog \o b /\ rec'.log = rec.log \o b
        /\ rec'.run = rec.run /\ ~rec'.tail
        /\ up /\ up' /\ UNCHANGED <<meta, runs>>
    BY <1>2 DEF TailExpire, Appends
  <2> HIDE DEF b
  <2> QED
    BY <1>2, <2>1, <2>2, <2>3, BothGrow DEF TailExpire
<1>3. ASSUME NEW k \in Nat, rec.emitted < k, k <= Len(dlog),
             up, up', rec.tail, rec'.run = rec.run, rec'.emitted = k, pend' # "expire",
             rec'.status = "running" => rec.status = "running",
             rec'.log = rec.log \o SubSeq(dlog, rec.emitted + 1, k),
             rec'.status = "running" => rec'.tail,
             UNCHANGED <<meta, dlog, runs>>
      PROVE  Extended /\ LogInMemory'
  <2>1. HasRecord /\ rec.emitted = Len(rec.log) /\ IsPrefixOf(rec.log, dlog)
    BY <1>3 DEF StoreInv, Coherent, LogInMemory, HasRecord
  <2> DEFINE b == SubSeq(dlog, Len(rec.log) + 1, k)
  <2>2. b \in Seq(Line) /\ Len(rec.log \o b) = k /\ IsPrefixOf(rec.log \o b, dlog)
    BY <1>3, <2>1, PrefixExtends
  <2>3. rec'.log = rec.log \o b
    BY <1>3, <2>1
  <2> HIDE DEF b
  <2>4. Extended
    BY <1>3, <2>1, <2>2, <2>3, IsEmitted, NothingAppended DEF Extended
  <2>5. LogInMemory'
    BY <1>3, <2>2, <2>3 DEF LogInMemory, IsRunning
  <2> QED
    BY <2>4, <2>5
<1>4. CASE TailEmit
  <2>0. PICK k \in Nat : k = Len(dlog)
    OBVIOUS
  <2>1. rec.emitted < k /\ k <= Len(dlog)
    BY <1>4, <2>0 DEF TailEmit, Fresh
  <2>2. /\ rec.tail /\ up /\ up' /\ pend' # "expire" /\ UNCHANGED <<meta, dlog, runs>>
        /\ rec'.run = rec.run /\ rec'.emitted = k
        /\ rec'.log = rec.log \o SubSeq(dlog, rec.emitted + 1, k)
        /\ rec'.status = rec.status /\ rec'.tail
    BY <1>4, <2>0 DEF TailEmit, Quiescent
  <2> QED
    BY <1>3, <2>1, <2>2
<1>5. CASE TailExit
  <2>1. PICK k \in Fresh \cap Exits(dlog) :
               rec' = [rec EXCEPT
                         !.log = @ \o SubSeq(dlog, rec.emitted + 1, k),
                         !.emitted = k, !.status = VerdictOf(dlog[k]), !.tail = FALSE]
    BY <1>5 DEF TailExit
  <2>2. k \in Nat /\ rec.emitted < k /\ k <= Len(dlog)
    BY DEF Fresh
  <2>3. rec'.status # "running"
    BY <2>1 DEF VerdictOf
  <2> QED
    BY <1>3, <1>5, <2>1, <2>2, <2>3 DEF TailExit, Quiescent
<1> QED
  BY <1>1, <1>2, <1>4, <1>5

\* The process, and another one that writes.
LEMMA ProcessSteps ==
  ASSUME StoreInv, LogInMemory, Die \/ Restart
  PROVE  (Down \/ Booted) /\ LogInMemory'
<1> USE LogTypes
<1>1. CASE Die
  <2>1. ~up' /\ runs' = runs /\ dlog' = dlog /\ rec' = NoRecord
        /\ (meta' = meta \/ meta'.file = "torn")
    BY <1>1 DEF Die, StoreInv, TypeOK, Meta
  <2> QED
    BY <2>1, NothingAppended DEF Down, NoRecord, LogInMemory, HasRecord, IsRunning
<1>2. ASSUME NEW v \in Versions, Boot(v) PROVE Booted /\ LogInMemory'
  <2> DEFINE tailed == [Restored EXCEPT !.tail = TRUE, !.emitted = Len(dlog)]
  <2>1. /\ tailed.run = meta.run /\ tailed.log = dlog /\ tailed.emitted = Len(dlog)
        /\ Restored.run = meta.run /\ Restored.log = dlog /\ ~Restored.tail
    BY DEF Restored
  <2>2. \A s : /\ [Restored EXCEPT !.status = s].run = meta.run
               /\ [Restored EXCEPT !.status = s].log = dlog
               /\ ~[Restored EXCEPT !.status = s].tail
    BY DEF Restored
  <2>3. /\ ~up /\ up' /\ UNCHANGED <<runs, meta, dlog>>
        /\ \/ rec' = rec
           \/ /\ meta.file = "ok" /\ rec'.run = meta.run /\ rec'.log = dlog
              /\ rec'.tail => rec'.emitted = Len(dlog)
    BY <1>2, <2>1, <2>2
    DEF Boot, BootNothing, BootReconcile, BootDecided, BootVerified, BootTail, BootFailed,
        Interrupted
  <2>4. rec.run = 0 /\ ~rec.tail
    BY <2>3 DEF StoreInv, Coherent
  <2> QED
    BY <2>3, <2>4, NothingAppended DEF Booted, LogInMemory, HasRecord, IsRunning
<1> QED
  BY <1>1, <1>2 DEF Restart

LEMMA AnotherWrites ==
  ASSUME StoreInv, LogInMemory, Handed, NEW l \in Line, ExternalAppend(l)
  PROVE  (Extended \/ Down) /\ LogInMemory'
<1> USE LogTypes
<1>1. dlog' = dlog \o <<l>> /\ UNCHANGED <<up, rec, meta, pend, runs>>
      /\ <<l>> \in Seq(Line)
  BY AppendIsConcat DEF ExternalAppend
<1>2. IsPrefixOf(dlog, dlog') /\ (HasRecord => IsPrefixOf(rec.log, dlog'))
  BY <1>1, NothingAppended, PrefixGrows DEF LogInMemory
<1>3. CASE rec.tail
  <2>1. up /\ HasRecord
    BY <1>3 DEF StoreInv, Coherent, HasRecord
  <2>2. Emitted = <<>>
    BY <1>1, NothingAppended, IsEmitted
  <2>3. Extended
    BY <1>1, <1>2, <2>1, <2>2, NothingAppended DEF Extended
  <2> QED
    BY <1>1, <1>2, <1>3, <2>3 DEF LogInMemory, HasRecord, IsRunning, Handed
<1>4. CASE ~up
  BY <1>1, <1>2, <1>4
  DEF StoreInv, Coherent, Down, LogInMemory, HasRecord, IsRunning
<1> QED
  BY <1>3, <1>4 DEF Handed

LEMMA RunStarts ==
  ASSUME Start, ~LostWrites
  PROVE  Started /\ LogInMemory'
<1>1. /\ up /\ up' /\ ~IsRunning /\ runs' = runs + 1
      /\ rec'.log = <<>> /\ dlog' = <<>> /\ ~rec'.tail
  BY DEF Start, Quiescent, NoRecord
<1>2. IsPrefixOf(<<>>, <<>>)
  BY PrefixSelf, EmptySeq
<1> QED
  BY <1>1, <1>2 DEF Started, LogInMemory

\* Every step of the gateway is one of these.
LEMMA GatewayKinds ==
  ASSUME StoreInv, LogInMemory, ~LostWrites, GatewayStep
  PROVE  (Extended \/ Down \/ Booted \/ Started) /\ LogInMemory'
<1>1. CASE TailEmit \/ TailExit \/ TailQuiet \/ TailExpire
  BY <1>1, TailExtends
<1>2. CASE Die \/ Restart
  BY <1>2, ProcessSteps
<1>3. CASE Start
  BY <1>3, RunStarts
<1>4. CASE Handed /\ \E t \in Texts : ExternalAppend(Ln(t, runs))
  <2>1. runs \in Runs
    BY <1>4, StoreAssumption DEF Handed, StoreInv, TypeOK, Runs
  <2> QED
    BY <1>4, <2>1, LineType, AnotherWrites
<1>5. CASE \/ PersistMeta \/ BootFinish
           \/ ~rec.tail /\ \E x \in {0, 1}, ls \in Preamble : Finish(ls, x)
           \/ ~rec.tail /\ AppendLines(<<Ln("text", rec.run)>>)
           \/ \E v \in Versions : SetSelfUpdate(v)
           \/ \E ls \in Preamble : StartTail(ls)
  BY <1>5, MethodsExtend
<1> QED
  BY <1>1, <1>2, <1>3, <1>4, <1>5 DEF GatewayStep, Decide

-----------------------------------------------------------------------------
(* Part 4: what a step of the gateway does to a job                        *)

LEMMA JobFields ==
  ASSUME NEW j \in Job
  PROVE  /\ j.got \in Seq(Line) /\ j.chan \in Seq(Line) /\ Read(j) \in Seq(Line)
         /\ Len(j.got) \in Nat /\ j.cursor \in Nat /\ j.run \in 0..MaxRuns
         /\ Len(Read(j)) = Len(j.got) + Len(j.chan) /\ Len(j.chan) \in Nat
<1>1. /\ j.got \in Seq(Line) /\ j.chan \in Seq(Line) /\ j.cursor \in Nat
      /\ j.run \in 0..MaxRuns
  BY DEF Job
<1> QED
  BY <1>1, ConcatProperties, LenProperties DEF Read

LEMMA SuccessKept ==
  ASSUME StoreInv, StoreInv', IsPrefixOf(dlog, dlog'), DurableSuccess
  PROVE  DurableSuccess'
<1>1. /\ Len(dlog) \in Nat /\ DOMAIN dlog = 1..Len(dlog)
      /\ Len(dlog') \in Nat /\ DOMAIN dlog' = 1..Len(dlog')
  BY LenProperties DEF StoreInv, TypeOK
<1>2. PICK i \in DOMAIN dlog : FirstExit(dlog, i) /\ dlog[i].text = "EXIT:0"
  BY DEF DurableSuccess
<1>3. \A k \in 1..Len(dlog) : k \in 1..Len(dlog') /\ dlog'[k] = dlog[k]
  BY <1>1 DEF IsPrefixOf
<1>4. i \in 1..Len(dlog) /\ IsExit(dlog[i]) /\ \A k \in Exits(dlog) : i <= k
  BY <1>1, <1>2 DEF FirstExit, Exits
<1>5. \A k \in Exits(dlog') : i <= k
  <2> SUFFICES ASSUME NEW k \in Exits(dlog') PROVE i <= k
    OBVIOUS
  <2>1. k \in 1..Len(dlog') /\ IsExit(dlog'[k])
    BY <1>1 DEF Exits
  <2>2. CASE k \in 1..Len(dlog)
    BY <1>1, <1>3, <1>4, <2>1, <2>2 DEF Exits
  <2>3. CASE k \notin 1..Len(dlog)
    BY <1>1, <1>4, <2>1, <2>3
  <2> QED
    BY <2>2, <2>3
<1>6. i \in DOMAIN dlog' /\ dlog'[i] = dlog[i]
  BY <1>1, <1>3, <1>4
<1>7. FirstExit(dlog', i)
  BY <1>4, <1>5, <1>6 DEF FirstExit, Exits
<1> QED
  BY <1>2, <1>6, <1>7 DEF DurableSuccess

\* One that has no open connection goes on as it is.
LEMMA DetachedGoesOn ==
  ASSUME NEW j, JobInv(j), j.conn # "open", StoreInv, StoreInv', LogInMemory',
         Extended \/ Down \/ Booted \/ Started
  PROVE  JobInv(j)'
<1>0. j \in Job /\ runs \in Nat /\ runs' \in Nat /\ runs <= runs'
  BY DEF JobInv, JobOK, StoreInv, TypeOK, Extended, Down, Booted, Started
<1>1. JobOK(j)'
  <2>0. JobOK(j)
    BY DEF JobInv
  <2>1. j.run \in Nat
    BY <1>0, StoreAssumption DEF Job
  <2>2. j.run <= runs'
    BY <1>0, <2>0, <2>1 DEF JobOK
  <2> QED
    BY <2>0, <2>2 DEF JobOK
<1>2. CASE Started
  <2>1. ~(j.run = runs')
    BY <1>0, <1>2, JobFields DEF JobInv, JobOK, Started
  <2> QED
    BY <1>1, <2>1 DEF JobInv, ReadIsLog, Following, ReadSuccess, Latest
<1>3. CASE Extended \/ Down \/ Booted
  <2>1. runs' = runs /\ IsPrefixOf(dlog, dlog')
    BY <1>3, NothingAppended DEF Extended, Down, Booted
  <2>2. ReadIsLog(j)'
    <3>1. dlog \in Seq(Line) /\ dlog' \in Seq(Line) /\ Read(j) \in Seq(Line)
      BY <1>0, JobFields DEF StoreInv, TypeOK
    <3>2. IsPrefixOf(Read(j), dlog) => IsPrefixOf(Read(j), dlog')
      BY <2>1, <3>1, PrefixTrans
    <3> QED
      BY <2>1, <3>2 DEF JobInv, ReadIsLog, Latest, Read
  <2>3. ReadSuccess(j)'
    BY <2>1, SuccessKept DEF JobInv, ReadSuccess, Latest
  <2>4. Following(j)'
    <3> SUFFICES ASSUME Latest(j), j.pc \in {"connect", "stream"}
                 PROVE  /\ meta'.file = "ok" => meta'.run = runs
                        /\ rec'.run # 0 => /\ rec'.run = runs
                                           /\ Len(Read(j)) <= Len(rec'.log)
      BY <2>1 DEF Following, Latest, HasRecord, Read
    <3>1. /\ meta.file = "ok" => meta.run = runs
          /\ HasRecord => rec.run = runs /\ Len(Read(j)) <= Len(rec.log)
          /\ Len(Read(j)) <= Len(dlog) /\ Len(Read(j)) \in Nat
      BY <1>0, JobFields DEF JobInv, Following, ReadIsLog, IsPrefixOf
    <3>2. CASE Extended
      <4>1. /\ Len(rec'.log) = Len(rec.log) + Len(Emitted)
            /\ Len(rec.log) \in Nat /\ Len(Emitted) \in Nat
        BY <3>2, LogTypes, ConcatProperties, LenProperties DEF Extended
      <4> QED
        BY <3>1, <3>2, <4>1 DEF Extended
    <3>3. CASE Down
      BY <3>1, <3>3 DEF Down
    <3>4. CASE Booted
      BY <3>1, <3>4 DEF Booted
    <3> QED
      BY <1>3, <3>2, <3>3, <3>4
  <2> QED
    BY <1>1, <2>2, <2>3, <2>4 DEF JobInv
<1> QED
  BY <1>2, <1>3

LEMMA ThreeParts ==
  ASSUME NEW p \in Seq(Line), NEW q \in Seq(Line), NEW r \in Seq(Line)
  PROVE  (p \o q) \o r = p \o (q \o r)
BY ConcatAssociative

\* One whose connection dies with the process is cut; ...
LEMMA AttachedIsCut ==
  ASSUME NEW i, JobInv(i), i.conn = "open", NEW j, j = [i EXCEPT !.conn = "cut"]
  PROVE  JobInv(j) /\ j.conn # "open"
<1>0. i \in Job /\ JobOK(i)
  BY DEF JobInv, JobOK
<1>1. /\ j \in Job /\ j.conn = "cut"
      /\ j.pc = i.pc /\ j.run = i.run /\ j.chan = i.chan /\ j.got = i.got
      /\ j.cursor = i.cursor /\ j.reconnects = i.reconnects /\ j.gh = i.gh
  BY <1>0 DEF Job
<1>2. JobOK(j)
  BY <1>0, <1>1 DEF JobOK
<1> QED
  BY <1>1, <1>2 DEF JobInv, ReadIsLog, Following, ReadSuccess, Latest, Read

\* ... and any other gets what the record emits.
LEMMA AttachedEmits ==
  ASSUME NEW i, JobInv(i), i.conn = "open", StoreInv, StoreInv', LogInMemory,
         LogInMemory', Extended,
         NEW j, j = [i EXCEPT !.chan = @ \o Emitted,
                              !.conn = IF rec'.status = "running" THEN "open" ELSE "ended"]
  PROVE  JobInv(j)'
<1>0. i \in Job /\ JobOK(i) /\ runs' = runs /\ up' /\ rec'.run = rec.run
      /\ Emitted \in Seq(Line) /\ rec'.log = rec.log \o Emitted /\ HasRecord
      /\ i.pc = "stream"
  BY DEF JobInv, JobOK, Extended
<1>1. i.chan \o Emitted \in Seq(Line)
  BY <1>0, JobFields, ConcatProperties
<1>2. /\ j \in Job /\ j.chan = i.chan \o Emitted
      /\ j.conn = IF rec'.status = "running" THEN "open" ELSE "ended"
      /\ j.pc = i.pc /\ j.run = i.run /\ j.got = i.got
      /\ j.cursor = i.cursor /\ j.reconnects = i.reconnects /\ j.gh = i.gh
  BY <1>0, <1>1 DEF Job
<1>3. JobOK(j)'
  BY <1>0, <1>2 DEF JobOK, IsRunning, HasRecord
<1>4. Latest(i) => Read(j) = rec'.log
  <2> SUFFICES ASSUME Latest(i) PROVE Read(j) = rec'.log
    OBVIOUS
  <2>1. Len(Read(i)) = Len(rec.log) /\ IsPrefixOf(Read(i), dlog) /\ IsPrefixOf(rec.log, dlog)
    BY <1>0 DEF JobInv, Following, ReadIsLog, LogInMemory
  <2>2. Read(i) \in Seq(Line) /\ i.got \in Seq(Line) /\ i.chan \in Seq(Line)
    BY <1>0, JobFields
  <2>3. Read(i) = rec.log
    BY <2>1, <2>2, LogTypes, SeqEqual DEF IsPrefixOf
  <2>4. Read(j) = Read(i) \o Emitted
    <3>1. (i.got \o i.chan) \o Emitted = i.got \o (i.chan \o Emitted)
      BY <1>0, <2>2, ThreeParts
    <3> QED
      BY <1>2, <3>1 DEF Read
  <2> QED
    BY <1>0, <2>3, <2>4
<1>5. ReadIsLog(j)'
  <2>1. IsPrefixOf(rec'.log, dlog')
    BY <1>0 DEF LogInMemory, HasRecord
  <2> QED
    BY <1>0, <1>2, <1>4, <2>1 DEF JobInv, ReadIsLog, Latest, Read
<1>6. Following(j)'
  <2>1. Latest(i) =>
          /\ meta'.file = "ok" => meta'.run = runs
          /\ rec.run = runs
    BY <1>0 DEF JobInv, Following, Extended
  <2>2. Len(rec'.log) \in Nat
    BY <1>0, LogTypes, ConcatProperties, LenProperties
  <2>3. Latest(i) => Len(Read(j)) = Len(rec'.log) /\ Len(Read(j)) <= Len(rec'.log)
    BY <1>4, <2>2
  <2>4. Latest(j)' <=> Latest(i)
    BY <1>0, <1>2 DEF Latest
  <2>5. Read(j)' = Read(j)
    BY DEF Read
  <2> QED
    BY <1>0, <2>1, <2>3, <2>4, <2>5 DEF Following, HasRecord
<1>7. ReadSuccess(j)'
  BY <1>0, <1>2 DEF ReadSuccess
<1> QED
  BY <1>3, <1>5, <1>6, <1>7 DEF JobInv

\* So a step of the gateway keeps what holds of a job.
LEMMA GatewayKeepsJob ==
  ASSUME NEW c \in Clients, JobInv(job[c]), StoreInv, StoreInv', LogInMemory, LogInMemory',
         Extended \/ Down \/ Booted \/ Started, NEW j, j = Streamed(c)
  PROVE  JobInv(j)'
<1>1. CASE ~Attached(c)
  BY <1>1, DetachedGoesOn DEF Attached, Streamed
<1>2. CASE Attached(c) /\ ~up'
  <2>1. j = [job[c] EXCEPT !.conn = "cut"] /\ job[c].conn = "open"
    BY <1>2 DEF Attached, Streamed
  <2> QED
    BY <2>1, AttachedIsCut, DetachedGoesOn
<1>3. CASE Attached(c) /\ up'
  <2>1. up /\ IsRunning /\ job[c].conn = "open"
    BY <1>3 DEF JobInv, JobOK, Attached
  <2>2. Extended
    BY <1>3, <2>1 DEF Down, Booted, Started
  <2> QED
    BY <1>3, <2>1, <2>2, AttachedEmits DEF Attached, Streamed
<1> QED
  BY <1>1, <1>2, <1>3

-----------------------------------------------------------------------------
(* Part 5: what a step of the client does to its job                       *)

LEMMA PartShorter ==
  ASSUME NEW p \in Seq(Line), NEW q \in Seq(Line)
  PROVE  Len(p) \in Nat /\ Len(p \o q) \in Nat /\ Len(p) <= Len(p \o q)
<1>1. Len(p) \in Nat /\ Len(q) \in Nat /\ Len(p \o q) = Len(p) + Len(q)
  BY ConcatProperties, LenProperties
<1> QED
  BY <1>1

\* What was read of the log stays its first part, whatever else is dropped.
LEMMA StillRead ==
  ASSUME StoreInv, NEW i \in Job, JobInv(i), NEW j \in Job,
         j.run = i.run, j.cursor = i.cursor, j.got = i.got, j.chan = <<>>
  PROVE  /\ ReadIsLog(j)
         /\ Read(j) = i.got /\ Len(Read(j)) <= Len(Read(i)) /\ Len(Read(j)) \in Nat
<1>1. i \in Job /\ i.got \in Seq(Line) /\ i.chan \in Seq(Line) /\ dlog \in Seq(Line)
  BY JobFields, LogTypes DEF JobInv, JobOK
<1>2. Read(j) = i.got
  BY <1>1, ConcatEmptySeq DEF Read
<1>3. Len(Read(j)) \in Nat /\ Len(Read(j)) <= Len(Read(i))
  BY <1>1, <1>2, PartShorter DEF Read
<1>4. Latest(i) => IsPrefixOf(i.got, dlog)
  BY <1>1, PrefixShort DEF JobInv, ReadIsLog, Read
<1> QED
  BY <1>2, <1>3, <1>4 DEF JobInv, ReadIsLog, Latest

\* A client that no longer listens.
LEMMA Stopped ==
  ASSUME StoreInv, NEW i \in Job, JobInv(i), NEW j \in Job,
         j.run = i.run, j.cursor = i.cursor, j.got = i.got, j.chan = <<>>,
         j.conn = "none", j.gh = "success" => j.pc = "success",
         \/ j.pc = "failure"
         \/ /\ j.pc \in {"confirm", "health", "success"} /\ i.run # 0
            /\ Latest(i) => DurableSuccess
  PROVE  JobInv(j)
<1>1. JobOK(j)
  BY DEF JobInv, JobOK
<1>2. ReadIsLog(j)
  BY StillRead
<1> QED
  BY <1>1, <1>2 DEF JobInv, Following, ReadSuccess, Latest

LEMMA Reporting ==
  ASSUME StoreInv, NEW i \in Job, JobInv(i), i.conn = "none" \/ i.pc # "stream",
         NEW s \in {"success", "failure"},
         IF s = "success" THEN i.pc = "health" ELSE i.pc # "success",
         NEW j, j = WithStatus(i, s) \/ j = [i EXCEPT !.pc = s]
  PROVE  JobInv(j)
<1>1. i \in Job /\ i.chan = <<>> /\ i.conn = "none"
      /\ (i.gh = "success" => i.pc = "success")
  BY DEF JobInv, JobOK
<1>2. /\ j \in Job /\ j.pc = s /\ j.run = i.run /\ j.cursor = i.cursor
      /\ j.got = i.got /\ j.chan = i.chan /\ j.conn = i.conn
      /\ j.gh = i.gh \/ j.gh = s
  BY <1>1 DEF Job, WithStatus
<1>3. CASE s = "success"
  <2>1. i.run # 0 /\ (Latest(i) => DurableSuccess)
    BY <1>3 DEF JobInv, JobOK, ReadSuccess
  <2> QED
    BY <1>1, <1>2, <1>3, <2>1, Stopped
<1>4. CASE s = "failure"
  BY <1>1, <1>2, <1>4, Stopped
<1> QED
  BY <1>3, <1>4

LEMMA AsksAgain ==
  ASSUME StoreInv, NEW i \in Job, JobInv(i), i.pc \in {"connect", "stream"},
         i.reconnects <= MaxReconnects,
         NEW j, j = [i EXCEPT !.pc = "connect", !.conn = "none", !.chan = <<>>,
                              !.reconnects = @ + 1]
  PROVE  JobInv(j)
<1>1. i \in Job /\ i.run # 0 /\ i.run <= runs /\ (i.gh # "success")
      /\ \A k \in 1..Len(i.got) : ~IsExit(i.got[k])
  BY DEF JobInv, JobOK
<1>2. i.reconnects + 1 \in 0..MaxReconnects + 1 /\ <<>> \in Seq(Line)
  BY <1>1, StreamAssumption, EmptySeq DEF Job
<1>3. /\ j \in Job /\ j.pc = "connect" /\ j.conn = "none" /\ j.chan = <<>>
      /\ j.run = i.run /\ j.cursor = i.cursor /\ j.got = i.got /\ j.gh = i.gh
  BY <1>1, <1>2 DEF Job
<1>4. JobOK(j)
  BY <1>1, <1>3 DEF JobOK
<1>5. ReadIsLog(j) /\ Len(Read(j)) <= Len(Read(i)) /\ Len(Read(j)) \in Nat
  BY <1>3, StillRead
<1>6. Len(Read(i)) \in Nat /\ Len(rec.log) \in Nat
  BY <1>1, JobFields, LogTypes
<1>7. Following(j)
  BY <1>3, <1>5, <1>6 DEF JobInv, Following, Latest
<1> QED
  BY <1>3, <1>4, <1>5, <1>7 DEF JobInv, ReadSuccess

\* The gateway has told it of a run: there is nothing read yet.
LEMMA Accepted ==
  ASSUME StoreInv, MetaCurrent, NEW i \in Job, JobInv(i), i.pc \in {"post", "asked"},
         Quiescent, HasRecord, NEW j \in Job, j.pc = "connect", j.run = rec.run,
         j.conn = i.conn, j.chan = i.chan, j.cursor = i.cursor, j.got = i.got,
         j.gh = i.gh
  PROVE  JobInv(j)
<1>1. /\ j.conn = "none" /\ j.chan = <<>> /\ j.got = <<>> /\ j.cursor = 0
      /\ j.gh # "success"
  BY DEF JobInv, JobOK
<1>2. /\ rec.run # 0 /\ rec.run <= runs
      /\ meta.file = "ok" /\ meta.run = rec.run
  BY DEF StoreInv, Coherent, MetaCurrent, Quiescent, HasRecord
<1>3. Read(j) = <<>> /\ Len(<<>>) = 0 /\ IsPrefixOf(<<>>, dlog) /\ 0 <= Len(rec.log)
  BY <1>1, ConcatEmptySeq, EmptySeq, PrefixSelf, LogTypes DEF Read
<1>4. JobOK(j)
  BY <1>1, <1>2, <1>3 DEF JobOK
<1>5. ReadIsLog(j)
  BY <1>1, <1>3 DEF ReadIsLog
<1>6. Following(j)
  BY <1>1, <1>2, <1>3 DEF Following, Latest
<1> QED
  BY <1>4, <1>5, <1>6 DEF JobInv, ReadSuccess

\* The new connection carries all that the record has after what was read.
LEMMA Connected ==
  ASSUME StoreInv, LogInMemory, NEW i \in Job, JobInv(i), i.pc = "connect",
         i.reconnects <= MaxReconnects, Quiescent, HasRecord,
         NEW j, j = [i EXCEPT !.pc = "stream",
                              !.chan = SubSeq(rec.log, i.cursor + 1, Len(rec.log)),
                              !.conn = IF rec.status = "running" THEN "open" ELSE "ended"]
  PROVE  JobInv(j)
<1> DEFINE rest == SubSeq(rec.log, i.cursor + 1, Len(rec.log))
<1>1. /\ rest \in Seq(Line)
  <2>1. i.cursor + 1 \in Int /\ Len(rec.log) \in Int
        /\ \A k \in (i.cursor + 1)..Len(rec.log) : rec.log[k] \in Line
    <3>1. i.cursor \in Nat /\ rec.log \in Seq(Line) /\ Len(rec.log) \in Nat
      BY JobFields, LogTypes
    <3>2. \A k \in 1..Len(rec.log) : rec.log[k] \in Line
      BY <3>1, ElementOfSeq
    <3> QED
      BY <3>1, <3>2
  <2> QED
    BY <2>1, SubSeqProperties
<1>2. Latest(i) => i.cursor = Len(i.got) /\ i.got \o rest = rec.log
  <2> SUFFICES ASSUME Latest(i)
               PROVE  i.cursor = Len(i.got) /\ i.got \o rest = rec.log
    OBVIOUS
  <2>1. /\ i.got \in Seq(Line) /\ i.chan \in Seq(Line) /\ rec.log \in Seq(Line)
        /\ dlog \in Seq(Line) /\ Len(rec.log) \in Nat
    BY JobFields, LogTypes
  <2>2. /\ i.cursor = Len(i.got) /\ IsPrefixOf(i.got \o i.chan, dlog)
        /\ Len(i.got \o i.chan) <= Len(rec.log)
    BY DEF JobInv, ReadIsLog, Following, Read
  <2>3. i.got \o SubSeq(rec.log, Len(i.got) + 1, Len(rec.log)) = rec.log
    BY <2>1, <2>2, RestFollows DEF LogInMemory
  <2> QED
    BY <2>2, <2>3
<1> HIDE DEF rest
<1>3. /\ j \in Job /\ j.pc = "stream" /\ j.chan = rest
      /\ j.conn = IF rec.status = "running" THEN "open" ELSE "ended"
      /\ j.run = i.run /\ j.got = i.got /\ j.cursor = i.cursor
      /\ j.reconnects = i.reconnects /\ j.gh = i.gh
  BY <1>1 DEF Job, rest
<1>4. JobOK(j)
  BY <1>3 DEF JobInv, JobOK, Quiescent, IsRunning
<1>5. Latest(i) => Read(j) = rec.log
  BY <1>2, <1>3 DEF Read
<1>6. ReadIsLog(j)
  <2>1. IsPrefixOf(rec.log, dlog)
    BY DEF LogInMemory
  <2> QED
    BY <1>2, <1>3, <1>5, <2>1 DEF ReadIsLog, Latest
<1>7. Following(j)
  <2>1. Latest(i) => rec.run = runs /\ (meta.file = "ok" => meta.run = runs)
    BY DEF JobInv, Following
  <2>2. Latest(i) => Len(Read(j)) = Len(rec.log) /\ Len(Read(j)) <= Len(rec.log)
    BY <1>5, LogTypes
  <2>3. Latest(j) <=> Latest(i)
    BY <1>3 DEF Latest
  <2> QED
    BY <2>1, <2>2, <2>3 DEF Following
<1> QED
  BY <1>3, <1>4, <1>6, <1>7 DEF JobInv, ReadSuccess

\* A line that is read is counted; what is read or on its way is the same.
LEMMA LineRead ==
  ASSUME StoreInv, NEW i \in Job, JobInv(i), i.pc = "stream", i.chan # <<>>,
         ~IsExit(Head(i.chan)), NEW fatal \in BOOLEAN,
         NEW j, j = [i EXCEPT !.cursor = @ + 1, !.fatal = fatal, !.chan = Tail(@),
                              !.got = Append(@, Head(i.chan))]
  PROVE  JobInv(j)
<1>1. i.got \in Seq(Line) /\ i.chan \in Seq(Line) /\ i.cursor \in Nat
  BY JobFields
<1>2. /\ Tail(i.chan) \in Seq(Line) /\ Append(i.got, Head(i.chan)) \in Seq(Line)
      /\ Len(Append(i.got, Head(i.chan))) = Len(i.got) + 1
      /\ Append(i.got, Head(i.chan)) \o Tail(i.chan) = i.got \o i.chan
      /\ Head(i.chan) \in Line
  BY <1>1, HeadMoves
<1>3. /\ j \in Job /\ j.chan = Tail(i.chan) /\ j.got = Append(i.got, Head(i.chan))
      /\ j.cursor = i.cursor + 1 /\ j.pc = i.pc /\ j.conn = i.conn /\ j.run = i.run
      /\ j.reconnects = i.reconnects /\ j.gh = i.gh
  <2> DEFINE n == i.cursor + 1
             t == Tail(i.chan)
             g == Append(i.got, Head(i.chan))
  <2>1. n \in Nat /\ t \in Seq(Line) /\ g \in Seq(Line)
    BY <1>1, <1>2
  <2>2. j = [i EXCEPT !.cursor = n, !.fatal = fatal, !.chan = t, !.got = g]
    OBVIOUS
  <2> HIDE DEF n, t, g
  <2>3. /\ j \in Job /\ j.chan = t /\ j.got = g /\ j.cursor = n
        /\ j.pc = i.pc /\ j.conn = i.conn /\ j.run = i.run
        /\ j.reconnects = i.reconnects /\ j.gh = i.gh
    BY <2>1, <2>2 DEF Job
  <2> QED
    BY <2>3 DEF n, t, g
<1>4. \A k \in 1..Len(j.got) : ~IsExit(j.got[k])
  <2>1. \A k \in 1..Len(i.got) : ~IsExit(i.got[k])
    BY DEF JobInv, JobOK
  <2> QED
    BY <1>1, <1>2, <1>3, <2>1, NoExitAdded
<1>5. JobOK(j)
  BY <1>3, <1>4 DEF JobInv, JobOK
<1>6. Read(j) = Read(i)
  BY <1>2, <1>3 DEF Read
<1> QED
  BY <1>2, <1>3, <1>5, <1>6
  DEF JobInv, ReadIsLog, Following, ReadSuccess, Latest

\* The first verdict that is read is the first of the log.
LEMMA VerdictRead ==
  ASSUME StoreInv, NEW i \in Job, JobInv(i), i.chan # <<>>, Latest(i),
         IsExit(Head(i.chan)), VerdictOf(Head(i.chan)) = "completed"
  PROVE  DurableSuccess
<1>1. i.got \in Seq(Line) /\ i.chan \in Seq(Line) /\ dlog \in Seq(Line)
  BY JobFields, LogTypes
<1>2. IsPrefixOf(i.got \o i.chan, dlog) /\ \A k \in 1..Len(i.got) : ~IsExit(i.got[k])
  BY DEF JobInv, JobOK, ReadIsLog, Read
<1>3. \E k \in DOMAIN dlog : FirstExit(dlog, k) /\ dlog[k] = Head(i.chan)
  BY <1>1, <1>2, FirstFollows
<1>4. Head(i.chan).text = "EXIT:0"
  BY DEF VerdictOf
<1> QED
  BY <1>3, <1>4 DEF DurableSuccess

-----------------------------------------------------------------------------
(* Part 6: every step keeps the invariant                                  *)

LEMMA ClientMoves ==
  ASSUME StoreInv, MetaCurrent, LogInMemory, NEW c \in Clients, JobInv(job[c]),
         ClientStep(c) \/ Refused(c) \/ Cut(c), ~Trigger(c)
  PROVE  \E j : Set(c, j) /\ JobInv(j)
<1>0. job[c] \in Job /\ JobOK(job[c])
  BY DEF JobInv, JobOK
<1>1. ASSUME NEW s \in {"success", "failure"}, Reports(c, s), job[c].pc # "stream",
             IF s = "success" THEN job[c].pc = "health" ELSE job[c].pc # "success"
      PROVE  \E j : Set(c, j) /\ JobInv(j)
  <2>1. JobInv(WithStatus(job[c], s)) /\ JobInv([job[c] EXCEPT !.pc = s])
    BY <1>0, <1>1, Reporting
  <2> QED
    BY <1>1, <2>1 DEF Reports
<1>2. CASE Refused(c) \/ GivesUp(c) \/ Denied(c) \/ Unhealthy(c) \/ Healthy(c)
  BY <1>1, <1>2 DEF Refused, GivesUp, Denied, Unhealthy, Healthy, Is
<1>3. CASE NotSent(c)
  <2>1. JobInv([job[c] EXCEPT !.pc = "failure"])
    BY <1>0, <1>3, Reporting DEF NotSent, Is
  <2> QED
    BY <1>3, <2>1 DEF NotSent, Throws
<1>4. CASE Attach(c)
  <2> DEFINE j == [job[c] EXCEPT !.pc = "connect", !.run = rec.run]
  <2>1. HasRecord /\ rec.run \in 0..MaxRuns
    BY <1>4 DEF Attach, IsRunning, StoreInv, TypeOK, Record
  <2>2. /\ j \in Job /\ j.pc = "connect" /\ j.run = rec.run /\ j.conn = job[c].conn
        /\ j.chan = job[c].chan /\ j.cursor = job[c].cursor /\ j.got = job[c].got
        /\ j.gh = job[c].gh
    BY <1>0, <2>1 DEF Job
  <2>3. Set(c, j)
    BY <1>4 DEF Attach
  <2> HIDE DEF j
  <2>4. JobInv(j)
    BY <1>0, <1>4, <2>1, <2>2, Accepted DEF Attach, Is
  <2> QED
    BY <2>3, <2>4
<1>5. CASE Answered(c)
  <2>1. CASE up /\ rec.run = job[c].run
    <3> DEFINE j == [job[c] EXCEPT !.pc = "connect"]
    <3>1. /\ j \in Job /\ j.pc = "connect" /\ j.run = rec.run /\ j.conn = job[c].conn
          /\ j.chan = job[c].chan /\ j.cursor = job[c].cursor /\ j.got = job[c].got
          /\ j.gh = job[c].gh
      BY <1>0, <2>1 DEF Job
    <3>2. Set(c, j) /\ Quiescent /\ job[c].pc = "asked"
      BY <1>5, <2>1 DEF Answered, Quiescent, Is
    <3>3. HasRecord
      BY <1>0, <2>1, <3>2 DEF JobOK, HasRecord
    <3> HIDE DEF j
    <3>4. JobInv(j)
      BY <1>0, <3>1, <3>2, <3>3, Accepted
    <3> QED
      BY <3>2, <3>4
  <2>2. CASE ~(up /\ rec.run = job[c].run)
    <3>1. JobInv([job[c] EXCEPT !.pc = "failure"])
      BY <1>0, <1>5, Reporting DEF Answered, Is
    <3> QED
      BY <1>5, <2>2, <3>1 DEF Answered, Throws
  <2> QED
    BY <2>1, <2>2
<1>6. CASE Connect(c)
  <2>1. JobInv([job[c] EXCEPT
                  !.pc = "stream",
                  !.chan = SubSeq(rec.log, job[c].cursor + 1, Len(rec.log)),
                  !.conn = IF rec.status = "running" THEN "open" ELSE "ended"])
    BY <1>0, <1>6, Connected DEF Connect, Is
  <2> QED
    BY <1>6, <2>1 DEF Connect
<1>7. CASE NoStream(c) \/ StreamEnds(c) \/ Cut(c)
  <2>1. job[c].pc \in {"connect", "stream"} /\ job[c].reconnects <= MaxReconnects
    BY <1>0, <1>7 DEF NoStream, StreamEnds, Cut, Is, JobOK
  <2>2. JobInv([job[c] EXCEPT !.pc = "connect", !.conn = "none", !.chan = <<>>,
                              !.reconnects = @ + 1])
    BY <1>0, <2>1, AsksAgain
  <2> QED
    BY <1>7, <2>2 DEF NoStream, StreamEnds, Cut, Again
<1>8. CASE ReadLine(c)
  <2>1. PICK fatal \in {job[c].fatal, TRUE} :
          Set(c, [job[c] EXCEPT !.cursor = @ + 1, !.fatal = fatal,
                                !.chan = Tail(@), !.got = Append(@, Head(job[c].chan))])
    BY <1>8 DEF ReadLine
  <2>2. fatal \in BOOLEAN
    BY <1>0 DEF Job
  <2>3. JobInv([job[c] EXCEPT !.cursor = @ + 1, !.fatal = fatal,
                              !.chan = Tail(@), !.got = Append(@, Head(job[c].chan))])
    BY <1>0, <1>8, <2>2, LineRead DEF ReadLine, Is
  <2> QED
    BY <2>1, <2>3
<1>9. CASE ReadExit(c)
  <2> DEFINE read == [job[c] EXCEPT !.conn = "none", !.chan = <<>>]
             good == VerdictOf(Head(job[c].chan)) = "completed" /\ ~job[c].fatal
  <2>1. job[c].run # 0 /\ job[c].gh # "success"
    BY <1>0, <1>9 DEF ReadExit, Is, JobOK
  <2>2. ASSUME NEW p \in {"confirm", "failure"}, NEW j,
               j = WithStatus(read, p) \/ j = [read EXCEPT !.pc = p],
               p = "confirm" => j = [read EXCEPT !.pc = p] /\ good
        PROVE  JobInv(j)
    <3>0. /\ read \in Job /\ read.run = job[c].run /\ read.cursor = job[c].cursor
          /\ read.got = job[c].got /\ read.chan = <<>> /\ read.conn = "none"
          /\ read.gh = job[c].gh
      BY <1>0, EmptySeq DEF Job
    <3> HIDE DEF read
    <3>1. /\ j \in Job /\ j.pc = p /\ j.run = job[c].run /\ j.cursor = job[c].cursor
          /\ j.got = job[c].got /\ j.chan = <<>> /\ j.conn = "none"
          /\ j.gh = job[c].gh \/ (j.gh = p /\ p = "failure")
      <4>1. CASE j = [read EXCEPT !.pc = p]
        BY <3>0, <4>1 DEF Job
      <4>2. CASE j = WithStatus(read, p) /\ p = "failure"
        BY <3>0, <4>2 DEF Job, WithStatus
      <4> QED
        BY <2>2, <4>1, <4>2
    <3>2. p = "confirm" /\ Latest(job[c]) => DurableSuccess
      BY <1>0, <1>9, <2>2, VerdictRead DEF ReadExit
    <3> QED
      BY <1>0, <2>1, <3>1, <3>2, Stopped
  <2>3. CASE good
    BY <1>9, <2>2, <2>3 DEF ReadExit
  <2>4. CASE ~good
    BY <1>9, <2>2, <2>4 DEF ReadExit
  <2> QED
    BY <2>3, <2>4
<1>10. CASE Confirmed(c)
  <2> DEFINE j == [job[c] EXCEPT !.pc = "health"]
  <2>1. /\ j \in Job /\ j.pc = "health" /\ j.run = job[c].run
        /\ j.cursor = job[c].cursor /\ j.got = job[c].got /\ j.chan = job[c].chan
        /\ j.conn = job[c].conn /\ j.gh = job[c].gh
    BY <1>0 DEF Job
  <2>2. /\ job[c].chan = <<>> /\ job[c].conn = "none" /\ job[c].gh # "success"
        /\ job[c].run # 0 /\ (Latest(job[c]) => DurableSuccess)
    BY <1>0, <1>10 DEF Confirmed, Is, JobOK, JobInv, ReadSuccess
  <2> HIDE DEF j
  <2>3. JobInv(j)
    BY <1>0, <2>1, <2>2, Stopped
  <2> QED
    BY <1>10, <2>3 DEF Confirmed, j
<1> QED
  BY <1>2, <1>3, <1>4, <1>5, <1>6, <1>7, <1>8, <1>9, <1>10 DEF ClientStep

\* What holds of a job's state holds of the job that is in it.
LEMMA JobIsIn ==
  ASSUME NEW c \in Clients, NEW j, job'[c] = j, JobInv(j)'
  PROVE  JobInv(job[c])'
BY DEF JobInv, JobOK, ReadIsLog, Following, ReadSuccess, Latest, Read

LEMMA StreamInvInit == Init => StreamInv
<1> SUFFICES ASSUME Init PROVE StreamInv
  OBVIOUS
<1>1. StoreInit /\ job \in [Clients -> {NewJob, [NewJob EXCEPT !.gh = "none"]}]
  BY DEF Init
<1>2. StoreInv /\ MetaCurrent
  BY <1>1, StoreInvInit, MetaCurrentInit
<1>3. LogInMemory
  BY <1>1 DEF StoreInit, NoRecord, LogInMemory, HasRecord, IsRunning
<1>4. ASSUME NEW c \in Clients PROVE JobInv(job[c])
  <2>0. /\ <<>> \in Seq(Line) /\ 0 \in 0..MaxRuns /\ 0 \in 0..MaxReconnects + 1
    BY StoreAssumption, StreamAssumption, EmptySeq
  <2>1. /\ job[c] \in Job /\ job[c].pc = "post" /\ job[c].conn = "none"
        /\ job[c].chan = <<>> /\ job[c].got = <<>> /\ job[c].cursor = 0
        /\ job[c].run = 0 /\ job[c].gh # "success"
    <3>0. /\ NewJob \in Job /\ NewJob.pc = "post" /\ NewJob.conn = "none"
          /\ NewJob.chan = <<>> /\ NewJob.got = <<>> /\ NewJob.cursor = 0
          /\ NewJob.run = 0 /\ NewJob.gh # "success"
      BY <2>0 DEF NewJob, Job
    <3>1. CASE job[c] = NewJob
      BY <3>0, <3>1
    <3>2. CASE job[c] = [NewJob EXCEPT !.gh = "none"]
      BY <3>0, <3>2 DEF Job
    <3> QED
      BY <1>1, <3>1, <3>2
  <2>2. runs = 0 /\ Len(<<>>) = 0
    BY <1>1, EmptySeq DEF StoreInit
  <2>3. JobOK(job[c])
    BY <2>1, <2>2 DEF JobOK
  <2> QED
    BY <2>2, <2>3 DEF JobInv, ReadIsLog, Following, ReadSuccess, Latest
<1>5. job \in [Clients -> Job]
  BY <1>1, <1>4 DEF JobInv, JobOK
<1> QED
  BY <1>2, <1>3, <1>4, <1>5 DEF StreamInv

\* A job that starts a run has read nothing of it.
LEMMA OwnRun ==
  ASSUME ~LostWrites, StoreInv, NEW i \in Job, JobInv(i), i.pc = "post", Start,
         NEW j, j = [i EXCEPT !.pc = "asked", !.run = runs + 1]
  PROVE  JobInv(j)'
<1>1. dlog' = <<>> /\ runs' = runs + 1 /\ runs \in Nat /\ runs + 1 \in 0..MaxRuns
  BY StoreAssumption DEF Start, StoreInv, TypeOK
<1>2. /\ j \in Job /\ j.pc = "asked" /\ j.run = runs + 1 /\ j.conn = i.conn
      /\ j.chan = i.chan /\ j.got = i.got /\ j.cursor = i.cursor /\ j.gh = i.gh
  BY <1>1 DEF Job
<1>3. /\ j.conn = "none" /\ j.chan = <<>> /\ j.got = <<>> /\ j.cursor = 0
      /\ j.gh # "success"
  BY <1>2 DEF JobInv, JobOK
<1>4. Read(j) = <<>> /\ Len(<<>>) = 0 /\ IsPrefixOf(<<>>, <<>>) /\ Read(j)' = Read(j)
  BY <1>3, EmptySeq, ConcatEmptySeq, PrefixSelf DEF Read
<1>5. j.run <= runs' /\ j.run # 0
  BY <1>1, <1>2
<1>6. JobOK(j)'
  BY <1>2, <1>3, <1>4, <1>5 DEF JobOK
<1> QED
  BY <1>1, <1>2, <1>3, <1>4, <1>6 DEF JobInv, ReadIsLog, Following, ReadSuccess

\* A job that starts a run: every other one is not of the latest run any more.
LEMMA TriggerKeeps ==
  ASSUME ~LostWrites, StreamInv, StoreInv', NEW c \in Clients, Trigger(c)
  PROVE  LogInMemory' /\ job' \in [Clients -> Job] /\ \A d \in Clients : JobInv(job[d])'
<1>1. Started /\ LogInMemory' /\ rec'.run = runs + 1 /\ dlog' = <<>> /\ runs' = runs + 1
  BY RunStarts DEF Trigger, Start, NoRecord
<1>2. PICK j : j = [job[c] EXCEPT !.pc = "asked", !.run = runs + 1]
  OBVIOUS
<1>3. /\ job' = [job EXCEPT ![c] = j] /\ job \in [Clients -> Job]
      /\ job[c].pc = "post" /\ Start /\ job[c] \in Job /\ JobInv(job[c])
  BY <1>2 DEF Trigger, Set, StreamInv, Is, JobInv, JobOK
<1>4. JobInv(j)' /\ job'[c] = j /\ job' \in [Clients -> Job]
  <2>1. JobInv(j)'
    BY <1>2, <1>3, OwnRun DEF StreamInv
  <2> QED
    BY <1>3, <2>1 DEF JobInv, JobOK
<1>5. ASSUME NEW d \in Clients PROVE JobInv(job[d])'
  <2>1. CASE d = c
    BY <1>4, <2>1, JobIsIn
  <2>2. CASE d # c
    <3>1. job'[d] = job[d]
      BY <1>3, <2>2
    <3>2. JobInv(job[d]) /\ job[d].conn # "open"
      BY <1>1 DEF StreamInv, JobInv, JobOK, Started
    <3> QED
      BY <1>1, <3>1, <3>2, DetachedGoesOn, JobIsIn DEF StreamInv
  <2> QED
    BY <2>1, <2>2
<1> QED
  BY <1>1, <1>4, <1>5

LEMMA JobUnmoved ==
  ASSUME NEW j, JobInv(j), UNCHANGED storeVars
  PROVE  JobInv(j)'
BY DEF storeVars, JobInv, JobOK, ReadIsLog, Following, ReadSuccess, Latest, Read,
       DurableSuccess, HasRecord, IsRunning

LEMMA StreamInvStep ==
  ASSUME ~LostWrites, StreamInv, [Next]_streamVars
  PROVE  StreamInv'
<1>0. StoreInv /\ MetaCurrent /\ LogInMemory /\ job \in [Clients -> Job]
      /\ \A c \in Clients : JobInv(job[c])
  BY DEF StreamInv
<1>1. [AnyLengthNext]_storeVars
  BY <1>0, StreamStepOfStore
<1>2. StoreInv' /\ MetaCurrent'
  BY <1>0, <1>1, StoreInvStep, MetaCurrentStep
<1>3. CASE GatewayStep
  <2>1. (Extended \/ Down \/ Booted \/ Started) /\ LogInMemory'
    BY <1>0, <1>3, GatewayKinds
  <2>2. job' = [c \in Clients |-> Streamed(c)]
    BY <1>3 DEF GatewayStep
  <2>3. ASSUME NEW c \in Clients PROVE JobInv(job[c])'
    <3>1. PICK j : j = Streamed(c)
      OBVIOUS
    <3>2. JobInv(j)'
      BY <1>0, <1>2, <2>1, <3>1, GatewayKeepsJob
    <3>3. job'[c] = j
      BY <2>2, <3>1
    <3> QED
      BY <3>2, <3>3, JobIsIn
  <2>4. job' \in [Clients -> Job]
    BY <2>2, <2>3 DEF JobInv, JobOK
  <2> QED
    BY <1>2, <2>1, <2>3, <2>4 DEF StreamInv
<1>4. ASSUME NEW c \in Clients, ClientStep(c) \/ Refused(c) \/ Cut(c)
      PROVE  StreamInv'
  <2>1. CASE Trigger(c)
    BY <1>2, <2>1, TriggerKeeps DEF StreamInv
  <2>2. CASE ~Trigger(c)
    <3>1. PICK j : Set(c, j) /\ JobInv(j)
      BY <1>0, <1>4, <2>2, ClientMoves
    <3>2. UNCHANGED storeVars
      BY <1>4, <2>2, ClientLeavesStore
    <3>3. job' = [job EXCEPT ![c] = j]
      BY <3>1 DEF Set
    <3>4. LogInMemory'
      BY <1>0, <3>2 DEF storeVars, LogInMemory, HasRecord, IsRunning
    <3>5. ASSUME NEW d \in Clients PROVE JobInv(job[d])'
      <4>1. PICK k : k = job'[d]
        OBVIOUS
      <4>2. JobInv(k)
        <5>1. CASE d = c
          BY <1>0, <3>1, <3>3, <4>1, <5>1
        <5>2. CASE d # c
          BY <1>0, <3>3, <4>1, <5>2
        <5> QED
          BY <5>1, <5>2
      <4>3. JobInv(k)'
        BY <3>2, <4>2, JobUnmoved
      <4> QED
        BY <4>1, <4>3, JobIsIn
    <3> QED
      BY <1>0, <1>2, <3>1, <3>3, <3>4, <3>5 DEF StreamInv, JobInv, JobOK
  <2> QED
    BY <2>1, <2>2
<1>5. CASE UNCHANGED streamVars
  <2>1. UNCHANGED storeVars /\ job' = job
    BY <1>5 DEF streamVars
  <2>2. LogInMemory'
    BY <1>0, <2>1 DEF storeVars, LogInMemory, HasRecord, IsRunning
  <2>3. ASSUME NEW d \in Clients PROVE JobInv(job[d])'
    <3>1. PICK k : k = job[d]
      OBVIOUS
    <3>2. JobInv(k)'
      BY <1>0, <2>1, <3>1, JobUnmoved
    <3> QED
      BY <2>1, <3>1, <3>2, JobIsIn
  <2> QED
    BY <1>0, <1>2, <2>1, <2>2, <2>3 DEF StreamInv
<1> QED
  BY <1>3, <1>4, <1>5 DEF Next

LEMMA StreamInvariance == ASSUME ~LostWrites PROVE Spec => []StreamInv
<1>1. StreamInv /\ [Next]_streamVars => StreamInv'
  BY StreamInvStep
<1> QED
  BY <1>1, StreamInvInit, PTL DEF Spec

-----------------------------------------------------------------------------
(* Part 7: types, lost writes or not                                       *)

TypedJob(j) ==
  /\ j \in Job
  /\ j.conn # "none" <=> j.pc = "stream"
  /\ j.pc = "stream" => j.reconnects <= MaxReconnects

LEMMA Slice ==
  ASSUME NEW s \in Seq(Line), NEW n \in Nat
  PROVE  SubSeq(s, n + 1, Len(s)) \in Seq(Line)
<1>1. n + 1 \in Int /\ Len(s) \in Int /\ \A k \in (n + 1)..Len(s) : s[k] \in Line
  BY LenProperties, ElementOfSeq
<1> QED
  BY <1>1, SubSeqProperties

LEMMA StreamedIsTyped ==
  ASSUME StoreInv, StoreInv', NEW c \in Clients, TypedJob(job[c])
  PROVE  TypedJob(Streamed(c))
<1>1. Emitted \in Seq(Line)
  BY LogTypes, Slice DEF Emitted, StoreInv, TypeOK, Record
<1>2. job[c].chan \o Emitted \in Seq(Line) /\ job[c] \in Job
  BY <1>1, JobFields, ConcatProperties DEF TypedJob
<1>3. [job[c] EXCEPT !.chan = @ \o Emitted,
                     !.conn = IF rec'.status = "running" THEN "open" ELSE "ended"] \in Job
  BY <1>2 DEF Job
<1>4. [job[c] EXCEPT !.conn = "cut"] \in Job
  BY <1>2 DEF Job
<1>5. /\ Streamed(c) \in Job
      /\ Streamed(c).pc = job[c].pc /\ Streamed(c).reconnects = job[c].reconnects
      /\ Streamed(c).conn # "none" <=> job[c].conn # "none"
  BY <1>2, <1>3, <1>4 DEF Streamed, Attached, Job
<1> QED
  BY <1>5 DEF TypedJob

LEMMA TypedMoves ==
  ASSUME StoreInv, NEW c \in Clients, TypedJob(job[c]),
         ClientStep(c) \/ Refused(c) \/ Cut(c)
  PROVE  \E j : Set(c, j) /\ TypedJob(j)
<1>0. job[c] \in Job
  BY DEF TypedJob
<1>1. ASSUME NEW s \in {"success", "failure"}, Reports(c, s), job[c].pc # "stream"
      PROVE  \E j : Set(c, j) /\ TypedJob(j)
  <2>1. TypedJob(WithStatus(job[c], s)) /\ TypedJob([job[c] EXCEPT !.pc = s])
    BY <1>0, <1>1 DEF TypedJob, WithStatus, Job
  <2> QED
    BY <1>1, <2>1 DEF Reports
<1>2. CASE Refused(c) \/ GivesUp(c) \/ Denied(c) \/ Unhealthy(c) \/ Healthy(c)
  BY <1>1, <1>2 DEF Refused, GivesUp, Denied, Unhealthy, Healthy, Is
<1>3. ASSUME NEW p \in {"failure", "connect", "health"}, job[c].pc # "stream"
      PROVE  TypedJob([job[c] EXCEPT !.pc = p])
  BY <1>0, <1>3 DEF TypedJob, Job
<1>4. CASE NotSent(c) \/ Answered(c) \/ Confirmed(c)
  BY <1>3, <1>4 DEF NotSent, Answered, Confirmed, Throws, Is
<1>5. CASE Attach(c) \/ Trigger(c)
  <2>1. rec.run \in 0..MaxRuns /\ (Start => runs + 1 \in 0..MaxRuns) /\ job[c].pc = "post"
    BY <1>5, StoreAssumption DEF Attach, Trigger, Start, StoreInv, TypeOK, Record, Is
  <2>2. \A p \in {"connect", "asked"}, r \in 0..MaxRuns :
          TypedJob([job[c] EXCEPT !.pc = p, !.run = r])
    BY <1>0, <2>1 DEF TypedJob, Job
  <2> QED
    BY <1>5, <2>1, <2>2 DEF Attach, Trigger
<1>6. CASE Connect(c)
  <2> DEFINE rest == SubSeq(rec.log, job[c].cursor + 1, Len(rec.log))
  <2>1. rest \in Seq(Line)
    BY <1>0, LogTypes, JobFields, Slice
  <2> HIDE DEF rest
  <2>2. TypedJob([job[c] EXCEPT
                    !.pc = "stream", !.chan = rest,
                    !.conn = IF rec.status = "running" THEN "open" ELSE "ended"])
    BY <1>0, <1>6, <2>1 DEF TypedJob, Job, Connect
  <2> QED
    BY <1>6, <2>2 DEF Connect, rest
<1>7. CASE NoStream(c) \/ StreamEnds(c) \/ Cut(c)
  <2>1. job[c].reconnects + 1 \in 0..MaxReconnects + 1 /\ <<>> \in Seq(Line)
    BY <1>0, <1>7, StreamAssumption, EmptySeq
    DEF NoStream, StreamEnds, Cut, Is, TypedJob, Job
  <2>2. TypedJob([job[c] EXCEPT !.pc = "connect", !.conn = "none", !.chan = <<>>,
                                !.reconnects = @ + 1])
    BY <1>0, <2>1 DEF TypedJob, Job
  <2> QED
    BY <1>7, <2>2 DEF NoStream, StreamEnds, Cut, Again
<1>8. CASE ReadLine(c)
  <2> DEFINE n == job[c].cursor + 1
             t == Tail(job[c].chan)
             g == Append(job[c].got, Head(job[c].chan))
  <2>1. n \in Nat /\ t \in Seq(Line) /\ g \in Seq(Line)
    <3>1. /\ job[c].got \in Seq(Line) /\ job[c].chan \in Seq(Line)
          /\ job[c].cursor \in Nat /\ job[c].chan # <<>>
      BY <1>0, <1>8, JobFields DEF ReadLine
    <3>2. t \in Seq(Line) /\ g \in Seq(Line)
      BY <3>1, HeadMoves
    <3> QED
      BY <3>1, <3>2
  <2>2. PICK fatal \in {job[c].fatal, TRUE} :
          Set(c, [job[c] EXCEPT !.cursor = n, !.fatal = fatal, !.chan = t, !.got = g])
    BY <1>8 DEF ReadLine
  <2> HIDE DEF n, t, g
  <2>3. TypedJob([job[c] EXCEPT !.cursor = n, !.fatal = fatal, !.chan = t, !.got = g])
    BY <1>0, <2>1, <2>2 DEF TypedJob, Job
  <2> QED
    BY <2>2, <2>3
<1>9. CASE ReadExit(c)
  <2> DEFINE read == [job[c] EXCEPT !.conn = "none", !.chan = <<>>]
  <2>1. read \in Job /\ read.conn = "none"
    BY <1>0, EmptySeq DEF Job
  <2> HIDE DEF read
  <2>2. /\ TypedJob([read EXCEPT !.pc = "confirm"])
        /\ TypedJob([read EXCEPT !.pc = "failure"])
        /\ TypedJob(WithStatus(read, "failure"))
    BY <2>1 DEF TypedJob, Job, WithStatus
  <2> QED
    BY <1>9, <2>2 DEF ReadExit, read
<1> QED
  BY <1>2, <1>4, <1>5, <1>6, <1>7, <1>8, <1>9 DEF ClientStep

LEMMA StreamTypesStep ==
  ASSUME StoreInv, StoreInv', StreamTypeOK,
         \A c \in Clients : TypedJob(job[c]), [Next]_streamVars
  PROVE  job' \in [Clients -> Job] /\ \A c \in Clients : TypedJob(job'[c])
<1>1. CASE GatewayStep
  <2>1. job' = [c \in Clients |-> Streamed(c)]
    BY <1>1 DEF GatewayStep
  <2>2. \A c \in Clients : TypedJob(Streamed(c))
    BY StreamedIsTyped
  <2> QED
    BY <2>1, <2>2 DEF TypedJob
<1>2. ASSUME NEW c \in Clients, ClientStep(c) \/ Refused(c) \/ Cut(c)
      PROVE  job' \in [Clients -> Job] /\ \A d \in Clients : TypedJob(job'[d])
  <2>1. PICK j : Set(c, j) /\ TypedJob(j)
    BY <1>2, TypedMoves
  <2> QED
    BY <2>1 DEF Set, TypedJob, StreamTypeOK
<1>3. CASE UNCHANGED streamVars
  BY <1>3 DEF streamVars, StreamTypeOK
<1> QED
  BY <1>1, <1>2, <1>3 DEF Next

\* Every job is in a state the client's code describes, and the gateway streams
\* only to one that listens, for any number of jobs, runs and reconnects and
\* whatever writes are lost.
THEOREM StreamTypes == Spec => []StreamTypeOK
<1> DEFINE Typed == StreamTypeOK /\ \A c \in Clients : TypedJob(job[c])
<1>1. Init => StoreInv /\ Typed
  <2> SUFFICES ASSUME Init PROVE StoreInv /\ Typed
    OBVIOUS
  <2>1. StreamInv
    BY StreamInvInit
  <2> QED
    BY <2>1 DEF StreamInv, JobInv, JobOK, StreamTypeOK, TypedJob, Is
<1>2. StoreInv /\ Typed /\ [Next]_streamVars => (StoreInv /\ Typed)'
  <2> SUFFICES ASSUME StoreInv, Typed, [Next]_streamVars PROVE StoreInv' /\ Typed'
    OBVIOUS
  <2>1. StoreInv'
    BY StreamStepOfStore, StoreInvStep
  <2>2. job' \in [Clients -> Job] /\ \A c \in Clients : TypedJob(job'[c])
    BY <2>1, StreamTypesStep
  <2> QED
    BY <2>1, <2>2 DEF TypedJob, StreamTypeOK, Is
<1>3. StoreInv /\ Typed => StreamTypeOK
  OBVIOUS
<1> QED
  BY <1>1, <1>2, <1>3, PTL DEF Spec

-----------------------------------------------------------------------------
(* Part 8: what the job can rely on                                        *)

\* Across reconnects, restarts, torn metadata and hand-overs of the log to
\* another process, what a job has read is the log of its run from the first
\* line on: the cursor of actions/deploy counts what the gateway counts.
THEOREM JobsReadTheLog == ASSUME ~LostWrites PROVE Spec => []ReadsTheLog
<1>1. StreamInv => ReadsTheLog
  <2> SUFFICES ASSUME StreamInv, NEW c \in Clients, Latest(job[c])
               PROVE  /\ job[c].cursor = Len(job[c].got)
                      /\ job[c].cursor <= Len(dlog)
                      /\ job[c].got = SubSeq(dlog, 1, job[c].cursor)
    BY DEF ReadsTheLog, Latest
  <2>1. /\ job[c].got \in Seq(Line) /\ job[c].chan \in Seq(Line)
        /\ dlog \in Seq(Line)
    BY JobFields, LogTypes DEF StreamInv, JobInv, JobOK
  <2>2. job[c].cursor = Len(job[c].got) /\ IsPrefixOf(job[c].got \o job[c].chan, dlog)
    BY DEF StreamInv, JobInv, ReadIsLog, Read
  <2>3. IsPrefixOf(job[c].got, dlog)
    BY <2>1, <2>2, PrefixShort
  <2> QED
    BY <2>1, <2>2, <2>3, PrefixIsSubSeq DEF IsPrefixOf
<1> QED
  BY <1>1, StreamInvariance, PTL

\* A job that reports success, to the workflow or to the GitHub Deployment, has
\* read the first verdict of its run, and that is EXIT:0.
THEOREM ReportedSuccessIsReal == ASSUME ~LostWrites PROVE Spec => []SuccessIsReal
<1>1. StreamInv => SuccessIsReal
  <2> SUFFICES ASSUME StreamInv, NEW c \in Clients,
                      job[c].gh = "success" \/ Is(c, "success"), job[c].run = runs
               PROVE  DurableSuccess
    BY DEF SuccessIsReal, DurableSuccess
  <2>1. JobOK(job[c]) /\ ReadSuccess(job[c])
    BY DEF StreamInv, JobInv
  <2>2. job[c].pc = "success" /\ job[c].run # 0
    BY <2>1 DEF JobOK, Is
  <2> QED
    BY <2>1, <2>2 DEF ReadSuccess, Latest
<1> QED
  BY <1>1, StreamInvariance, PTL

=============================================================================
