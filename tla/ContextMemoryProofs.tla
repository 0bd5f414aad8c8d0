------------------------ MODULE ContextMemoryProofs ------------------------
(* Proofs about ContextMemory, for any conversation, any facts in it, any     *)
(* debounce and any lists the events bring: an answer means that the facts   *)
(* are stored; without overlapping flows no message is heard twice, and none *)
(* is passed unheard as long as the lists only grow.                         *)
EXTENDS ContextMemory, TLAPS

(***************************************************************************)
(* The strengthening: what the judge found and is not stored yet is still  *)
(* to be inserted; a request that is alone holds all of the list that the  *)
(* watermark has not passed, and is still the whole of it when it is       *)
(* answered; what was heard lies before the watermark, wherever the list   *)
(* begins; and a list that was never short begins with the first message.  *)
(***************************************************************************)
StoringInv ==
    \A p \in Flow : request[p].stage = "storing" =>
        request[p].facts \subseteq table \cup request[p].todo

AloneInv ==
    ~overlapped => \A p \in Flow : request[p] # None =>
        /\ request[p].from = base + mark /\ request[p].to = base + latest
        /\ \A q \in Flow \ {p} : request[q] = None

HeardInv == ~overlapped => \A m \in Message : heard[m] > 0 => m <= base + mark

ListInv == ~shrunk => base = 0 /\ latest = said

IInv ==
    /\ TypeOK /\ StoringInv /\ AloneInv /\ HeardInv /\ ListInv
    /\ NeverTwice /\ ExactlyOnce /\ AnsweredMeansStored

-----------------------------------------------------------------------------
\* What a request is made of, whatever its stage.
LEMMA RequestShape ==
    ASSUME NEW r \in Request, r # None
    PROVE  /\ r.stage \in {"judging", "storing"} /\ r.from \in 0..N /\ r.to \in 0..N
           /\ r.stage = "storing" => r.facts \in SUBSET Fact /\ r.todo \in SUBSET Fact
  BY DEF Request, None

\* The stage tells a request from none.
LEMMA StageTells ==
    ASSUME NEW r \in Request
    PROVE  r.stage \in {"judging", "storing"} <=> r # None
  BY DEF Request, None

\* A fresh session.
THEOREM InitInv == Init => IInv
<1> SUFFICES ASSUME Init PROVE IInv
  OBVIOUS
<1>1. \A p \in Flow : request[p] = None /\ request[p].stage # "storing"
  BY DEF Init, None
<1>2. TypeOK
  <2>1. request \in [Flow -> Request] /\ overlapped \in BOOLEAN /\ shrunk \in BOOLEAN
    BY DEF Init, Request
  <2>2. heard \in [Message -> Nat]
    BY DEF Init
  <2>3. said \in 0..N /\ base \in 0..said /\ latest \in {0, said - base} /\ mark \in 0..N
    BY ContextAssumption DEF Init
  <2> QED
    BY <1>1, <2>1, <2>2, <2>3 DEF Init, TypeOK
<1>3. StoringInv /\ AloneInv
  BY <1>1 DEF StoringInv, AloneInv
<1>4. HeardInv /\ ListInv /\ NeverTwice /\ ExactlyOnce /\ AnsweredMeansStored
  <2>1. \A m \in Message : heard[m] = 0 /\ ~(m <= mark)
    BY ContextAssumption DEF Init, Message
  <2> QED
    BY <2>1 DEF Init, HeardInv, ListInv, NeverTwice, ExactlyOnce, AnsweredMeansStored
<1> QED
  BY <1>2, <1>3, <1>4 DEF IInv

\* What is enough to send is about some message.
LEMMA EnoughIsSomething ==
    ASSUME NEW from \in Int, NEW to \in Int, NEW force, Enough(from, to, force)
    PROVE  from < to
  BY DEF Enough

\* A flow's call of distill, on the list that came last: it sends what the watermark has not
\* passed, or nothing.
LEMMA DistillKeeps ==
    ASSUME IInv, NEW p \in Flow, request[p] = None, NEW force \in BOOLEAN,
           NEW n \in Nat, NEW b \in Nat, NEW l \in Nat,
           said' = n /\ base' = b /\ latest' = l,
           said <= n /\ n <= N /\ base <= b /\ b <= n /\ (l = 0 \/ l = n - b),
           shrunk' \in BOOLEAN,
           ~shrunk' => ~shrunk /\ b = 0 /\ l = n,
           (\A q \in Flow : request[q] = None) \/ overlapped',
           Distill(p, b + mark, b + l, force),
           UNCHANGED <<mark, table, heard, promised>>
    PROVE  IInv'
<1> USE DEF IInv, Flow
<1>0. /\ N \in Nat /\ said \in 0..N /\ base \in 0..said /\ mark \in 0..N
      /\ heard \in [Message -> Nat]
  BY ContextAssumption DEF TypeOK
<1>1. \/ UNCHANGED request
      \/ /\ b + mark < b + l
         /\ request' = [request EXCEPT ![p] = Judging(b + mark, b + l)]
  <2>1. b + mark \in Int /\ b + l \in Int
    BY <1>0
  <2> QED
    BY <2>1, EnoughIsSomething DEF Distill
<1>2. TypeOK'
  <2>1. request' \in [Flow -> Request]
    <3>1. CASE UNCHANGED request
      BY <3>1 DEF TypeOK
    <3>2. CASE b + mark < b + l
      <4>1. Judging(b + mark, b + l) \in Request
        <5>1. b + mark \in 0..N /\ b + l \in 0..N
          <6> HIDE DEF IInv
          <6> QED
            BY <1>0, <3>2
        <5> QED
          BY <5>1 DEF Judging, Request
      <4> QED
        BY <1>1, <4>1 DEF TypeOK
    <3> QED
      BY <1>1, <3>1, <3>2
  <2>2. \A q \in Flow : request'[q] # None =>
            request'[q].from < request'[q].to /\ request'[q].to <= n
    <3> SUFFICES ASSUME NEW q \in Flow, request'[q] # None
                 PROVE  request'[q].from < request'[q].to /\ request'[q].to <= n
      OBVIOUS
    <3>1. CASE request'[q] = request[q]
      <4>1. request[q].from < request[q].to /\ request[q].to <= said /\ request[q].to \in 0..N
        BY <3>1, RequestShape DEF TypeOK
      <4> QED
        BY <3>1, <4>1, <1>0
    <3>2. CASE request'[q] # request[q]
      <4>1. request'[q] = Judging(b + mark, b + l) /\ b + mark < b + l
        BY <3>2, <1>1 DEF TypeOK
      <4> QED
        BY <4>1, <1>0 DEF Judging
    <3> QED
      BY <3>1, <3>2
  <2>3. overlapped' \in BOOLEAN
    BY DEF Distill, TypeOK
  <2>4. said' \in 0..N /\ base' \in 0..said' /\ latest' \in {0, said' - base'} /\ mark' \in 0..N
    BY <1>0
  <2> QED
    BY <2>1, <2>2, <2>3, <2>4 DEF TypeOK
<1>3. StoringInv'
  BY <1>1 DEF StoringInv, TypeOK, Judging
<1>4. AloneInv'
  <2> SUFFICES ASSUME ~overlapped', NEW q \in Flow, request'[q] # None
               PROVE  /\ request'[q].from = b + mark /\ request'[q].to = b + l
                      /\ \A o \in Flow \ {q} : request'[o] = None
    BY DEF AloneInv
  <2>1. \A o \in Flow : request[o] = None
    OBVIOUS
  <2>2. request' = [request EXCEPT ![p] = Judging(b + mark, b + l)]
    BY <1>1, <2>1
  <2>3. q = p
    BY <2>1, <2>2 DEF TypeOK
  <2> QED
    BY <2>1, <2>2, <2>3 DEF TypeOK, Judging
<1>5. HeardInv'
  <2> SUFFICES ASSUME ~overlapped', NEW m \in Message, heard[m] > 0
               PROVE  m <= b + mark
    BY DEF HeardInv
  <2>1. ~overlapped
    BY DEF Distill
  <2>2. m <= base + mark /\ m \in 1..N
    BY <2>1 DEF HeardInv, Message
  <2> HIDE DEF IInv
  <2> QED
    BY <2>2, <1>0
<1>6. ListInv'
  BY DEF ListInv
<1>7. NeverTwice' /\ ExactlyOnce' /\ AnsweredMeansStored'
  BY DEF NeverTwice, ExactlyOnce, AnsweredMeansStored, Distill
<1> QED
  BY <1>2, <1>3, <1>4, <1>5, <1>6, <1>7

\* Every step keeps the invariant.
THEOREM NextInv == IInv /\ [Next]_vars => IInv'
<1> SUFFICES ASSUME IInv, [Next]_vars PROVE IInv'
  OBVIOUS
<1> USE DEF IInv
<1>0. /\ N \in Nat /\ said \in 0..N /\ base \in 0..said /\ mark \in 0..N
      /\ latest \in 0..N /\ heard \in [Message -> Nat]
  BY ContextAssumption DEF TypeOK
<1>1. CASE AgentEnd
  <2>1. PICK n \in said + 1 .. N, b \in base .. N - 1 :
            /\ b < n /\ said' = n /\ base' = b
            /\ latest' \in {0, n - b} /\ shrunk' = (shrunk \/ latest' # n)
            /\ Distill("agent_end", b + mark, b + latest', FALSE)
    BY <1>1 DEF AgentEnd
  <2>2. PICK l \in {0, n - b} : latest' = l
    BY <2>1
  <2>3. /\ n \in Nat /\ b \in Nat /\ l \in Nat /\ said <= n /\ n <= N
        /\ base <= b /\ b <= n /\ (l = 0 \/ l = n - b)
    BY <2>1, <1>0
  <2>4. shrunk' \in BOOLEAN /\ (~shrunk' => ~shrunk /\ b = 0 /\ l = n)
    <3>1. shrunk' \in BOOLEAN /\ (~shrunk' => ~shrunk /\ l = n)
      BY <2>1, <2>2 DEF TypeOK
    <3> HIDE DEF IInv
    <3> QED
      BY <3>1, <2>1, <2>2, <2>3
  <2>5. (\A q \in Flow : request[q] = None) \/ overlapped'
    BY <2>1 DEF Distill, TypeOK
  <2>6. Distill("agent_end", b + mark, b + l, FALSE)
    BY <2>1, <2>2
  <2> QED
    BY <1>1, <2>1, <2>2, <2>3, <2>4, <2>5, <2>6, DistillKeeps DEF AgentEnd, Flow
<1>2. CASE Remember
  <2>1. PICK n \in Nat, b \in Nat, l \in Nat : said = n /\ base = b /\ latest = l
    BY <1>0
  <2>2. said <= n /\ n <= N /\ base <= b /\ b <= n /\ (l = 0 \/ l = n - b)
    BY <2>1, <1>0 DEF TypeOK
  <2>3. said' = n /\ base' = b /\ latest' = l /\ shrunk' = shrunk
    BY <1>2, <2>1 DEF Remember, conversation
  <2>4. shrunk' \in BOOLEAN /\ (~shrunk' => ~shrunk /\ b = 0 /\ l = n)
    BY <2>1, <2>3 DEF TypeOK, ListInv
  <2>5. (\A q \in Flow : request[q] = None) \/ overlapped'
    BY <1>2 DEF Remember, Distill, TypeOK
  <2>6. Distill("remember", b + mark, b + l, TRUE)
    BY <1>2, <2>1 DEF Remember
  <2> QED
    BY <1>2, <2>2, <2>3, <2>4, <2>5, <2>6, DistillKeeps DEF Remember, Flow
<1>3. ASSUME NEW p \in Flow, Judge(p) PROVE IInv'
  <2>1. request[p].stage = "judging" /\ request[p] # None /\ request[p] \in Request
    BY <1>3 DEF Judge, TypeOK, None
  <2>2. request[p].from \in 0..N /\ request[p].to \in 0..N
    BY <2>1, RequestShape
  <2>3. PICK F \in SUBSET UNION {FactsOf[m] : m \in request[p].from + 1 .. request[p].to} :
            request' = [request EXCEPT ![p] =
                [stage |-> "storing", from |-> request[p].from, to |-> request[p].to,
                 facts |-> F, todo |-> F]]
    BY <1>3 DEF Judge
  <2>4. F \in SUBSET Fact
    <3>1. request[p].from + 1 .. request[p].to \subseteq 1..N
      BY <2>2, <1>0
    <3>2. \A m \in 1..N : FactsOf[m] \subseteq Fact
      BY ContextAssumption
    <3> QED
      BY <2>3, <3>1, <3>2
  <2>5. request' \in [Flow -> Request]
    BY <2>2, <2>3, <2>4 DEF TypeOK, Request
  <2>6. \A q \in Flow : request'[q] # None =>
            request[q] # None /\ request'[q].to = request[q].to
                              /\ request'[q].from = request[q].from
    BY <2>1, <2>3 DEF TypeOK, None
  <2>7. TypeOK'
    BY <1>3, <2>5, <2>6 DEF TypeOK, Judge, conversation
  <2>8. StoringInv'
    BY <1>3, <2>3 DEF StoringInv, Judge, conversation, TypeOK
  <2>9. AloneInv'
    BY <1>3, <2>1, <2>3, <2>6 DEF AloneInv, Judge, conversation, TypeOK
  <2>10. HeardInv' /\ ListInv' /\ NeverTwice' /\ ExactlyOnce' /\ AnsweredMeansStored'
    BY <1>3 DEF HeardInv, ListInv, NeverTwice, ExactlyOnce, AnsweredMeansStored, Judge, conversation
  <2> QED
    BY <2>7, <2>8, <2>9, <2>10
<1>4. ASSUME NEW p \in Flow, Insert(p) PROVE IInv'
  <2>1. request[p].stage = "storing" /\ request[p] # None /\ request[p] \in Request
    BY <1>4 DEF Insert, TypeOK, None
  <2>2. PICK f \in request[p].todo :
            /\ table' = table \cup {f}
            /\ request' = [request EXCEPT ![p].todo = @ \ {f}]
    BY <1>4 DEF Insert
  <2>3. request[p] \in [stage : {"storing"}, from : 0..N, to : 0..N,
                        facts : SUBSET Fact, todo : SUBSET Fact]
    BY <2>1 DEF Request, None
  <2>4. request' \in [Flow -> Request]
    BY <2>2, <2>3 DEF TypeOK, Request
  <2>5. \A q \in Flow : request'[q] # None =>
            request[q] # None /\ request'[q].to = request[q].to
                              /\ request'[q].from = request[q].from
    BY <2>1, <2>2, <2>3 DEF TypeOK, None
  <2>6. TypeOK'
    BY <1>4, <2>2, <2>3, <2>4, <2>5 DEF TypeOK, Insert, conversation
  <2>7. StoringInv'
    BY <2>2, <2>3 DEF StoringInv, TypeOK
  <2>8. AloneInv'
    BY <1>4, <2>1, <2>2, <2>5 DEF AloneInv, Insert, conversation, TypeOK
  <2>9. HeardInv' /\ ListInv' /\ NeverTwice' /\ ExactlyOnce' /\ AnsweredMeansStored'
    BY <1>4, <2>2 DEF HeardInv, ListInv, NeverTwice, ExactlyOnce, AnsweredMeansStored, Insert, conversation
  <2> QED
    BY <2>6, <2>7, <2>8, <2>9
<1>5. ASSUME NEW p \in Flow, Answer(p) PROVE IInv'
  <2>1. request[p].stage = "storing" /\ request[p] # None /\ request[p] \in Request
    BY <1>5 DEF Answer, TypeOK, None
  <2>2. /\ request[p].from \in 0..N /\ request[p].to \in 0..N
        /\ request[p].facts \in SUBSET Fact /\ request[p].todo = {}
    BY <1>5, <2>1, RequestShape DEF Answer
  <2>3. heard' = [m \in Message |->
            heard[m] + IF m \in request[p].from + 1 .. request[p].to THEN 1 ELSE 0]
    BY <1>5 DEF Answer
  <2>4. TypeOK'
    BY <1>5, <1>0, <2>2, <2>3 DEF TypeOK, Answer, Request, conversation
  <2>5. StoringInv' /\ AloneInv' /\ ListInv'
    BY <1>5, <2>1 DEF StoringInv, AloneInv, ListInv, Answer, TypeOK, None, conversation
  <2>6. ~overlapped =>
            /\ request[p].from = base + mark /\ request[p].to = base + latest
            /\ mark < latest /\ mark' = latest /\ base' = base
    <3>1. request[p].from < request[p].to
      BY <2>1 DEF TypeOK
    <3> QED
      BY <1>5, <1>0, <2>1, <3>1 DEF AloneInv, Answer, conversation
  <2>7. HeardInv' /\ NeverTwice'
    <3> SUFFICES ASSUME ~overlapped, NEW m \in Message
                 PROVE  heard'[m] <= 1 /\ (heard'[m] > 0 => m <= base' + mark')
      BY <1>5 DEF HeardInv, NeverTwice, Answer
    <3>1. heard[m] \in Nat /\ heard[m] <= 1 /\ (heard[m] > 0 => m <= base + mark) /\ m \in 1..N
      BY <1>0 DEF HeardInv, NeverTwice, Message
    <3> QED
      BY <1>0, <2>3, <2>6, <3>1
  <2>8. ExactlyOnce'
    <3> SUFFICES ASSUME ~overlapped, ~shrunk, NEW m \in Message
                 PROVE  heard'[m] = IF m <= mark' THEN 1 ELSE 0
      BY <1>5 DEF ExactlyOnce, Answer, conversation
    <3>1. heard[m] = (IF m <= mark THEN 1 ELSE 0) /\ base = 0 /\ m \in 1..N
      BY DEF ExactlyOnce, ListInv, Message
    <3> QED
      BY <1>0, <2>3, <2>6, <3>1
  <2>9. AnsweredMeansStored'
    BY <1>5, <2>1, <2>2 DEF AnsweredMeansStored, StoringInv, Answer
  <2> QED
    BY <2>4, <2>5, <2>7, <2>8, <2>9
<1>6. ASSUME NEW p \in Flow, Fail(p) PROVE IInv'
  <2>1. TypeOK'
    BY <1>6 DEF TypeOK, Fail, Request, conversation
  <2>2. StoringInv' /\ AloneInv'
    BY <1>6 DEF StoringInv, AloneInv, Fail, TypeOK, None, conversation
  <2>3. HeardInv' /\ ListInv' /\ NeverTwice' /\ ExactlyOnce' /\ AnsweredMeansStored'
    BY <1>6 DEF HeardInv, ListInv, NeverTwice, ExactlyOnce, AnsweredMeansStored, Fail, conversation
  <2> QED
    BY <2>1, <2>2, <2>3
<1>7. ASSUME NEW f \in Fact, Elsewhere(f) PROVE IInv'
  BY <1>7 DEF Elsewhere, TypeOK, StoringInv, AloneInv, HeardInv, ListInv,
              NeverTwice, ExactlyOnce, AnsweredMeansStored, conversation
<1>8. CASE UNCHANGED vars
  BY <1>8 DEF vars, TypeOK, StoringInv, AloneInv, HeardInv, ListInv,
              NeverTwice, ExactlyOnce, AnsweredMeansStored, conversation
<1> QED
  BY <1>1, <1>2, <1>3, <1>4, <1>5, <1>6, <1>7, <1>8 DEF Next

\* The inductive invariant of a session's memory.
THEOREM Inductive == Spec => []IInv
  BY InitInv, NextInv, PTL DEF Spec

\* Type correctness; a request is about messages that were said, at least one of them.
THEOREM TypeCorrect == Spec => []TypeOK
<1>1. IInv => TypeOK
  BY DEF IInv
<1> QED
  BY <1>1, Inductive, PTL

\* Unless the session's two flows overlapped, no message is in two answered transcripts:
\* failures, compactions and empty events do not make distill send what was answered.
THEOREM HeardAtMostOnce == Spec => []NeverTwice
<1>1. IInv => NeverTwice
  BY DEF IInv
<1> QED
  BY <1>1, Inductive, PTL

\* As long as, besides, the lists only grow, every message is in exactly one answered
\* transcript by the time the watermark has passed it.
THEOREM HeardOnce == Spec => []ExactlyOnce
<1>1. IInv => ExactlyOnce
  BY DEF IInv
<1> QED
  BY <1>1, Inductive, PTL

\* An answered request's facts are stored, whatever failed or was stored by others.
THEOREM AnswersAreStored == Spec => []AnsweredMeansStored
<1>1. IInv => AnsweredMeansStored
  BY DEF IInv
<1> QED
  BY <1>1, Inductive, PTL
=============================================================================
