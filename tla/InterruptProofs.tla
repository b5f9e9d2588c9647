---------------------------- MODULE InterruptProofs ----------------------------
(***************************************************************************)
(* What callers of the interrupt manager may rely on, for any number of runs,  *)
(* requests and epochs and any limit: over the in-memory store, and over       *)
(* Redis, for any number of tasks that interleave and die.                   *)
(***************************************************************************)
EXTENDS InterruptClients, RedisInterrupts, SequenceTheorems, FiniteSetTheorems,
        WellFoundedInduction, TLAPS

-----------------------------------------------------------------------------
(* The in-memory store *)

(* The invariant: a request that may still be answered has not been.          *)

AnswersInv ==
  /\ InterruptsTypeOK
  /\ answers \in [Runs -> Seq(Nat)]
  /\ \A r \in Runs : Len(answers[r]) = Len(requests[r])
  /\ \A r \in Runs : \A i \in DOMAIN requests[r] :
       /\ answers[r][i] <= 1
       /\ requests[r][i].status = "pending" => answers[r][i] = 0

(* A request may lose its status pending, and never regain it. *)
Moves(req, new) ==
  /\ new \in Request
  /\ new.epoch = req.epoch
  /\ new.status # req.status => req.status = "pending" \/ new.status = "deleted"
  /\ IsPending(new) => IsPending(req)

(* What an operation makes of the requests of a run, one by one. *)
MovesAll(reqs, new) ==
  /\ new \in Seq(Request)
  /\ Len(new) = Len(reqs)
  /\ \A i \in DOMAIN reqs : Moves(reqs[i], new[i])

LEMMA Stays == \A req \in Request : Moves(req, req)
BY DEF Moves

LEMMA NoticedMoves == \A req \in Request : Moves(req, Noticed(req))
BY DEF Moves, Noticed, Request, RequestStatus, IsPending

LEMMA JudgedMoves == \A req \in Request : \A e : Moves(req, Judged(req, e))
<1> SUFFICES ASSUME NEW req \in Request, NEW e PROVE Moves(req, Judged(req, e))
  OBVIOUS
<1>1. CASE Verdict(req, e) \in {"expired", "resolved"}
  <2>1. req.status = "pending"
    BY <1>1 DEF Verdict, Request, RequestStatus, IsPending
  <2>2. Judged(req, e) = [req EXCEPT !.status = Verdict(req, e)]
    BY <1>1 DEF Judged
  <2>3. QED BY <1>1, <2>1, <2>2 DEF Moves, Request, RequestStatus, IsPending
<1>2. CASE Verdict(req, e) \notin {"expired", "resolved"}
  BY <1>2, Stays DEF Judged
<1>3. QED BY <1>1, <1>2

LEMMA DeletedMoves ==
  \A req \in Request : Moves(req, [req EXCEPT !.status = "deleted"])
BY DEF Moves, Request, RequestStatus, IsPending

LEMMA ElapsedMoves ==
  \A req \in Request : Moves(req, [req EXCEPT !.late = TRUE])
BY DEF Moves, Request, RequestStatus, IsPending

(* A sequence changed element by element, or at one element. *)
LEMMA MapMovesAll ==
  ASSUME NEW reqs \in Seq(Request), NEW new,
         new = [i \in DOMAIN reqs |-> new[i]],
         \A i \in DOMAIN reqs : Moves(reqs[i], new[i])
  PROVE  MovesAll(reqs, new)
<1>1. DOMAIN reqs = 1 .. Len(reqs) /\ Len(reqs) \in Nat
  BY LenProperties
<1>2. \A i \in DOMAIN reqs : new[i] \in Request
  BY DEF Moves
<1>3. new \in [1 .. Len(reqs) -> Request]
  BY <1>1, <1>2
<1>4. new \in Seq(Request) /\ Len(new) = Len(reqs)
  BY <1>1, <1>3, IsASeq, LenProperties
<1>5. QED BY <1>4 DEF MovesAll

LEMMA OneMovesAll ==
  ASSUME NEW reqs \in Seq(Request), NEW i \in DOMAIN reqs, NEW req, Moves(reqs[i], req)
  PROVE  MovesAll(reqs, [reqs EXCEPT ![i] = req])
<1> DEFINE new == [reqs EXCEPT ![i] = req]
<1>1. DOMAIN reqs = 1 .. Len(reqs) /\ Len(reqs) \in Nat
  BY LenProperties
<1>2. \A j \in DOMAIN reqs : reqs[j] \in Request
  BY <1>1, ElementOfSeq
<1>3. req \in Request
  BY DEF Moves
<1>4. DOMAIN new = DOMAIN reqs
  OBVIOUS
<1>5. \A j \in DOMAIN reqs : new[j] = IF j = i THEN req ELSE reqs[j]
  OBVIOUS
<1>6. new \in [1 .. Len(reqs) -> Request]
  BY <1>1, <1>2, <1>3
<1>7. new \in Seq(Request) /\ Len(new) = Len(reqs)
  BY <1>1, <1>6, IsASeq, LenProperties
<1>8. \A j \in DOMAIN reqs : Moves(reqs[j], new[j])
  BY <1>2, <1>5, Stays
<1>9. QED BY <1>7, <1>8 DEF MovesAll

-----------------------------------------------------------------------------
(* A step that creates no request moves those there are. *)

Quiet ==
  /\ requests' \in [Runs -> Seq(Request)]
  /\ epochs' \in [Runs -> Nat]
  /\ \A r \in Runs : MovesAll(requests[r], requests'[r])

LEMMA OneRunQuiet ==
  ASSUME InterruptsTypeOK, NEW r \in Runs, NEW reqs, MovesAll(requests[r], reqs),
         requests' = [requests EXCEPT ![r] = reqs], UNCHANGED epochs
  PROVE  Quiet
<1>1. \A q \in Runs : MovesAll(requests[q], requests[q])
  <2> SUFFICES ASSUME NEW q \in Runs PROVE MovesAll(requests[q], requests[q])
    OBVIOUS
  <2>1. requests[q] \in Seq(Request)
    BY DEF InterruptsTypeOK
  <2>2. \A i \in DOMAIN requests[q] : requests[q][i] \in Request
    BY <2>1, ElementOfSeq, LenProperties
  <2>3. QED BY <2>1, <2>2, Stays DEF MovesAll
<1>2. reqs \in Seq(Request)
  BY DEF MovesAll
<1>3. requests' \in [Runs -> Seq(Request)]
  BY <1>2 DEF InterruptsTypeOK
<1>4. \A q \in Runs : requests'[q] = IF q = r THEN reqs ELSE requests[q]
  BY DEF InterruptsTypeOK
<1>5. QED BY <1>1, <1>3, <1>4 DEF Quiet, InterruptsTypeOK

LEMMA TypedRequests ==
  ASSUME InterruptsTypeOK, NEW r \in Runs
  PROVE  /\ requests[r] \in Seq(Request)
         /\ Len(requests[r]) \in Nat
         /\ DOMAIN requests[r] = 1 .. Len(requests[r])
         /\ \A i \in DOMAIN requests[r] : requests[r][i] \in Request
<1>1. requests[r] \in Seq(Request)
  BY DEF InterruptsTypeOK
<1>2. QED BY <1>1, ElementOfSeq, LenProperties

LEMMA AllNoticedMoves ==
  ASSUME NEW reqs \in Seq(Request)
  PROVE  MovesAll(reqs, AllNoticed(reqs))
<1> DEFINE new == AllNoticed(reqs)
<1>1. \A i \in DOMAIN reqs : reqs[i] \in Request
  BY ElementOfSeq, LenProperties
<1>2. /\ new = [i \in DOMAIN reqs |-> new[i]]
      /\ \A i \in DOMAIN reqs : new[i] = Noticed(reqs[i])
  BY DEF AllNoticed
<1>3. \A i \in DOMAIN reqs : Moves(reqs[i], new[i])
  BY <1>1, <1>2, NoticedMoves
<1> HIDE DEF new
<1>4. QED BY <1>2, <1>3, MapMovesAll DEF new

-----------------------------------------------------------------------------
(* Each action is quiet, but for a create that finds room. *)

LEMMA ListQuiet ==
  ASSUME InterruptsTypeOK, NEW r \in Runs, ListPending(r)
  PROVE  Quiet
<1>1. requests[r] \in Seq(Request)
  BY TypedRequests
<1>2. MovesAll(requests[r], AllNoticed(requests[r]))
  BY <1>1, AllNoticedMoves
<1>3. QED BY <1>2, OneRunQuiet DEF ListPending

LEMMA ElementQuiet ==
  ASSUME InterruptsTypeOK, NEW r \in Runs, NEW i \in DOMAIN requests[r],
         NEW req, Moves(requests[r][i], req),
         requests' = [requests EXCEPT ![r][i] = req], UNCHANGED epochs
  PROVE  Quiet
<1>1. requests[r] \in Seq(Request)
  BY TypedRequests
<1>2. MovesAll(requests[r], [requests[r] EXCEPT ![i] = req])
  BY <1>1, OneMovesAll
<1>3. requests' = [requests EXCEPT ![r] = [requests[r] EXCEPT ![i] = req]]
  BY DEF InterruptsTypeOK
<1>4. QED BY <1>2, <1>3, OneRunQuiet

LEMMA GetQuiet ==
  ASSUME InterruptsTypeOK, NEW r \in Runs, NEW i \in DOMAIN requests[r], GetPending(r, i)
  PROVE  Quiet
<1>1. Moves(requests[r][i], Noticed(requests[r][i]))
  BY TypedRequests, NoticedMoves
<1>2. QED BY <1>1, ElementQuiet DEF GetPending

LEMMA ResolveQuiet ==
  ASSUME InterruptsTypeOK, NEW r \in Runs, NEW i \in DOMAIN requests[r], NEW e,
         Resolve(r, i, e)
  PROVE  Quiet
<1>1. Moves(requests[r][i], Judged(requests[r][i], e))
  BY TypedRequests, JudgedMoves
<1>2. QED BY <1>1, ElementQuiet DEF Resolve

LEMMA ElapseQuiet ==
  ASSUME InterruptsTypeOK, NEW r \in Runs, NEW i \in DOMAIN requests[r], Elapse(r, i)
  PROVE  Quiet
<1>1. Moves(requests[r][i], [requests[r][i] EXCEPT !.late = TRUE])
  BY TypedRequests, ElapsedMoves
<1>2. requests' = [requests EXCEPT ![r][i] = [requests[r][i] EXCEPT !.late = TRUE]]
  BY DEF Elapse
<1>3. QED BY <1>1, <1>2, ElementQuiet DEF Elapse

LEMMA ClearQuiet ==
  ASSUME InterruptsTypeOK, NEW r \in Runs, ClearExpired(r)
  PROVE  Quiet
<1> DEFINE reqs == requests[r]
           new == [i \in DOMAIN reqs |->
                     IF IsPending(reqs[i]) THEN reqs[i]
                     ELSE [reqs[i] EXCEPT !.status = "deleted"]]
<1>1. reqs \in Seq(Request) /\ \A i \in DOMAIN reqs : reqs[i] \in Request
  BY TypedRequests
<1>2. new = [i \in DOMAIN reqs |-> new[i]]
  OBVIOUS
<1>3. \A i \in DOMAIN reqs : Moves(reqs[i], new[i])
  BY <1>1, Stays, DeletedMoves
<1>4. requests' = [requests EXCEPT ![r] = new] /\ UNCHANGED epochs
  BY DEF ClearExpired, InterruptsTypeOK
<1> HIDE DEF new
<1>5. MovesAll(reqs, new)
  BY <1>1, <1>2, <1>3, MapMovesAll
<1>6. QED BY <1>4, <1>5, OneRunQuiet

LEMMA SweepQuiet ==
  ASSUME InterruptsTypeOK, SweepExpired
  PROVE  Quiet
<1> DEFINE swept(r) == [i \in DOMAIN requests[r] |->
                          IF requests[r][i].late
                          THEN [requests[r][i] EXCEPT !.status = "deleted"]
                          ELSE requests[r][i]]
<1>1. requests' = [r \in Runs |-> swept(r)] /\ UNCHANGED epochs
  BY DEF SweepExpired
<1>2. ASSUME NEW r \in Runs PROVE MovesAll(requests[r], requests'[r])
  <2> DEFINE new == swept(r)
  <2>1. requests[r] \in Seq(Request)
        /\ \A i \in DOMAIN requests[r] : requests[r][i] \in Request
    BY TypedRequests
  <2>2. new = [i \in DOMAIN requests[r] |-> new[i]]
    OBVIOUS
  <2>3. \A i \in DOMAIN requests[r] : Moves(requests[r][i], new[i])
    BY <2>1, Stays, DeletedMoves
  <2>4. requests'[r] = new
    BY <1>1
  <2> HIDE DEF new
  <2>5. QED BY <2>1, <2>2, <2>3, <2>4, MapMovesAll
<1>3. \A r \in Runs : requests'[r] \in Seq(Request)
  BY <1>2 DEF MovesAll
<1>4. requests' \in [Runs -> Seq(Request)]
  BY <1>1, <1>3
<1>5. QED BY <1>1, <1>2, <1>4 DEF Quiet, InterruptsTypeOK

LEMMA BumpQuiet ==
  ASSUME InterruptsTypeOK, NEW r \in Runs, BumpEpoch(r)
  PROVE  Quiet
<1>1. \A q \in Runs : requests[q] \in Seq(Request)
                      /\ \A i \in DOMAIN requests[q] : requests[q][i] \in Request
  BY TypedRequests
<1>2. \A q \in Runs : MovesAll(requests[q], requests[q])
  BY <1>1, Stays DEF MovesAll
<1>3. QED BY <1>2 DEF BumpEpoch, Quiet, InterruptsTypeOK

(* A create that finds room notices what is late and appends its request. *)
LEMMA CreateMoves ==
  ASSUME InterruptsTypeOK, NEW r \in Runs, NEW s \in Steps, NEW e \in Nat,
         Create(r, s, e)
  PROVE  /\ InterruptsTypeOK'
         /\ \A q \in Runs \ {r} : requests'[q] = requests[q]
         /\ Len(requests'[r]) = Len(requests[r]) + 1
         /\ \A i \in DOMAIN requests[r] : Moves(requests[r][i], requests'[r][i])
         /\ requests'[r][Len(requests[r]) + 1].status = "pending"
         /\ requests'[r][Len(requests[r]) + 1].epoch = e
<1> DEFINE old == requests[r]
           noticed == AllNoticed(old)
           req == [step |-> s, epoch |-> e, status |-> "pending", late |-> FALSE]
<1>1. old \in Seq(Request) /\ Len(old) \in Nat /\ DOMAIN old = 1 .. Len(old)
  BY TypedRequests
<1>2. MovesAll(old, noticed)
  BY <1>1, AllNoticedMoves
<1>3. noticed \in Seq(Request) /\ Len(noticed) = Len(old)
  BY <1>2 DEF MovesAll
<1>4. req \in Request
  BY DEF Request, RequestStatus
<1>5. requests' = [requests EXCEPT ![r] = Append(noticed, req)] /\ UNCHANGED epochs
  BY DEF Create, InterruptsTypeOK
<1>6. requests'[r] = Append(noticed, req)
      /\ \A q \in Runs \ {r} : requests'[q] = requests[q]
  BY <1>5 DEF InterruptsTypeOK
<1> HIDE DEF noticed, req
<1>7. /\ Append(noticed, req) \in Seq(Request)
      /\ Len(Append(noticed, req)) = Len(old) + 1
      /\ \A i \in 1 .. Len(old) : Append(noticed, req)[i] = noticed[i]
      /\ Append(noticed, req)[Len(old) + 1] = req
  BY <1>1, <1>3, <1>4, AppendProperties
<1>8. requests' \in [Runs -> Seq(Request)]
  BY <1>5, <1>7 DEF InterruptsTypeOK
<1>9. \A i \in DOMAIN old : Moves(old[i], requests'[r][i])
  BY <1>1, <1>2, <1>6, <1>7 DEF MovesAll
<1>10. QED BY <1>5, <1>6, <1>7, <1>8, <1>9 DEF InterruptsTypeOK, req

-----------------------------------------------------------------------------
(* The invariant *)

LEMMA QuietKeepsAnswers ==
  ASSUME AnswersInv, Quiet, UNCHANGED answers
  PROVE  AnswersInv'
<1>1. InterruptsTypeOK'
  BY DEF Quiet, InterruptsTypeOK
<1>2. ASSUME NEW r \in Runs
      PROVE  /\ Len(answers'[r]) = Len(requests'[r])
             /\ \A i \in DOMAIN requests'[r] :
                  /\ answers'[r][i] <= 1
                  /\ requests'[r][i].status = "pending" => answers'[r][i] = 0
  <2>1. MovesAll(requests[r], requests'[r])
    BY DEF Quiet
  <2>2. DOMAIN requests[r] = DOMAIN requests'[r]
    BY <2>1, TypedRequests, LenProperties DEF MovesAll, AnswersInv
  <2>3. \A i \in DOMAIN requests[r] :
          requests'[r][i].status = "pending" => requests[r][i].status = "pending"
    BY <2>1 DEF MovesAll, Moves
  <2>4. QED BY <2>1, <2>2, <2>3 DEF AnswersInv, MovesAll
<1>3. QED BY <1>1, <1>2 DEF AnswersInv

LEMMA CreateKeepsAnswers ==
  ASSUME AnswersInv, NEW r \in Runs, NEW s \in Steps, NEW e \in Nat, Create(r, s, e),
         answers' = [answers EXCEPT ![r] = Append(@, 0)]
  PROVE  AnswersInv'
<1>1. InterruptsTypeOK
  BY DEF AnswersInv
<1>2. /\ InterruptsTypeOK'
      /\ \A q \in Runs \ {r} : requests'[q] = requests[q]
      /\ Len(requests'[r]) = Len(requests[r]) + 1
      /\ \A i \in DOMAIN requests[r] : Moves(requests[r][i], requests'[r][i])
  BY <1>1, CreateMoves
<1>3. /\ answers'[r] = Append(answers[r], 0)
      /\ \A q \in Runs \ {r} : answers'[q] = answers[q]
  BY DEF AnswersInv
<1>4. answers[r] \in Seq(Nat) /\ Len(answers[r]) = Len(requests[r])
  BY DEF AnswersInv
<1>5. /\ Append(answers[r], 0) \in Seq(Nat)
      /\ Len(Append(answers[r], 0)) = Len(answers[r]) + 1
      /\ \A i \in 1 .. Len(answers[r]) : Append(answers[r], 0)[i] = answers[r][i]
      /\ Append(answers[r], 0)[Len(answers[r]) + 1] = 0
  BY <1>4, AppendProperties
<1>6. answers' \in [Runs -> Seq(Nat)]
  BY <1>5 DEF AnswersInv
<1>7. \A q \in Runs : Len(answers'[q]) = Len(requests'[q])
  BY <1>2, <1>3, <1>4, <1>5 DEF AnswersInv
<1>8. ASSUME NEW i \in DOMAIN requests'[r]
      PROVE  /\ answers'[r][i] <= 1
             /\ requests'[r][i].status = "pending" => answers'[r][i] = 0
  <2>1. DOMAIN requests[r] = 1 .. Len(requests[r]) /\ Len(requests[r]) \in Nat
    BY <1>1, TypedRequests
  <2>2. DOMAIN requests'[r] = 1 .. Len(requests[r]) + 1
    BY <1>2, <2>1, LenProperties DEF InterruptsTypeOK
  <2>3. CASE i = Len(requests[r]) + 1
    BY <1>3, <1>4, <1>5, <2>3
  <2>4. CASE i \in DOMAIN requests[r]
    <3>1. answers'[r][i] = answers[r][i]
      BY <1>3, <1>4, <1>5, <2>1, <2>4
    <3>2. requests'[r][i].status = "pending" => requests[r][i].status = "pending"
      BY <1>2, <2>4 DEF Moves
    <3>3. QED BY <2>4, <3>1, <3>2 DEF AnswersInv
  <2>5. i \in DOMAIN requests[r] \/ i = Len(requests[r]) + 1
    <3>1. i \in 1 .. Len(requests[r]) + 1
      BY <2>2
    <3>2. i \in 1 .. Len(requests[r]) \/ i = Len(requests[r]) + 1
      BY <2>1, <3>1
    <3>3. QED BY <2>1, <3>2
  <2>6. QED BY <2>3, <2>4, <2>5
<1>9. ASSUME NEW q \in Runs, NEW i \in DOMAIN requests'[q]
      PROVE  /\ answers'[q][i] <= 1
             /\ requests'[q][i].status = "pending" => answers'[q][i] = 0
  <2>1. CASE q = r
    BY <1>8, <2>1
  <2>2. CASE q # r
    <3>1. requests'[q] = requests[q] /\ answers'[q] = answers[q]
      BY <1>2, <1>3, <2>2
    <3>2. i \in DOMAIN requests[q]
      BY <3>1
    <3>3. /\ answers[q][i] <= 1
          /\ requests[q][i].status = "pending" => answers[q][i] = 0
      BY <3>2 DEF AnswersInv
    <3>4. QED BY <3>1, <3>3
  <2>3. QED BY <2>1, <2>2
<1>10. InterruptsTypeOK'
  BY <1>2
<1>11. QED BY <1>6, <1>7, <1>9, <1>10, Zenon DEF AnswersInv

LEMMA AnswerKeepsAnswers ==
  ASSUME AnswersInv, NEW r \in Runs, NEW i \in DOMAIN requests[r], NEW e, Answer(r, i, e)
  PROVE  AnswersInv'
<1>1. InterruptsTypeOK
  BY DEF AnswersInv
<1>2. Resolve(r, i, e)
  BY DEF Answer
<1>3. Quiet
  BY <1>1, <1>2, ResolveQuiet
<1>4. CASE Verdict(requests[r][i], e) # "resolved"
  BY <1>3, <1>4, QuietKeepsAnswers DEF Answer
<1>5. CASE Verdict(requests[r][i], e) = "resolved"
  <2>1. requests[r][i].status = "pending"
    BY <1>5 DEF Verdict, IsPending
  <2>2. answers[r][i] = 0
    BY <2>1 DEF AnswersInv
  <2>3. answers' = [answers EXCEPT ![r][i] = @ + 1]
    BY <1>5 DEF Answer
  <2>4. /\ DOMAIN requests[r] = 1 .. Len(requests[r])
        /\ answers[r] \in Seq(Nat)
        /\ DOMAIN answers[r] = 1 .. Len(requests[r])
    BY <1>1, TypedRequests, LenProperties DEF AnswersInv
  <2>5. /\ answers'[r] = [answers[r] EXCEPT ![i] = 1]
        /\ \A q \in Runs \ {r} : answers'[q] = answers[q]
    BY <2>2, <2>3 DEF AnswersInv
  <2>6. [answers[r] EXCEPT ![i] = 1] \in Seq(Nat)
        /\ Len([answers[r] EXCEPT ![i] = 1]) = Len(answers[r])
    BY <2>4, ExceptSeq
  <2>7. answers' \in [Runs -> Seq(Nat)]
    BY <2>3, <2>5, <2>6 DEF AnswersInv
  <2>8. requests'[r][i].status = "resolved"
    <3>1. requests'[r][i] = [requests[r][i] EXCEPT !.status = "resolved"]
      BY <1>1, <1>2, <1>5 DEF Resolve, Judged, InterruptsTypeOK
    <3>2. requests[r][i] \in Request
      BY <1>1, TypedRequests
    <3>3. QED BY <3>1, <3>2 DEF Request
  <2>9. \A q \in Runs : MovesAll(requests[q], requests'[q])
    BY <1>3 DEF Quiet
  <2>10. ASSUME NEW q \in Runs
         PROVE  /\ Len(answers'[q]) = Len(requests'[q])
                /\ \A j \in DOMAIN requests'[q] :
                     /\ answers'[q][j] <= 1
                     /\ requests'[q][j].status = "pending" => answers'[q][j] = 0
    <3>1. DOMAIN requests'[q] = DOMAIN requests[q] /\ Len(requests'[q]) = Len(requests[q])
      BY <1>1, <2>9, TypedRequests, LenProperties DEF MovesAll
    <3>2. \A j \in DOMAIN requests[q] :
            requests'[q][j].status = "pending" => requests[q][j].status = "pending"
      BY <2>9 DEF MovesAll, Moves
    <3>3. CASE q # r
      BY <2>5, <3>1, <3>2, <3>3 DEF AnswersInv
    <3>4. CASE q = r
      <4>1. Len(answers'[q]) = Len(requests'[q])
        BY <2>5, <2>6, <3>1, <3>4 DEF AnswersInv
      <4>2. \A j \in DOMAIN requests[r] :
              answers'[r][j] = IF j = i THEN 1 ELSE answers[r][j]
        BY <2>4, <2>5
      <4>3. \A j \in DOMAIN requests[r] :
              /\ answers[r][j] <= 1
              /\ requests[r][j].status = "pending" => answers[r][j] = 0
        BY DEF AnswersInv
      <4>4. QED BY <2>8, <3>1, <3>2, <3>4, <4>1, <4>2, <4>3
    <3>5. QED BY <3>3, <3>4
  <2>11. InterruptsTypeOK'
    BY <1>3 DEF Quiet, InterruptsTypeOK
  <2>12. QED BY <2>7, <2>10, <2>11 DEF AnswersInv
<1>6. QED BY <1>4, <1>5

LEMMA AnswersInit == ManagerInit => AnswersInv
<1> SUFFICES ASSUME ManagerInit PROVE AnswersInv
  OBVIOUS
<1>1. \A r \in Runs : requests[r] = <<>> /\ answers[r] = <<>>
  BY DEF ManagerInit, InterruptsInit
<1>2. Len(<<>>) = 0 /\ DOMAIN <<>> = {}
  OBVIOUS
<1>3. \A r \in Runs : Len(answers[r]) = Len(requests[r]) /\ DOMAIN requests[r] = {}
  BY <1>1, <1>2
<1>4. InterruptsTypeOK
  BY EmptySeq DEF ManagerInit, InterruptsInit, InterruptsTypeOK
<1>5. answers \in [Runs -> Seq(Nat)]
  BY EmptySeq DEF ManagerInit
<1>6. QED BY <1>3, <1>4, <1>5 DEF AnswersInv

(* What a step is: quiet without an answer, an answer, or a create. *)
LEMMA StepsOfClients ==
  ASSUME AnswersInv, ManagerNext
  PROVE  \/ Quiet /\ UNCHANGED answers
         \/ \E r \in Runs : \E e : \E i \in DOMAIN requests[r] : Answer(r, i, e)
         \/ \E r \in Runs, s \in Steps, e \in Quotes :
              /\ HasRoom(r, e, MaxPending)
              /\ Create(r, s, IF e = None THEN epochs[r] ELSE e)
              /\ answers' = [answers EXCEPT ![r] = Append(@, 0)]
<1>1. InterruptsTypeOK
  BY DEF AnswersInv
<1>2. CASE CleanUp
  BY <1>1, <1>2, SweepQuiet, ClearQuiet DEF CleanUp
<1>3. CASE \E r \in Runs : Bump(r)
  BY <1>1, <1>3, BumpQuiet DEF Bump
<1>4. CASE \E r \in Runs, s \in Steps, e \in Quotes : CreateRequest(r, s, e)
  BY <1>1, <1>4, ListQuiet DEF CreateRequest
<1>5. CASE \E r \in Runs : Show(r)
  BY <1>1, <1>5, ListQuiet, GetQuiet DEF Show
<1>6. CASE \E r \in Runs : \E i \in DOMAIN requests[r] : TimePasses(r, i)
  BY <1>1, <1>6, ElapseQuiet DEF TimePasses
<1>7. CASE \E r \in Runs, e \in Quotes : \E i \in DOMAIN requests[r] : Answer(r, i, e)
  BY <1>7
<1>8. QED BY <1>2, <1>3, <1>4, <1>5, <1>6, <1>7 DEF ManagerNext

LEMMA EpochOfCreate ==
  ASSUME InterruptsTypeOK, NEW r \in Runs, NEW e \in Quotes
  PROVE  (IF e = None THEN epochs[r] ELSE e) \in Nat
BY InterruptConstants DEF InterruptsTypeOK, Quotes

LEMMA AnswersStep == AnswersInv /\ [ManagerNext]_managerVars => AnswersInv'
<1> SUFFICES ASSUME AnswersInv, [ManagerNext]_managerVars PROVE AnswersInv'
  OBVIOUS
<1>1. CASE UNCHANGED managerVars
  BY <1>1 DEF managerVars, interruptVars, AnswersInv, InterruptsTypeOK
<1>2. CASE ManagerNext
  <2>1. CASE Quiet /\ UNCHANGED answers
    BY <2>1, QuietKeepsAnswers
  <2>2. CASE \E r \in Runs : \E e : \E i \in DOMAIN requests[r] : Answer(r, i, e)
    BY <2>2, AnswerKeepsAnswers
  <2>3. CASE \E r \in Runs, s \in Steps, e \in Quotes :
               /\ HasRoom(r, e, MaxPending)
               /\ Create(r, s, IF e = None THEN epochs[r] ELSE e)
               /\ answers' = [answers EXCEPT ![r] = Append(@, 0)]
    <3>1. InterruptsTypeOK
      BY DEF AnswersInv
    <3>2. QED BY <2>3, <3>1, EpochOfCreate, CreateKeepsAnswers
  <2>4. QED BY <1>2, <2>1, <2>2, <2>3, StepsOfClients
<1>3. QED BY <1>1, <1>2

THEOREM AnswersInvAlways == ManagerSpec => []AnswersInv
<1>1. QED BY AnswersInit, AnswersStep, PTL DEF ManagerSpec

(* Nobody is told twice that a request was answered, whatever answers,         *)
(* listings, sweeps and expiries race for it.                               *)
THEOREM OneAnswer == ManagerSpec => []AnsweredOnce
<1>1. AnswersInv => AnsweredOnce
  <2> SUFFICES ASSUME AnswersInv, NEW r \in Runs, NEW i \in DOMAIN answers[r]
               PROVE  answers[r][i] <= 1
    BY DEF AnsweredOnce
  <2>1. DOMAIN answers[r] = DOMAIN requests[r]
    BY TypedRequests, LenProperties DEF AnswersInv
  <2>2. QED BY <2>1 DEF AnswersInv
<1>2. QED BY <1>1, AnswersInvAlways, PTL

(* No step makes an answered request expired or answers an expired one.        *)
THEOREM SettledForGood == ManagerSpec => SettledStaysSettled
<1> DEFINE Settled ==
      \A r \in Runs : \A i \in DOMAIN requests[r] :
        requests[r][i].status # "pending" =>
          requests'[r][i].status \in {requests[r][i].status, "deleted"}
<1>1. AnswersInv /\ [ManagerNext]_managerVars => [Settled]_managerVars
  <2> SUFFICES ASSUME AnswersInv, ManagerNext PROVE Settled
    OBVIOUS
  <2>1. InterruptsTypeOK
    BY DEF AnswersInv
  <2>2. CASE Quiet
    BY <2>2 DEF Quiet, MovesAll, Moves
  <2>3. CASE \E r \in Runs : \E e : \E i \in DOMAIN requests[r] : Answer(r, i, e)
    <3>1. Quiet
      BY <2>1, <2>3, ResolveQuiet DEF Answer
    <3>2. QED BY <2>2, <3>1
  <2>4. CASE \E r \in Runs, s \in Steps, e \in Quotes :
               Create(r, s, IF e = None THEN epochs[r] ELSE e)
    <3>1. PICK r \in Runs, s \in Steps, e \in Nat : Create(r, s, e)
      BY <2>1, <2>4, EpochOfCreate
    <3>2. /\ \A q \in Runs \ {r} : requests'[q] = requests[q]
          /\ \A i \in DOMAIN requests[r] : Moves(requests[r][i], requests'[r][i])
      BY <2>1, <3>1, CreateMoves
    <3>3. QED BY <3>2 DEF Moves
  <2>5. QED BY <2>2, <2>3, <2>4, StepsOfClients
<1>2. QED BY <1>1, AnswersInvAlways, PTL DEF ManagerSpec, SettledStaysSettled

-----------------------------------------------------------------------------
(* The limit *)

LEMMA PendingIsFinite ==
  ASSUME InterruptsTypeOK, NEW r \in Runs, NEW e
  PROVE  IsFiniteSet(PendingAt(r, e)) /\ Cardinality(PendingAt(r, e)) \in Nat
<1>1. DOMAIN requests[r] = 1 .. Len(requests[r]) /\ Len(requests[r]) \in Nat
  BY TypedRequests
<1>2. IsFiniteSet(1 .. Len(requests[r]))
  BY <1>1, FS_Interval
<1>3. PendingAt(r, e) \subseteq 1 .. Len(requests[r])
  BY <1>1 DEF PendingAt
<1>4. QED BY <1>2, <1>3, FS_Subset, FS_CardinalityType

LimitInv == AnswersInv /\ PendingWithinLimit

LEMMA QuietKeepsLimit ==
  ASSUME LimitInv, Quiet
  PROVE  PendingWithinLimit'
<1> SUFFICES ASSUME NEW r \in Runs, NEW e \in 0 .. MaxEpoch
             PROVE  Cardinality(PendingAt(r, e)') <= MaxPending
  BY DEF PendingWithinLimit
<1>1. InterruptsTypeOK
  BY DEF LimitInv, AnswersInv
<1>2. MovesAll(requests[r], requests'[r])
  BY DEF Quiet
<1>3. DOMAIN requests'[r] = DOMAIN requests[r]
  BY <1>1, <1>2, TypedRequests, LenProperties DEF MovesAll
<1>4. PendingAt(r, e)' \subseteq PendingAt(r, e)
  BY <1>2, <1>3 DEF PendingAt, MovesAll, Moves
<1>5. IsFiniteSet(PendingAt(r, e)) /\ Cardinality(PendingAt(r, e)) \in Nat
  BY <1>1, PendingIsFinite
<1>6. Cardinality(PendingAt(r, e)') <= Cardinality(PendingAt(r, e))
  BY <1>4, <1>5, FS_Subset
<1>7. Cardinality(PendingAt(r, e)') \in Nat
  BY <1>4, <1>5, FS_Subset, FS_CardinalityType
<1>8. Cardinality(PendingAt(r, e)) <= MaxPending
  BY DEF LimitInv, PendingWithinLimit
<1>9. QED BY <1>5, <1>6, <1>7, <1>8, InterruptConstants

(* A finite set grows by at most one when an element is put into it. *)
LEMMA OneMore ==
  ASSUME NEW S, IsFiniteSet(S), NEW x
  PROVE  /\ IsFiniteSet(S \cup {x})
         /\ Cardinality(S \cup {x}) <= Cardinality(S) + 1
<1>1. /\ IsFiniteSet(S \cup {x})
      /\ \/ Cardinality(S \cup {x}) = Cardinality(S)
         \/ Cardinality(S \cup {x}) = Cardinality(S) + 1
  BY FS_AddElement
<1>2. Cardinality(S) \in Nat
  BY FS_CardinalityType
<1>3. QED BY <1>1, <1>2

(* What a create adds is one request, and room was found for it among those it  *)
(* is counted with: a create that names no epoch counts them all.            *)
LEMMA CreateKeepsLimit ==
  ASSUME LimitInv, NEW r \in Runs, NEW s \in Steps, NEW quote \in Quotes,
         HasRoom(r, quote, MaxPending),
         Create(r, s, IF quote = None THEN epochs[r] ELSE quote)
  PROVE  PendingWithinLimit'
<1> DEFINE made == IF quote = None THEN epochs[r] ELSE quote
<1>1. InterruptsTypeOK
  BY DEF LimitInv, AnswersInv
<1>2. made \in Nat
  BY <1>1, EpochOfCreate
<1>3. /\ InterruptsTypeOK'
      /\ \A q \in Runs \ {r} : requests'[q] = requests[q]
      /\ Len(requests'[r]) = Len(requests[r]) + 1
      /\ \A i \in DOMAIN requests[r] : Moves(requests[r][i], requests'[r][i])
      /\ requests'[r][Len(requests[r]) + 1].epoch = made
  BY <1>1, <1>2, CreateMoves
<1> SUFFICES ASSUME NEW q \in Runs, NEW e \in 0 .. MaxEpoch
             PROVE  Cardinality(PendingAt(q, e)') <= MaxPending
  BY DEF PendingWithinLimit
<1>4. Cardinality(PendingAt(q, e)) <= MaxPending
  BY DEF LimitInv, PendingWithinLimit
<1>5. CASE q # r
  <2>1. PendingAt(q, e)' = PendingAt(q, e)
    BY <1>3, <1>5 DEF PendingAt
  <2>2. QED BY <1>4, <2>1
<1>6. CASE q = r
  <2> DEFINE n == Len(requests[r]) + 1
  <2>1. /\ DOMAIN requests[r] = 1 .. Len(requests[r])
        /\ Len(requests[r]) \in Nat
        /\ DOMAIN requests'[r] = 1 .. n
    <3>1. DOMAIN requests[r] = 1 .. Len(requests[r]) /\ Len(requests[r]) \in Nat
      BY <1>1, TypedRequests
    <3>2. DOMAIN requests'[r] = 1 .. Len(requests'[r])
      BY <1>3, LenProperties DEF InterruptsTypeOK
    <3>3. QED BY <1>3, <3>1, <3>2
  <2>2. \A i \in 1 .. n : i \in DOMAIN requests[r] \/ i = n
    BY <2>1
  <2>3. e # None /\ e \in Nat
    BY InterruptConstants
  <2>4. IsFiniteSet(PendingAt(r, e)) /\ Cardinality(PendingAt(r, e)) \in Nat
    BY <1>1, PendingIsFinite
  <2>5. \A i \in PendingAt(r, e)' : i \in PendingAt(r, e) \/ i = n
    BY <1>3, <2>1, <2>2, <2>3 DEF PendingAt, Moves
  <2>6. CASE e # made
    <3>1. PendingAt(r, e)' \subseteq PendingAt(r, e)
      BY <1>3, <2>3, <2>5, <2>6 DEF PendingAt
    <3>2. Cardinality(PendingAt(r, e)') <= Cardinality(PendingAt(r, e))
          /\ Cardinality(PendingAt(r, e)') \in Nat
      BY <2>4, <3>1, FS_Subset, FS_CardinalityType
    <3>3. QED BY <1>4, <1>6, <2>4, <3>2, InterruptConstants
  <2>7. CASE e = made
    <3>1. PendingAt(r, e) \subseteq PendingAt(r, quote)
      BY <2>3, <2>7 DEF PendingAt
    <3>2. /\ IsFiniteSet(PendingAt(r, quote)) /\ Cardinality(PendingAt(r, quote)) \in Nat
          /\ Cardinality(PendingAt(r, e)) <= Cardinality(PendingAt(r, quote))
      BY <1>1, <3>1, PendingIsFinite, FS_Subset
    <3>3. Cardinality(PendingAt(r, e)) + 1 <= MaxPending
      BY <2>4, <3>2, InterruptConstants DEF HasRoom
    <3>4. PendingAt(r, e)' \subseteq PendingAt(r, e) \cup {n}
      BY <2>5
    <3>5. /\ IsFiniteSet(PendingAt(r, e) \cup {n})
          /\ Cardinality(PendingAt(r, e) \cup {n}) <= Cardinality(PendingAt(r, e)) + 1
      BY <2>4, OneMore
    <3>6. /\ Cardinality(PendingAt(r, e)') <= Cardinality(PendingAt(r, e) \cup {n})
          /\ Cardinality(PendingAt(r, e)') \in Nat
          /\ Cardinality(PendingAt(r, e) \cup {n}) \in Nat
      BY <3>4, <3>5, FS_Subset, FS_CardinalityType
    <3>7. QED BY <1>6, <2>4, <3>3, <3>5, <3>6, InterruptConstants
  <2>8. QED BY <2>6, <2>7
<1>7. QED BY <1>5, <1>6

(* create never lets the live requests of an epoch pass max_pending. *)
THEOREM LimitKept == ManagerSpec => []PendingWithinLimit
<1>1. ManagerInit => LimitInv
  <2> SUFFICES ASSUME ManagerInit PROVE PendingWithinLimit
    BY AnswersInit DEF LimitInv
  <2>1. \A r \in Runs, e \in 0 .. MaxEpoch : PendingAt(r, e) = {}
    BY DEF ManagerInit, InterruptsInit, PendingAt
  <2>2. QED BY <2>1, FS_EmptySet, InterruptConstants DEF PendingWithinLimit
<1>2. LimitInv /\ [ManagerNext]_managerVars => LimitInv'
  <2> SUFFICES ASSUME LimitInv, [ManagerNext]_managerVars PROVE PendingWithinLimit'
    BY AnswersStep DEF LimitInv
  <2>1. InterruptsTypeOK
    BY DEF LimitInv, AnswersInv
  <2>2. CASE UNCHANGED managerVars
    BY <2>2 DEF managerVars, interruptVars, LimitInv, PendingWithinLimit, PendingAt
  <2>3. CASE Quiet
    BY <2>3, QuietKeepsLimit
  <2>4. CASE \E r \in Runs : \E e : \E i \in DOMAIN requests[r] : Answer(r, i, e)
    BY <2>1, <2>3, <2>4, ResolveQuiet DEF Answer
  <2>5. CASE \E r \in Runs, s \in Steps, e \in Quotes :
               /\ HasRoom(r, e, MaxPending)
               /\ Create(r, s, IF e = None THEN epochs[r] ELSE e)
    BY <2>5, CreateKeepsLimit
  <2>6. QED BY <2>2, <2>3, <2>4, <2>5, StepsOfClients DEF LimitInv
<1>3. QED BY <1>1, <1>2, PTL DEF ManagerSpec, LimitInv

-----------------------------------------------------------------------------
(* Redis: what the tasks carry between two commands *)

(* The key of a request; its step is any one, even where there are none. *)
KeyRecord == [step : Steps \cup {CHOOSE s \in Steps : TRUE},
              epoch : Nat, status : RequestStatus, late : BOOLEAN]
FoundRecord == [id : Nat, status : RequestStatus, epoch : Nat]
Phases ==
  {"idle", "range", "read", "drop", "refill", "review", "set", "look", "push", "delete",
   "relist", "get", "scan", "sweep", "sweepDelete", "getEpoch", "setEpoch"}
TaskRecord ==
  [pc : Phases,
   kind : {"none", "create", "list", "clear", "get", "resolve", "sweep", "bump", "new"},
   run : Runs \cup {None}, id : Nat, epoch : Nat \cup {None}, left : Seq(Nat),
   gap : BOOLEAN, found : Seq(FoundRecord), push : Seq(Nat), overdue : SUBSET Nat,
   status : RequestStatus \cup {"none"}, alone : BOOLEAN]

CommandsTypeOK ==
  /\ requests \in [Runs -> Seq(KeyRecord)]
  /\ epochs \in [Runs -> Nat]
  /\ index \in [Runs -> Seq(Nat)]
  /\ task \in [Clients -> TaskRecord]

(* What a task does next fits what it has read and decided. *)
TaskOK(t) ==
  t.pc # "idle" =>
    /\ t.run \in Runs
    /\ \A n \in DOMAIN t.found : t.found[n].id \in DOMAIN requests[t.run]
    /\ t.pc \in {"get", "look", "push", "delete", "sweepDelete"} =>
         t.id \in DOMAIN requests[t.run]
    /\ t.pc = "set" /\ t.kind # "new" =>
         t.id \in DOMAIN requests[t.run] /\ t.status \in {"expired", "resolved"}
    /\ t.pc = "set" /\ t.kind = "new" => t.epoch \in Nat
    /\ t.pc = "setEpoch" => t.epoch \in Nat
    /\ t.pc \in {"look", "push"} /\ t.status = "resolved" =>
         requests[t.run][t.id].status # "pending"
    /\ t.kind = "new" =>
         t.pc \in {"getEpoch", "set", "look", "push"} /\ t.status = "pending"
    /\ t.kind = "create" =>
         t.pc \in {"range", "read", "drop", "refill", "review", "set", "look", "push"}
    /\ t.pc \in {"read", "sweep"} => t.left # <<>>
    /\ t.pc = "refill" => t.push # <<>>

(* What resolve has returned for is settled. *)
AnsweredSettled ==
  \A r \in Runs : \A i : <<r, i>> \in answered =>
    i \in DOMAIN requests[r] /\ requests[r][i].status # "pending"

CommandsInv ==
  /\ CommandsTypeOK
  /\ \A k \in Clients : TaskOK(task[k])
  /\ AnsweredSettled

(* Requests stay, and what is settled stays settled. *)
Settling ==
  \A r \in Runs : \A i \in DOMAIN requests[r] :
    /\ i \in DOMAIN requests'[r]
    /\ requests[r][i].status # "pending" => requests'[r][i].status # "pending"

(* What a task knows of the requests stays true while they settle. *)
LEMMA TaskStaysOK ==
  ASSUME NEW t, TaskOK(t), Settling
  PROVE  TaskOK(t)'
  BY DEF TaskOK, Settling

LEMMA SettlingStutters ==
  ASSUME UNCHANGED requests
  PROVE  Settling
  BY DEF Settling

(* A step of one task. *)
LEMMA CommandKeeps ==
  ASSUME CommandsInv, NEW k \in Clients, NEW t \in TaskRecord,
         task' = [task EXCEPT ![k] = t], TaskOK(t)', Settling,
         requests' \in [Runs -> Seq(KeyRecord)], epochs' \in [Runs -> Nat],
         index' \in [Runs -> Seq(Nat)],
         \A r \in Runs : \A i : <<r, i>> \in answered' =>
           \/ <<r, i>> \in answered
           \/ i \in DOMAIN requests'[r] /\ requests'[r][i].status # "pending"
  PROVE  CommandsInv'
<1>1. /\ task' \in [Clients -> TaskRecord] /\ task'[k] = t
      /\ \A j \in Clients \ {k} : task'[j] = task[j]
  BY DEF CommandsInv, CommandsTypeOK
<1>2. ASSUME NEW j \in Clients PROVE TaskOK(task[j])'
  <2>1. CASE j = k
    <3>1. (task[j])' = t
      BY <1>1, <2>1
    <3>2. QED BY <3>1 DEF TaskOK
  <2>2. CASE j # k
    <3>1. (task[j])' = task[j] /\ TaskOK(task[j])
      BY <1>1, <2>2 DEF CommandsInv
    <3>2. QED BY <3>1 DEF TaskOK, Settling
  <2>3. QED BY <2>1, <2>2
<1>3. AnsweredSettled'
  BY DEF CommandsInv, AnsweredSettled, Settling
<1>4. CommandsTypeOK'
  BY <1>1 DEF CommandsTypeOK
<1>5. QED BY <1>2, <1>3, <1>4 DEF CommandsInv

(* What every command has at hand. *)
LEMMA TaskAtHand ==
  ASSUME CommandsInv, NEW k \in Clients
  PROVE  /\ task[k] \in TaskRecord /\ task \in [Clients -> TaskRecord]
         /\ TaskOK(task[k])
         /\ task[k].pc # "idle" =>
              /\ Run(k) \in Runs /\ Run(k) = task[k].run
              /\ requests[Run(k)] \in Seq(KeyRecord)
              /\ index[Run(k)] \in Seq(Nat)
              /\ DOMAIN requests[Run(k)] = 1 .. Len(requests[Run(k)])
              /\ Len(requests[Run(k)]) \in Nat
<1>1. task[k] \in TaskRecord /\ task \in [Clients -> TaskRecord] /\ TaskOK(task[k])
  BY DEF CommandsInv, CommandsTypeOK
<1>2. ASSUME task[k].pc # "idle"
      PROVE  /\ Run(k) \in Runs /\ Run(k) = task[k].run
             /\ requests[Run(k)] \in Seq(KeyRecord) /\ index[Run(k)] \in Seq(Nat)
  BY <1>1, <1>2 DEF Run, TaskOK, CommandsInv, CommandsTypeOK
<1>3. QED BY <1>1, <1>2, LenProperties

(* Of any natural numbers one is the smallest. *)
LEMMA Smallest ==
  ASSUME NEW T \in SUBSET Nat, T # {}
  PROVE  \E n \in T : \A m \in T : n <= m
<1> DEFINE R == {ss \in Nat \X Nat : ss[1] < ss[2]}
<1>1. IsWellFoundedOn(R, Nat)
  BY NatLessThanWellFounded DEF OpToRel
<1> HIDE DEF R
<1>2. PICK n \in T : \A m \in T : ~ (<<m, n>> \in R)
  BY <1>1, WFMin
<1>3. ASSUME NEW m \in T PROVE n <= m
  <2>1. ~ (<<m, n>> \in R) /\ m \in Nat /\ n \in Nat
    BY <1>2
  <2>2. ~ (m < n)
    BY <2>1 DEF R
  <2>3. QED BY <2>1, <2>2
<1>4. QED BY <1>3

(* One step of Selected, and the steps up to m. *)
SelectStep(s, I, p, n) ==
  IF n = 0 THEN << >> ELSE IF n \in I THEN Append(p, s[n]) ELSE p

Selects(f, s, I, m) == f = [n \in 0 .. m |-> SelectStep(s, I, f[n - 1], n)]

(* The function that Selected chooses exists. *)
LEMMA SelectionExists ==
  ASSUME NEW s, NEW I, NEW l \in Nat
  PROVE  \E f : Selects(f, s, I, l)
<1> DEFINE T == {n \in Nat : ~ \E f : Selects(f, s, I, n)}
<1>1. SUFFICES ASSUME T # {} PROVE FALSE
  OBVIOUS
<1>2. PICK n \in T : \A m \in T : n <= m
  BY <1>1, Smallest
<1>3. CASE n = 0
  <2>1. Selects([i \in 0 .. 0 |-> << >>], s, I, 0)
    BY DEF Selects, SelectStep
  <2>2. QED BY <1>2, <1>3, <2>1
<1>4. CASE n # 0
  <2>1. n \in Nat /\ n - 1 \in Nat /\ n - 1 < n
    BY <1>2, <1>4
  <2>2. PICK f : Selects(f, s, I, n - 1)
    BY <1>2, <2>1
  <2> DEFINE g == [i \in 0 .. n |-> IF i = n THEN SelectStep(s, I, f[n - 1], n) ELSE f[i]]
  <2>3. ASSUME NEW i \in 0 .. n PROVE g[i] = SelectStep(s, I, g[i - 1], i)
    <3>1. CASE i = n
      BY <1>4, <2>1, <3>1
    <3>2. CASE i # n /\ i # 0
      <4>1. i \in 0 .. n - 1 /\ i - 1 \in 0 .. n /\ i - 1 # n
        BY <2>1, <3>2
      <4>2. f[i] = SelectStep(s, I, f[i - 1], i)
        BY <2>2, <4>1 DEF Selects
      <4>3. QED BY <3>2, <4>1, <4>2
    <3>3. CASE i # n /\ i = 0
      <4>1. f[0] = SelectStep(s, I, f[0 - 1], 0)
        BY <2>1, <2>2 DEF Selects
      <4>2. QED BY <3>3, <4>1 DEF SelectStep
    <3>4. QED BY <3>1, <3>2, <3>3
  <2>4. Selects(g, s, I, n)
    BY <2>3 DEF Selects
  <2>5. QED BY <1>2, <2>4
<1>5. QED BY <1>3, <1>4

(* What is selected of a sequence is a sequence. *)
LEMMA SelectedIsSeq ==
  ASSUME NEW S, NEW s \in Seq(S), NEW I
  PROVE  Selected(s, I) \in Seq(S)
<1> DEFINE l == Len(s)
           f == CHOOSE f : f = [n \in 0 .. l |->
                  IF n = 0 THEN << >>
                  ELSE IF n \in I THEN Append(f[n - 1], s[n]) ELSE f[n - 1]]
<1>1. Selected(s, I) = f[l]
  BY DEF Selected
<1>2. l \in Nat /\ DOMAIN s = 1 .. l
  BY LenProperties
<1>3. Selects(f, s, I, l)
  <2>1. PICK g : Selects(g, s, I, l)
    BY <1>2, SelectionExists
  <2>2. g = [n \in 0 .. l |->
               IF n = 0 THEN << >>
               ELSE IF n \in I THEN Append(g[n - 1], s[n]) ELSE g[n - 1]]
    BY <2>1 DEF Selects, SelectStep
  <2>3. f = [n \in 0 .. l |->
               IF n = 0 THEN << >>
               ELSE IF n \in I THEN Append(f[n - 1], s[n]) ELSE f[n - 1]]
    BY <2>2
  <2>4. QED BY <2>3 DEF Selects, SelectStep
<1> HIDE DEF l, f
<1>4. \A i \in 0 .. l : f[i] = SelectStep(s, I, f[i - 1], i)
  BY <1>3 DEF Selects
<1>5. f[0] \in Seq(S)
  <2>1. f[0] = << >>
    BY <1>2, <1>4 DEF SelectStep
  <2>2. QED BY <2>1, EmptySeq
<1>6. ASSUME NEW i \in 1 .. l, f[i - 1] \in Seq(S) PROVE f[i] \in Seq(S)
  <2>1. s[i] \in S /\ i \in 0 .. l /\ i # 0
    BY <1>2, ElementOfSeq DEF l
  <2>2. Append(f[i - 1], s[i]) \in Seq(S)
    BY <1>6, <2>1, AppendProperties
  <2>3. QED BY <1>4, <1>6, <2>1, <2>2 DEF SelectStep
<1>7. f[l] \in Seq(S)
  <2> DEFINE T == {i \in 0 .. l : f[i] \notin Seq(S)}
  <2>1. SUFFICES ASSUME T # {} PROVE FALSE
    BY <1>2
  <2>2. T \in SUBSET Nat
    BY <1>2
  <2>3. PICK n \in T : \A m \in T : n <= m
    BY <2>1, <2>2, Smallest
  <2>4. n \in 1 .. l /\ n - 1 \in 0 .. l /\ ~(n <= n - 1)
    BY <1>2, <1>5, <2>3
  <2>5. QED BY <1>6, <2>3, <2>4
<1>8. QED BY <1>1, <1>7

(* A task that goes on, with whatever it has read, keeps its own fields. *)
LEMMA RecordMoves ==
  ASSUME NEW u \in TaskRecord, NEW pc \in Phases
  PROVE  LET t == [u EXCEPT !.pc = pc] IN
           /\ t \in TaskRecord /\ t.pc = pc
           /\ t.run = u.run /\ t.kind = u.kind /\ t.id = u.id /\ t.epoch = u.epoch
           /\ t.left = u.left /\ t.gap = u.gap /\ t.found = u.found /\ t.push = u.push
           /\ t.overdue = u.overdue /\ t.status = u.status /\ t.alone = u.alone
<1> DEFINE t == [u EXCEPT !.pc = pc]
<1>1. t \in TaskRecord
  BY DEF TaskRecord
<1>2. t.pc = pc /\ t.run = u.run /\ t.kind = u.kind /\ t.id = u.id /\ t.epoch = u.epoch
  BY DEF TaskRecord
<1>3. t.left = u.left /\ t.gap = u.gap /\ t.found = u.found /\ t.push = u.push
  BY DEF TaskRecord
<1>4. t.overdue = u.overdue /\ t.status = u.status /\ t.alone = u.alone
  BY DEF TaskRecord
<1>5. QED BY <1>1, <1>2, <1>3, <1>4

(* A task that returns. *)
LEMMA Returned ==
  NoTask \in TaskRecord /\ NoTask.pc = "idle" /\ TaskOK(NoTask)
<1>1. << >> \in Seq(Nat) /\ << >> \in Seq(FoundRecord)
  BY EmptySeq
<1>2. NoTask.pc = "idle"
  BY DEF NoTask
<1>3. NoTask \in TaskRecord
  BY <1>1 DEF NoTask, TaskRecord, Phases
<1>4. QED BY <1>2, <1>3 DEF TaskOK

(* The two forms in which a command lets its task go on. *)
LEMMA GoneTo ==
  ASSUME CommandsInv, NEW k \in Clients, NEW pc, Goto(k, pc)
  PROVE  task' = [task EXCEPT ![k] = [task[k] EXCEPT !.pc = pc]]
  BY DEF Goto, CommandsInv, CommandsTypeOK

(* A command that changes no key leaves everything as it was but its task. *)
LEMMA QuietCommandKeeps ==
  ASSUME CommandsInv, NEW k \in Clients, NEW t \in TaskRecord,
         task' = [task EXCEPT ![k] = t], TaskOK(t),
         UNCHANGED <<interruptVars, answered>>, index' \in [Runs -> Seq(Nat)]
  PROVE  CommandsInv'
<1>1. UNCHANGED requests /\ UNCHANGED epochs
  BY DEF interruptVars
<1>2. Settling
  BY <1>1, SettlingStutters
<1>3. TaskOK(t)'
  BY <1>2, TaskStaysOK
<1>4. /\ requests' \in [Runs -> Seq(KeyRecord)] /\ epochs' \in [Runs -> Nat]
      /\ \A r \in Runs : \A i : <<r, i>> \in answered' => <<r, i>> \in answered
  BY <1>1 DEF CommandsInv, CommandsTypeOK
<1>5. QED BY <1>2, <1>3, <1>4, CommandKeeps

LEMMA ReadingKeeps ==
  ASSUME CommandsInv, NEW k \in Clients, UNCHANGED <<interruptVars, index, answered>>,
         \E t \in TaskRecord : task' = [task EXCEPT ![k] = t] /\ TaskOK(t)
  PROVE  CommandsInv'
<1>1. PICK t \in TaskRecord : task' = [task EXCEPT ![k] = t] /\ TaskOK(t)
  OBVIOUS
<1>2. index' \in [Runs -> Seq(Nat)]
  BY DEF CommandsInv, CommandsTypeOK
<1>3. QED BY <1>1, <1>2, QuietCommandKeeps

(* list_requests reads the ids. *)
LEMMA ListIdsTask ==
  ASSUME CommandsInv, NEW k \in Clients, ListIds(k)
  PROVE  \E t \in TaskRecord :
           /\ task' = [task EXCEPT ![k] = t] /\ TaskOK(t)
           /\ t.pc = (IF index[Run(k)] # <<>> THEN "read"
                      ELSE IF task[k].gap THEN "drop" ELSE "review")
           /\ t.left = index[Run(k)]
           /\ t.run = Run(k) /\ t.kind = task[k].kind /\ t.epoch = task[k].epoch
           /\ t.found = task[k].found /\ t.alone = task[k].alone
<1> DEFINE u == [task[k] EXCEPT !.left = index[Run(k)]]
           pc == AfterReading(u)
           t == [u EXCEPT !.pc = pc]
<1>1. task[k].pc = "range" /\ task' = [task EXCEPT ![k] = t]
  BY DEF ListIds, At, Continue
<1>2. /\ task[k] \in TaskRecord /\ TaskOK(task[k])
      /\ Run(k) \in Runs /\ Run(k) = task[k].run /\ index[Run(k)] \in Seq(Nat)
  BY <1>1, TaskAtHand
<1>3. /\ u \in TaskRecord /\ u.left = index[Run(k)]
      /\ u.run = Run(k) /\ u.kind = task[k].kind /\ u.epoch = task[k].epoch
      /\ u.found = task[k].found /\ u.alone = task[k].alone /\ u.gap = task[k].gap
      /\ u.id = task[k].id
  BY <1>2 DEF TaskRecord
<1>4. pc = (IF index[Run(k)] # <<>> THEN "read"
            ELSE IF task[k].gap THEN "drop" ELSE "review")
  BY <1>3 DEF AfterReading
<1> HIDE DEF u, pc
<1>5. pc \in {"read", "drop", "review"} /\ pc \in Phases
  BY <1>4 DEF Phases
<1>6. /\ t \in TaskRecord /\ t.pc = pc
      /\ t.run = u.run /\ t.kind = u.kind /\ t.epoch = u.epoch
      /\ t.left = u.left /\ t.found = u.found /\ t.alone = u.alone
  BY <1>3, <1>5, RecordMoves
<1> HIDE DEF t
<1>7. TaskOK(t)
  BY <1>1, <1>2, <1>3, <1>4, <1>5, <1>6 DEF TaskOK
<1>8. QED BY <1>1, <1>3, <1>4, <1>6, <1>7

(* One more entry of a sequence, and the ids of what was found. *)
LEMMA AppendedFacts ==
  ASSUME NEW S, NEW s \in Seq(S), NEW x \in S
  PROVE  /\ Append(s, x) \in Seq(S)
         /\ DOMAIN Append(s, x) = DOMAIN s \cup {Len(s) + 1}
         /\ \A n \in DOMAIN s : Append(s, x)[n] = s[n]
         /\ Append(s, x)[Len(s) + 1] = x
         /\ Range(Append(s, x)) = Range(s) \cup {x}
<1> DEFINE l == Len(s)
           t == Append(s, x)
<1>1. l \in Nat /\ DOMAIN s = 1 .. l
  BY LenProperties
<1>2. /\ t \in Seq(S) /\ Len(t) = l + 1
      /\ \A n \in 1 .. l : t[n] = s[n]
      /\ t[l + 1] = x
  BY AppendProperties
<1>3. DOMAIN t = 1 .. l + 1
  BY <1>2, LenProperties
<1> HIDE DEF l, t
<1>4. 1 .. l + 1 = (1 .. l) \cup {l + 1}
  BY <1>1
<1>5. Range(t) = Range(s) \cup {x}
  BY <1>1, <1>2, <1>3, <1>4 DEF Range
<1>6. QED BY <1>1, <1>2, <1>3, <1>4, <1>5 DEF l, t

LEMMA IdsAreNumbers ==
  ASSUME NEW found \in Seq(FoundRecord)
  PROVE  [n \in DOMAIN found |-> found[n].id] \in Seq(Nat)
<1>1. DOMAIN found = 1 .. Len(found) /\ Len(found) \in Nat
  BY LenProperties
<1>2. \A n \in DOMAIN found : found[n] \in FoundRecord /\ found[n].id \in Nat
  <2>1. \A n \in DOMAIN found : found[n] \in FoundRecord
    BY <1>1, ElementOfSeq
  <2>2. QED BY <2>1 DEF FoundRecord
<1>3. [n \in DOMAIN found |-> found[n].id] \in [1 .. Len(found) -> Nat]
  BY <1>1, <1>2
<1>4. QED BY <1>1, <1>3, SeqDef

(* It reads the request of one id. *)
LEMMA ReadTask ==
  ASSUME CommandsInv, NEW k \in Clients, Read(k)
  PROVE  \E t \in TaskRecord :
           /\ task' = [task EXCEPT ![k] = t] /\ TaskOK(t)
           /\ task[k].left \in Seq(Nat) /\ task[k].left # <<>>
           /\ t.pc \in {"read", "drop", "review"}
           /\ t.pc = "read" <=> Tail(task[k].left) # <<>>
           /\ t.left = Tail(task[k].left)
           /\ Exists(Run(k), Head(task[k].left)) =>
                t.found = Append(task[k].found,
                            [id |-> Head(task[k].left),
                             status |-> requests[Run(k)][Head(task[k].left)].status,
                             epoch |-> requests[Run(k)][Head(task[k].left)].epoch])
           /\ ~Exists(Run(k), Head(task[k].left)) => t.found = task[k].found
           /\ t.run = Run(k) /\ t.kind = task[k].kind /\ t.epoch = task[k].epoch
           /\ t.alone = task[k].alone
<1> DEFINE i == Head(task[k].left)
           there == Exists(Run(k), i)
           x == [id |-> i, status |-> requests[Run(k)][i].status,
                 epoch |-> requests[Run(k)][i].epoch]
           found == IF there THEN Append(task[k].found, x) ELSE task[k].found
           u == [task[k] EXCEPT !.left = Tail(@), !.gap = @ \/ ~there, !.found = found,
                                !.push = [n \in DOMAIN found |-> found[n].id]]
           pc == AfterReading(u)
           t == [u EXCEPT !.pc = pc]
<1>1. task[k].pc = "read" /\ task' = [task EXCEPT ![k] = t]
  BY DEF Read, At, Continue
<1>2. /\ task[k] \in TaskRecord /\ TaskOK(task[k])
      /\ Run(k) \in Runs /\ Run(k) = task[k].run /\ requests[Run(k)] \in Seq(KeyRecord)
      /\ DOMAIN requests[Run(k)] = 1 .. Len(requests[Run(k)])
  BY <1>1, TaskAtHand
<1>3. /\ task[k].left \in Seq(Nat) /\ task[k].left # <<>> /\ task[k].found \in Seq(FoundRecord)
  BY <1>1, <1>2 DEF TaskRecord, TaskOK
<1>4. i \in Nat /\ Tail(task[k].left) \in Seq(Nat)
  BY <1>3, HeadTailProperties
<1>5. there => x \in FoundRecord /\ x.id \in DOMAIN requests[Run(k)]
  <2>1. there => i \in DOMAIN requests[Run(k)]
    BY DEF Exists
  <2>2. there => requests[Run(k)][i] \in KeyRecord
    BY <1>2, <2>1, ElementOfSeq
  <2>3. QED BY <1>4, <2>1, <2>2 DEF FoundRecord, KeyRecord
<1>6. /\ found \in Seq(FoundRecord)
      /\ \A n \in DOMAIN found : found[n].id \in DOMAIN requests[Run(k)]
  <2>1. \A n \in DOMAIN task[k].found : task[k].found[n].id \in DOMAIN requests[Run(k)]
    BY <1>1, <1>2 DEF TaskOK
  <2>2. CASE there
    BY <1>3, <1>5, <2>1, <2>2, AppendedFacts
  <2>3. CASE ~there
    BY <1>3, <2>1, <2>3
  <2>4. QED BY <2>2, <2>3
<1>7. [n \in DOMAIN found |-> found[n].id] \in Seq(Nat)
  BY <1>6, IdsAreNumbers
<1> HIDE DEF found, x, there
<1>8. /\ u \in TaskRecord /\ u.left = Tail(task[k].left)
      /\ u.run = Run(k) /\ u.kind = task[k].kind /\ u.epoch = task[k].epoch
      /\ u.found = found /\ u.alone = task[k].alone
  BY <1>2, <1>4, <1>6, <1>7 DEF TaskRecord
<1>9. pc \in {"read", "drop", "review"} /\ (pc = "read" <=> Tail(task[k].left) # <<>>)
  BY <1>8 DEF AfterReading
<1> HIDE DEF u, pc
<1>10. pc \in Phases
  BY <1>9 DEF Phases
<1>11. /\ t \in TaskRecord /\ t.pc = pc
       /\ t.run = u.run /\ t.kind = u.kind /\ t.epoch = u.epoch
       /\ t.left = u.left /\ t.found = u.found /\ t.alone = u.alone
  BY <1>8, <1>10, RecordMoves
<1> HIDE DEF t
<1>12. TaskOK(t)
  BY <1>1, <1>2, <1>6, <1>8, <1>9, <1>11 DEF TaskOK
<1>13. QED BY <1>1, <1>3, <1>8, <1>9, <1>11, <1>12 DEF found, x, there

(* _rewrite_list drops the index, *)
LEMMA DropTask ==
  ASSUME CommandsInv, NEW k \in Clients, Drop(k)
  PROVE  \E t \in TaskRecord :
           /\ task' = [task EXCEPT ![k] = t] /\ TaskOK(t)
           /\ t.pc = (IF task[k].push = <<>> THEN "review" ELSE "refill")
           /\ t.push = task[k].push
           /\ t.run = Run(k) /\ t.kind = task[k].kind /\ t.epoch = task[k].epoch
           /\ t.found = task[k].found /\ t.alone = task[k].alone
<1> DEFINE pc == IF task[k].push = <<>> THEN "review" ELSE "refill"
           t == [task[k] EXCEPT !.pc = pc]
<1>1. task[k].pc = "drop" /\ task' = [task EXCEPT ![k] = t]
  BY GoneTo DEF Drop, At
<1>2. /\ task[k] \in TaskRecord /\ TaskOK(task[k])
      /\ Run(k) \in Runs /\ Run(k) = task[k].run
  BY <1>1, TaskAtHand
<1>3. pc \in Phases
  BY DEF Phases
<1>4. /\ t \in TaskRecord /\ t.pc = pc /\ t.push = task[k].push
      /\ t.run = task[k].run /\ t.kind = task[k].kind /\ t.epoch = task[k].epoch
      /\ t.left = task[k].left /\ t.found = task[k].found /\ t.alone = task[k].alone
  BY <1>2, <1>3, RecordMoves
<1> HIDE DEF t
<1>5. TaskOK(t)
  BY <1>1, <1>2, <1>4 DEF TaskOK
<1>6. QED BY <1>1, <1>2, <1>4, <1>5

(* and pushes its ids again, one by one. *)
LEMMA RefillTask ==
  ASSUME CommandsInv, NEW k \in Clients, Refill(k)
  PROVE  \E t \in TaskRecord :
           /\ task' = [task EXCEPT ![k] = t] /\ TaskOK(t)
           /\ task[k].push \in Seq(Nat) /\ task[k].push # <<>>
           /\ t.pc = (IF t.push = <<>> THEN "review" ELSE "refill")
           /\ t.push = Tail(task[k].push)
           /\ t.run = Run(k) /\ t.kind = task[k].kind /\ t.epoch = task[k].epoch
           /\ t.found = task[k].found /\ t.alone = task[k].alone
<1> DEFINE u == [task[k] EXCEPT !.push = Tail(@)]
           pc == IF u.push = <<>> THEN "review" ELSE "refill"
           t == [u EXCEPT !.pc = pc]
<1>1. task[k].pc = "refill" /\ task' = [task EXCEPT ![k] = t]
  BY DEF Refill, At, Continue
<1>2. /\ task[k] \in TaskRecord /\ TaskOK(task[k])
      /\ Run(k) \in Runs /\ Run(k) = task[k].run
  BY <1>1, TaskAtHand
<1>3. task[k].push \in Seq(Nat) /\ task[k].push # <<>>
  BY <1>1, <1>2 DEF TaskRecord, TaskOK
<1>4. Tail(task[k].push) \in Seq(Nat)
  BY <1>3, HeadTailProperties
<1>5. /\ u \in TaskRecord /\ u.push = Tail(task[k].push)
      /\ u.run = Run(k) /\ u.kind = task[k].kind /\ u.epoch = task[k].epoch
      /\ u.found = task[k].found /\ u.alone = task[k].alone
  BY <1>2, <1>4 DEF TaskRecord
<1> HIDE DEF u
<1>6. pc \in Phases
  BY DEF Phases
<1>7. /\ t \in TaskRecord /\ t.pc = pc /\ t.push = u.push
      /\ t.run = u.run /\ t.kind = u.kind /\ t.epoch = u.epoch
      /\ t.found = u.found /\ t.alone = u.alone
  BY <1>5, <1>6, RecordMoves
<1> HIDE DEF t
<1>8. TaskOK(t)
  BY <1>1, <1>2, <1>5, <1>7 DEF TaskOK
<1>9. QED BY <1>1, <1>3, <1>5, <1>7, <1>8

(* What delete_request rewrites the index with. *)
LEMMA RelistTask ==
  ASSUME CommandsInv, NEW k \in Clients, Relist(k)
  PROVE  \E t \in TaskRecord :
           /\ task' = [task EXCEPT ![k] = t] /\ TaskOK(t)
           /\ t.pc = "drop" /\ t.alone = task[k].alone
           /\ t.kind = task[k].kind /\ t.kind \notin {"create", "new"}
<1> DEFINE ids == Remaining(index[Run(k)], task[k].id)
           u == [task[k] EXCEPT !.push = ids]
           t == [u EXCEPT !.pc = "drop"]
<1>1. task[k].pc = "relist" /\ task' = [task EXCEPT ![k] = t]
  BY DEF Relist, At, Continue
<1>2. /\ task[k] \in TaskRecord /\ TaskOK(task[k])
      /\ Run(k) \in Runs /\ Run(k) = task[k].run /\ index[Run(k)] \in Seq(Nat)
  BY <1>1, TaskAtHand
<1>3. ids \in Seq(Nat)
  BY <1>2, SelectedIsSeq DEF Remaining
<1> HIDE DEF ids
<1>4. /\ u \in TaskRecord
      /\ u.run = Run(k) /\ u.kind = task[k].kind /\ u.found = task[k].found
      /\ u.alone = task[k].alone
  BY <1>2, <1>3 DEF TaskRecord
<1> HIDE DEF u
<1>5. "drop" \in Phases
  BY DEF Phases
<1>6. /\ t \in TaskRecord /\ t.pc = "drop"
      /\ t.run = u.run /\ t.kind = u.kind /\ t.found = u.found /\ t.alone = u.alone
  BY <1>4, <1>5, RecordMoves
<1> HIDE DEF t
<1>7. TaskOK(t) /\ t.kind \notin {"create", "new"}
  BY <1>1, <1>2, <1>4, <1>6 DEF TaskOK
<1>8. QED BY <1>1, <1>4, <1>6, <1>7

(* The first of the positions it chooses from. *)
LEMMA FirstOf ==
  ASSUME NEW ns \in SUBSET Nat, ns # {}
  PROVE  First(ns) \in ns
<1>1. \E n \in ns : \A other \in ns : n <= other
  BY Smallest
<1>2. QED BY <1>1 DEF First

(* What a listing has found. *)
LEMMA FoundAtHand ==
  ASSUME CommandsInv, NEW k \in Clients
  PROVE  /\ task[k].found \in Seq(FoundRecord)
         /\ Found(k) = 1 .. Len(task[k].found) /\ Len(task[k].found) \in Nat
         /\ \A n \in Found(k) : task[k].found[n] \in FoundRecord
<1>1. task[k].found \in Seq(FoundRecord)
  BY TaskAtHand DEF TaskRecord
<1>2. Found(k) = 1 .. Len(task[k].found) /\ Len(task[k].found) \in Nat
  BY <1>1, LenProperties DEF Found
<1>3. QED BY <1>1, <1>2, ElementOfSeq

(* A sequence without one of its entries. *)
LEMMA RemovedFacts ==
  ASSUME NEW S, NEW s \in Seq(S), NEW n \in 1 .. Len(s)
  PROVE  /\ RemoveAt(s, n) \in Seq(S)
         /\ \A m \in DOMAIN RemoveAt(s, n) :
              \E o \in 1 .. Len(s) : RemoveAt(s, n)[m] = s[o]
<1> DEFINE l == Len(s)
           a == SubSeq(s, 1, n - 1)
           b == SubSeq(s, n + 1, l)
<1>1. l \in Nat /\ \A m \in 1 .. l : s[m] \in S
  BY LenProperties, ElementOfSeq
<1>2. n - 1 \in Int /\ n + 1 \in Int
  BY <1>1
<1>3. \A m \in 1 .. n - 1 : m \in 1 .. l
  BY <1>1
<1>4. \A m \in n + 1 .. l : m \in 1 .. l
  BY <1>1
<1>5. /\ a \in Seq(S) /\ Len(a) = (IF 1 <= n - 1 THEN n - 1 - 1 + 1 ELSE 0)
      /\ \A m \in 1 .. n - 1 - 1 + 1 : a[m] = s[1 + m - 1]
  BY <1>1, <1>2, <1>3, SubSeqProperties
<1>6. /\ b \in Seq(S) /\ Len(b) = (IF n + 1 <= l THEN l - (n + 1) + 1 ELSE 0)
      /\ \A m \in 1 .. l - (n + 1) + 1 : b[m] = s[n + 1 + m - 1]
  BY <1>1, <1>2, <1>4, SubSeqProperties
<1> DEFINE c == a \o b
<1>7. RemoveAt(s, n) = c
  BY DEF RemoveAt
<1> HIDE DEF a, b, l
<1>8. /\ c \in Seq(S) /\ Len(c) = Len(a) + Len(b)
      /\ \A m \in 1 .. Len(a) + Len(b) : c[m] = IF m <= Len(a) THEN a[m] ELSE b[m - Len(a)]
  BY <1>5, <1>6, ConcatProperties
<1>9. DOMAIN c = 1 .. Len(a) + Len(b)
  BY <1>8, LenProperties
<1> HIDE DEF c
<1>10. n \in 1 .. l
  BY DEF l
<1>11. ASSUME NEW m \in DOMAIN c PROVE \E o \in 1 .. l : c[m] = s[o]
  <2>1. m \in 1 .. Len(a) + Len(b) /\ Len(a) \in Nat /\ Len(b) \in Nat
    BY <1>1, <1>5, <1>6, <1>9, <1>10
  <2>2. CASE m <= Len(a)
    <3>1. m \in 1 .. n - 1 /\ c[m] = a[m]
      BY <1>1, <1>5, <1>8, <1>10, <2>1, <2>2
    <3>2. m \in 1 .. l /\ a[m] = s[m]
      BY <1>1, <1>5, <1>10, <3>1
    <3>3. QED BY <3>1, <3>2
  <2>3. CASE ~(m <= Len(a))
    <3> DEFINE j == m - Len(a)
    <3>1. j \in 1 .. Len(b) /\ c[m] = b[j]
      BY <1>8, <2>1, <2>3
    <3> HIDE DEF j
    <3>2. j \in 1 .. l - (n + 1) + 1
      BY <1>1, <1>6, <1>10, <3>1
    <3>3. b[j] = s[n + 1 + j - 1]
      BY <1>6, <3>2
    <3>4. n + 1 + j - 1 \in 1 .. l
      BY <1>1, <1>10, <3>2
    <3>5. QED BY <3>1, <3>3, <3>4
  <2>4. QED BY <2>2, <2>3
<1>12. QED BY <1>7, <1>8, <1>11 DEF l

(* A request it found overdue is about to be saved as expired. *)
LEMMA ReviewExpiredTask ==
  ASSUME CommandsInv, NEW k \in Clients, ReviewExpired(k)
  PROVE  \E t \in TaskRecord, n \in DOMAIN task[k].found :
           /\ task' = [task EXCEPT ![k] = t] /\ TaskOK(t)
           /\ task[k].pc = "review" /\ t.pc = "set" /\ t.id = task[k].found[n].id
           /\ t.status = "expired"
           /\ DOMAIN t.found = DOMAIN task[k].found
           /\ \A m \in DOMAIN t.found : m # n => t.found[m] = task[k].found[m]
           /\ t.run = Run(k) /\ t.kind = task[k].kind /\ t.epoch = task[k].epoch
           /\ t.alone = task[k].alone /\ t.kind # "new"
<1> DEFINE n == First(ToExpire(k))
           i == task[k].found[n].id
           g == [task[k].found EXCEPT ![n].status = "expired"]
           u == [task[k] EXCEPT !.found[n].status = "expired", !.status = "expired",
                                !.id = i]
           t == [u EXCEPT !.pc = "set"]
<1>1. /\ task[k].pc = "review" /\ task[k].kind \in {"create", "list"} /\ ToExpire(k) # {}
      /\ task' = [task EXCEPT ![k] = t]
  BY DEF ReviewExpired, At, Continue
<1>2. /\ task[k] \in TaskRecord /\ TaskOK(task[k])
      /\ Run(k) \in Runs /\ Run(k) = task[k].run
      /\ DOMAIN requests[Run(k)] = 1 .. Len(requests[Run(k)])
  BY <1>1, TaskAtHand
<1>3. /\ task[k].found \in Seq(FoundRecord)
      /\ Found(k) = 1 .. Len(task[k].found) /\ Len(task[k].found) \in Nat
      /\ \A m \in Found(k) : task[k].found[m] \in FoundRecord
  BY FoundAtHand
<1>4. n \in Found(k)
  <2>1. ToExpire(k) \in SUBSET Nat
    BY <1>3 DEF ToExpire
  <2>2. First(ToExpire(k)) \in ToExpire(k)
    BY <1>1, <2>1, FirstOf
  <2>3. QED BY <2>2 DEF ToExpire
<1> HIDE DEF n
<1>5. /\ g \in Seq(FoundRecord) /\ DOMAIN g = DOMAIN task[k].found
      /\ \A m \in DOMAIN g : g[m].id = task[k].found[m].id
      /\ \A m \in DOMAIN g : m # n => g[m] = task[k].found[m]
  <2> DEFINE x == [task[k].found[n] EXCEPT !.status = "expired"]
  <2>1. x \in FoundRecord /\ x.id = task[k].found[n].id
    BY <1>3, <1>4 DEF FoundRecord, RequestStatus
  <2>2. g = [task[k].found EXCEPT ![n] = x]
    OBVIOUS
  <2> HIDE DEF x, g
  <2>3. g \in Seq(FoundRecord)
    BY <1>3, <1>4, <2>1, <2>2, ExceptSeq
  <2>4. /\ DOMAIN g = DOMAIN task[k].found /\ g[n] = x
        /\ \A m \in DOMAIN g : m # n => g[m] = task[k].found[m]
    BY <1>4, <2>2 DEF Found
  <2>5. QED BY <2>1, <2>3, <2>4
<1>6. i \in DOMAIN requests[Run(k)] /\ i \in Nat
  <2>1. i \in DOMAIN requests[Run(k)]
    BY <1>1, <1>2, <1>4 DEF TaskOK, Found
  <2>2. QED BY <1>2, <2>1
<1> HIDE DEF i
<1>7. u = [task[k] EXCEPT !.found = g, !.status = "expired", !.id = i]
  BY <1>2 DEF TaskRecord
<1> HIDE DEF g, u
<1>8. /\ u \in TaskRecord /\ u.found = g /\ u.status = "expired" /\ u.id = i
      /\ u.run = Run(k) /\ u.kind = task[k].kind /\ u.epoch = task[k].epoch
      /\ u.alone = task[k].alone
  BY <1>2, <1>5, <1>6, <1>7 DEF TaskRecord, RequestStatus
<1>9. "set" \in Phases
  BY DEF Phases
<1>10. /\ t \in TaskRecord /\ t.pc = "set" /\ t.id = u.id
       /\ t.run = u.run /\ t.kind = u.kind /\ t.epoch = u.epoch /\ t.status = u.status
       /\ t.found = u.found /\ t.alone = u.alone
  BY <1>8, <1>9, RecordMoves
<1> HIDE DEF t
<1>11. TaskOK(t)
  BY <1>1, <1>2, <1>5, <1>6, <1>8, <1>10 DEF TaskOK
<1>12. /\ t.id = task[k].found[n].id /\ t.status = "expired"
       /\ DOMAIN t.found = DOMAIN task[k].found
       /\ \A m \in DOMAIN t.found : m # n => t.found[m] = task[k].found[m]
       /\ t.run = Run(k) /\ t.kind = task[k].kind /\ t.epoch = task[k].epoch
       /\ t.alone = task[k].alone /\ t.kind # "new"
  BY <1>1, <1>5, <1>8, <1>10 DEF i
<1>13. n \in DOMAIN task[k].found
  BY <1>4 DEF Found
<1>14. QED BY <1>1, <1>10, <1>11, <1>12, <1>13

(* create goes on when there is room; otherwise, as a listing, it returns. *)
LEMMA ReviewPendingTask ==
  ASSUME CommandsInv, NEW k \in Clients, ReviewPending(k)
  PROVE  \E t \in TaskRecord :
           /\ task' = [task EXCEPT ![k] = t] /\ TaskOK(t)
           /\ task[k].pc = "review"
           /\ \/ t = NoTask
              \/ /\ task[k].kind = "create" /\ Room(k)
                 /\ t.kind = "new" /\ t.pc \in {"getEpoch", "set"} /\ t.run = Run(k)
                 /\ t.epoch = task[k].epoch /\ t.alone = task[k].alone
                 /\ t.pc = "getEpoch" => t.epoch = None
<1>1. /\ task[k].pc = "review" /\ task[k].kind \in {"create", "list"}
      /\ UNCHANGED requests
  BY DEF ReviewPending, At, interruptVars
<1>2. /\ task[k] \in TaskRecord /\ TaskOK(task[k])
      /\ Run(k) \in Runs /\ Run(k) = task[k].run
  BY <1>1, TaskAtHand
<1>3. CASE task[k].kind = "create" /\ Room(k)
  <2> DEFINE u == [task[k] EXCEPT !.kind = "new", !.status = "pending"]
             pc == IF task[k].epoch = None THEN "getEpoch" ELSE "set"
             t == [u EXCEPT !.pc = pc]
  <2>1. task' = [task EXCEPT ![k] = t]
    BY <1>3 DEF ReviewPending, Continue
  <2>2. /\ u \in TaskRecord /\ u.kind = "new" /\ u.status = "pending"
        /\ u.run = Run(k) /\ u.epoch = task[k].epoch /\ u.alone = task[k].alone
        /\ u.found = task[k].found
    BY <1>2 DEF TaskRecord, RequestStatus
  <2> HIDE DEF u
  <2>3. pc \in Phases
    BY DEF Phases
  <2>4. /\ t \in TaskRecord /\ t.pc = pc /\ t.kind = u.kind /\ t.status = u.status
        /\ t.run = u.run /\ t.epoch = u.epoch /\ t.alone = u.alone /\ t.found = u.found
    BY <2>2, <2>3, RecordMoves
  <2> HIDE DEF t
  <2>5. t.epoch # None => t.epoch \in Nat
    BY <2>4 DEF TaskRecord
  <2>6. TaskOK(t)
    BY <1>1, <1>2, <2>2, <2>4, <2>5 DEF TaskOK
  <2>7. QED BY <1>1, <1>3, <2>1, <2>2, <2>4, <2>6
<1>4. CASE ~(task[k].kind = "create" /\ Room(k))
  <2>1. task' = [task EXCEPT ![k] = NoTask]
    BY <1>4 DEF ReviewPending, Return
  <2>2. QED BY <1>1, <2>1, Returned
<1>5. QED BY <1>3, <1>4

(* clear_expired deletes one of the requests it found, or returns. *)
LEMMA ReviewClearedTask ==
  ASSUME CommandsInv, NEW k \in Clients, ReviewCleared(k)
  PROVE  \E t \in TaskRecord :
           /\ task' = [task EXCEPT ![k] = t] /\ TaskOK(t)
           /\ task[k].pc = "review" /\ t.pc \in {"idle", "delete"}
           /\ t.pc # "idle" => t.kind = "clear" /\ t.alone = task[k].alone
<1>1. task[k].pc = "review" /\ task[k].kind = "clear"
  BY DEF ReviewCleared, At
<1>2. /\ task[k] \in TaskRecord /\ TaskOK(task[k])
      /\ Run(k) \in Runs /\ Run(k) = task[k].run
      /\ DOMAIN requests[Run(k)] = 1 .. Len(requests[Run(k)])
  BY <1>1, TaskAtHand
<1>3. CASE ToClear(k) = {}
  <2>1. task' = [task EXCEPT ![k] = NoTask]
    BY <1>3 DEF ReviewCleared, Return
  <2>2. QED BY <1>1, <2>1, Returned
<1>4. CASE ToClear(k) # {}
  <2> DEFINE n == First(ToClear(k))
             i == task[k].found[n].id
             g == RemoveAt(task[k].found, n)
             u == [task[k] EXCEPT !.id = i, !.found = g]
             t == [u EXCEPT !.pc = "delete"]
  <2>1. task' = [task EXCEPT ![k] = t]
    BY <1>4 DEF ReviewCleared, Continue
  <2>2. /\ task[k].found \in Seq(FoundRecord)
        /\ Found(k) = 1 .. Len(task[k].found) /\ Len(task[k].found) \in Nat
        /\ \A m \in Found(k) : task[k].found[m] \in FoundRecord
    BY FoundAtHand
  <2>3. n \in Found(k)
    <3>1. ToClear(k) \in SUBSET Nat
      BY <2>2 DEF ToClear
    <3>2. First(ToClear(k)) \in ToClear(k)
      BY <1>4, <3>1, FirstOf
    <3>3. QED BY <3>2 DEF ToClear
  <2> HIDE DEF n
  <2>4. i \in DOMAIN requests[Run(k)] /\ i \in Nat
    <3>1. i \in DOMAIN requests[Run(k)]
      BY <1>1, <1>2, <2>3 DEF TaskOK, Found
    <3>2. QED BY <1>2, <3>1
  <2>5. /\ g \in Seq(FoundRecord)
        /\ \A m \in DOMAIN g : \E o \in Found(k) : g[m] = task[k].found[o]
    <3>1. n \in 1 .. Len(task[k].found)
      BY <2>2, <2>3
    <3>2. /\ RemoveAt(task[k].found, n) \in Seq(FoundRecord)
          /\ \A m \in DOMAIN RemoveAt(task[k].found, n) :
               \E o \in 1 .. Len(task[k].found) :
                 RemoveAt(task[k].found, n)[m] = task[k].found[o]
      BY <2>2, <3>1, RemovedFacts
    <3>3. QED BY <2>2, <3>2
  <2>6. \A m \in DOMAIN g : g[m].id \in DOMAIN requests[Run(k)]
    BY <1>1, <1>2, <2>5 DEF TaskOK, Found
  <2> HIDE DEF i, g
  <2>7. /\ u \in TaskRecord /\ u.found = g /\ u.id = i
        /\ u.run = Run(k) /\ u.kind = task[k].kind /\ u.alone = task[k].alone
    BY <1>2, <2>4, <2>5 DEF TaskRecord
  <2> HIDE DEF u
  <2>8. "delete" \in Phases
    BY DEF Phases
  <2>9. /\ t \in TaskRecord /\ t.pc = "delete" /\ t.id = u.id /\ t.found = u.found
        /\ t.run = u.run /\ t.kind = u.kind /\ t.alone = u.alone
    BY <2>7, <2>8, RecordMoves
  <2> HIDE DEF t
  <2>10. TaskOK(t)
    BY <1>1, <1>2, <2>4, <2>6, <2>7, <2>9 DEF TaskOK
  <2>11. QED BY <1>1, <2>1, <2>7, <2>9, <2>10
<1>5. QED BY <1>3, <1>4

(* A request is saved over its key. *)
LEMMA StatusSet ==
  ASSUME CommandsInv, NEW r \in Runs, NEW i \in DOMAIN requests[r],
         NEW status \in RequestStatus, SetStatus(r, i, status)
  PROVE  /\ requests' \in [Runs -> Seq(KeyRecord)]
         /\ \A o \in Runs : DOMAIN requests'[o] = DOMAIN requests[o]
         /\ requests'[r][i].status = status
         /\ requests'[r][i].epoch = requests[r][i].epoch
         /\ requests'[r][i].late = requests[r][i].late
         /\ \A o \in Runs : \A j \in DOMAIN requests[o] :
              o # r \/ j # i => requests'[o][j] = requests[o][j]
         /\ status # "pending" => Settling
<1> DEFINE reqs == requests[r]
           x == [reqs[i] EXCEPT !.status = status]
           new == [reqs EXCEPT ![i] = x]
<1>1. requests \in [Runs -> Seq(KeyRecord)]
  BY DEF CommandsInv, CommandsTypeOK
<1>2. reqs \in Seq(KeyRecord) /\ DOMAIN reqs = 1 .. Len(reqs) /\ i \in 1 .. Len(reqs)
  BY <1>1, LenProperties
<1>3. reqs[i] \in KeyRecord
  BY <1>2, ElementOfSeq
<1>4. /\ x \in KeyRecord /\ x.status = status
      /\ x.epoch = reqs[i].epoch /\ x.late = reqs[i].late
  BY <1>3 DEF KeyRecord
<1>5. requests' = [requests EXCEPT ![r] = new]
  BY DEF SetStatus
<1> HIDE DEF x
<1>6. new \in Seq(KeyRecord)
  BY <1>2, <1>4, ExceptSeq
<1>7. DOMAIN new = DOMAIN reqs /\ new[i] = x /\ \A j \in DOMAIN reqs : j # i => new[j] = reqs[j]
  BY <1>2
<1> HIDE DEF new
<1>8. /\ requests' \in [Runs -> Seq(KeyRecord)] /\ requests'[r] = new
      /\ \A o \in Runs \ {r} : requests'[o] = requests[o]
  BY <1>1, <1>5, <1>6
<1>9. /\ \A o \in Runs : DOMAIN requests'[o] = DOMAIN requests[o]
      /\ \A o \in Runs : \A j \in DOMAIN requests[o] :
           o # r \/ j # i => requests'[o][j] = requests[o][j]
  BY <1>7, <1>8
<1>10. status # "pending" => Settling
  BY <1>4, <1>7, <1>8, <1>9 DEF Settling
<1>11. QED BY <1>4, <1>7, <1>8, <1>9, <1>10

(* delete_request deletes the key. *)
LEMMA DeleteTask ==
  ASSUME CommandsInv, NEW k \in Clients, Delete(k)
  PROVE  /\ task[k].pc = "delete" /\ Run(k) \in Runs
         /\ task[k].id \in DOMAIN requests[Run(k)]
         /\ \E t \in TaskRecord :
              /\ task' = [task EXCEPT ![k] = t] /\ TaskOK(t)
              /\ t.pc = "relist" /\ t.kind = task[k].kind /\ t.kind \notin {"create", "new"}
              /\ t.alone = task[k].alone
<1> DEFINE t == [task[k] EXCEPT !.pc = "relist"]
<1>1. task[k].pc = "delete" /\ task' = [task EXCEPT ![k] = t]
  BY GoneTo DEF Delete, At
<1>2. /\ task[k] \in TaskRecord /\ TaskOK(task[k])
      /\ Run(k) \in Runs /\ Run(k) = task[k].run
  BY <1>1, TaskAtHand
<1>3. "relist" \in Phases
  BY DEF Phases
<1>4. /\ t \in TaskRecord /\ t.pc = "relist" /\ t.run = task[k].run
      /\ t.kind = task[k].kind /\ t.found = task[k].found /\ t.alone = task[k].alone
  BY <1>2, <1>3, RecordMoves
<1> HIDE DEF t
<1>5. TaskOK(t) /\ t.kind \notin {"create", "new"}
  BY <1>1, <1>2, <1>4 DEF TaskOK
<1>6. task[k].id \in DOMAIN requests[Run(k)]
  BY <1>1, <1>2 DEF TaskOK
<1>7. QED BY <1>1, <1>2, <1>4, <1>5, <1>6

(* get_pending and resolve save what they make of the request, unless it is what  *)
(* they read, as it is when the request was settled.                          *)
LEMMA GetTask ==
  ASSUME CommandsInv, NEW k \in Clients, Get(k)
  PROVE  /\ task[k].pc = "get" /\ Run(k) \in Runs
         /\ task[k].id \in DOMAIN requests[Run(k)]
         /\ \E t \in TaskRecord :
              /\ task' = [task EXCEPT ![k] = t] /\ TaskOK(t)
              /\ t.pc \in {"idle", "set"}
              /\ requests[Run(k)][task[k].id].status # "pending" => t = NoTask
              /\ t.pc # "idle" => /\ t.kind = task[k].kind /\ t.alone = task[k].alone
                                  /\ t.kind \notin {"create", "new"}
<1> DEFINE i == task[k].id
           req == requests[Run(k)][i]
           out == Outcome(k)
<1>1. task[k].pc = "get"
  BY DEF Get, At
<1>2. /\ task[k] \in TaskRecord /\ TaskOK(task[k])
      /\ Run(k) \in Runs /\ Run(k) = task[k].run /\ requests[Run(k)] \in Seq(KeyRecord)
      /\ DOMAIN requests[Run(k)] = 1 .. Len(requests[Run(k)])
  BY <1>1, TaskAtHand
<1>3. i \in DOMAIN requests[Run(k)] /\ task[k].kind \notin {"create", "new"}
  BY <1>1, <1>2 DEF TaskOK
<1>4. req \in KeyRecord
  BY <1>2, <1>3, ElementOfSeq
<1>5. ReadRequest(k) = req
  BY DEF ReadRequest
<1> HIDE DEF req, i
<1>6. /\ req.status # "pending" => out = req
      /\ out # req => out.status \in {"expired", "resolved"}
  <2>1. CASE task[k].kind = "get"
    <3>1. out = Noticed(req)
      BY <1>5, <2>1 DEF Outcome
    <3>2. QED BY <1>4, <3>1 DEF Noticed, KeyRecord
  <2>2. CASE task[k].kind # "get"
    <3>1. out = Judged(req, task[k].epoch)
      BY <1>5, <2>2 DEF Outcome
    <3>2. req.status # "pending" => Verdict(req, task[k].epoch) \in {"unknown", "notPending"}
      BY <1>4 DEF Verdict, KeyRecord, RequestStatus, IsPending
    <3>3. ASSUME Verdict(req, task[k].epoch) \in {"expired", "resolved"}
          PROVE  out.status \in {"expired", "resolved"}
      <4>1. out = [req EXCEPT !.status = Verdict(req, task[k].epoch)]
        BY <3>1, <3>3 DEF Judged
      <4>2. QED BY <1>4, <3>3, <4>1 DEF KeyRecord
    <3>4. QED BY <3>1, <3>2, <3>3 DEF Judged
  <2>3. QED BY <2>1, <2>2
<1> HIDE DEF out
<1>7. CASE out = req
  <2>1. task' = [task EXCEPT ![k] = NoTask]
    BY <1>5, <1>7 DEF Get, Return, out
  <2>2. QED BY <1>1, <1>2, <1>3, <2>1, Returned DEF i
<1>8. CASE out # req
  <2> DEFINE u == [task[k] EXCEPT !.status = out.status]
             t == [u EXCEPT !.pc = "set"]
  <2>1. task' = [task EXCEPT ![k] = t]
    BY <1>5, <1>8 DEF Get, Continue, out
  <2>2. out.status \in {"expired", "resolved"}
    BY <1>6, <1>8
  <2>3. /\ u \in TaskRecord /\ u.status = out.status /\ u.run = Run(k) /\ u.id = i
        /\ u.kind = task[k].kind /\ u.alone = task[k].alone /\ u.found = task[k].found
    BY <1>2, <2>2 DEF TaskRecord, RequestStatus, i
  <2> HIDE DEF u
  <2>4. "set" \in Phases
    BY DEF Phases
  <2>5. /\ t \in TaskRecord /\ t.pc = "set" /\ t.status = u.status /\ t.run = u.run
        /\ t.id = u.id /\ t.kind = u.kind /\ t.alone = u.alone /\ t.found = u.found
    BY <2>3, <2>4, RecordMoves
  <2> HIDE DEF t
  <2>6. TaskOK(t)
    BY <1>1, <1>2, <1>3, <2>2, <2>3, <2>5 DEF TaskOK
  <2>7. req.status = "pending"
    BY <1>6, <1>8
  <2>8. QED BY <1>1, <1>2, <1>3, <2>1, <2>3, <2>5, <2>6, <2>7 DEF i, req
<1>9. QED BY <1>7, <1>8

(* save_request saves a new request, *)
LEMMA SetNewTask ==
  ASSUME CommandsInv, NEW k \in Clients, Set(k), task[k].kind = "new"
  PROVE  /\ Run(k) \in Runs /\ task[k].pc = "set"
         /\ requests' \in [Runs -> Seq(KeyRecord)]
         /\ DOMAIN requests'[Run(k)] =
              DOMAIN requests[Run(k)] \cup {Len(requests[Run(k)]) + 1}
         /\ Len(requests[Run(k)]) + 1 \notin DOMAIN requests[Run(k)]
         /\ \A i \in DOMAIN requests[Run(k)] :
              requests'[Run(k)][i] = requests[Run(k)][i]
         /\ \A r \in Runs \ {Run(k)} : requests'[r] = requests[r]
         /\ Settling
         /\ \E t \in TaskRecord :
              /\ task' = [task EXCEPT ![k] = t] /\ TaskOK(t)'
              /\ t.pc = "look" /\ t.id = Len(requests[Run(k)]) + 1
              /\ t.run = Run(k) /\ t.kind = "new" /\ t.epoch = task[k].epoch
              /\ t.alone = task[k].alone
<1> DEFINE r == Run(k)
           reqs == requests[r]
           n == Len(reqs)
           x == [step |-> CHOOSE s \in Steps : TRUE, epoch |-> task[k].epoch,
                 status |-> "pending", late |-> FALSE]
           new == Append(reqs, x)
           u == [task[k] EXCEPT !.id = n + 1]
           t == [u EXCEPT !.pc = "look"]
<1>1. /\ task[k].pc = "set" /\ task' = [task EXCEPT ![k] = t]
      /\ requests' = [requests EXCEPT ![r] = new]
  BY DEF Set, At, Continue
<1>2. /\ task[k] \in TaskRecord /\ TaskOK(task[k])
      /\ r \in Runs /\ r = task[k].run /\ reqs \in Seq(KeyRecord)
      /\ DOMAIN reqs = 1 .. n /\ n \in Nat /\ requests \in [Runs -> Seq(KeyRecord)]
  BY <1>1, TaskAtHand DEF CommandsInv, CommandsTypeOK
<1>3. task[k].epoch \in Nat /\ task[k].status = "pending"
  BY <1>1, <1>2 DEF TaskOK
<1>4. x \in KeyRecord
  BY <1>3 DEF KeyRecord, RequestStatus
<1> HIDE DEF x
<1>5. /\ new \in Seq(KeyRecord) /\ DOMAIN new = DOMAIN reqs \cup {n + 1}
      /\ \A i \in DOMAIN reqs : new[i] = reqs[i]
  BY <1>2, <1>4, AppendedFacts
<1>6. n + 1 \notin DOMAIN reqs /\ n + 1 \in Nat
  BY <1>2
<1> HIDE DEF new
<1>7. /\ requests' \in [Runs -> Seq(KeyRecord)] /\ requests'[r] = new
      /\ \A o \in Runs \ {r} : requests'[o] = requests[o]
  BY <1>1, <1>2, <1>5
<1>8. Settling
  BY <1>5, <1>7 DEF Settling
<1> HIDE DEF n, reqs
<1>9. /\ u \in TaskRecord /\ u.id = n + 1 /\ u.run = r /\ u.kind = "new"
      /\ u.epoch = task[k].epoch /\ u.alone = task[k].alone /\ u.found = task[k].found
      /\ u.status = "pending"
  BY <1>2, <1>3, <1>6 DEF TaskRecord
<1> HIDE DEF u, r
<1>10. "look" \in Phases
  BY DEF Phases
<1>11. /\ t \in TaskRecord /\ t.pc = "look" /\ t.id = u.id /\ t.run = u.run
       /\ t.kind = u.kind /\ t.epoch = u.epoch /\ t.alone = u.alone /\ t.found = u.found
       /\ t.status = u.status
  BY <1>9, <1>10, RecordMoves
<1> HIDE DEF t
<1>12. PICK w : w = t
  OBVIOUS
<1>13. /\ w \in TaskRecord /\ w.pc = "look" /\ w.id = n + 1 /\ w.run = r
       /\ w.kind = "new" /\ w.epoch = task[k].epoch /\ w.alone = task[k].alone
       /\ w.found = task[k].found /\ w.status = "pending" /\ w.run \in Runs
  BY <1>2, <1>9, <1>11, <1>12
<1>14. PICK o : o = r
  OBVIOUS
<1>15. /\ w.id \in DOMAIN requests'[o]
       /\ \A m \in DOMAIN w.found : w.found[m].id \in DOMAIN requests'[o]
  BY <1>1, <1>2, <1>5, <1>7, <1>13, <1>14 DEF TaskOK, reqs
<1>16. TaskOK(w)'
  BY <1>13, <1>14, <1>15 DEF TaskOK
<1>17. task' = [task EXCEPT ![k] = w]
  BY <1>1, <1>12
<1>18. QED BY <1>1, <1>2, <1>5, <1>6, <1>7, <1>8, <1>13, <1>16, <1>17 DEF r, reqs, n

(* or one that an operation settled. *)
LEMMA SetOldTask ==
  ASSUME CommandsInv, NEW k \in Clients, Set(k), task[k].kind # "new"
  PROVE  /\ Run(k) \in Runs /\ task[k].pc = "set"
         /\ task[k].id \in DOMAIN requests[Run(k)]
         /\ task[k].status \in {"expired", "resolved"}
         /\ SetStatus(Run(k), task[k].id, task[k].status)
         /\ Settling
         /\ \E t \in TaskRecord :
              /\ task' = [task EXCEPT ![k] = t] /\ TaskOK(t)'
              /\ t.pc = "look" /\ t.id = task[k].id
              /\ t.run = Run(k) /\ t.kind = task[k].kind /\ t.epoch = task[k].epoch
              /\ t.alone = task[k].alone /\ t.found = task[k].found
<1> DEFINE t == [task[k] EXCEPT !.pc = "look"]
<1>1. /\ task[k].pc = "set" /\ SetStatus(Run(k), task[k].id, task[k].status)
      /\ task' = [task EXCEPT ![k] = t]
  BY GoneTo DEF Set, At
<1>2. /\ task[k] \in TaskRecord /\ TaskOK(task[k])
      /\ Run(k) \in Runs /\ Run(k) = task[k].run
  BY <1>1, TaskAtHand
<1>3. task[k].id \in DOMAIN requests[Run(k)] /\ task[k].status \in {"expired", "resolved"}
  BY <1>1, <1>2 DEF TaskOK
<1>4. /\ Settling /\ DOMAIN requests'[Run(k)] = DOMAIN requests[Run(k)]
      /\ requests'[Run(k)][task[k].id].status = task[k].status
  <2>1. task[k].status \in RequestStatus
    BY <1>3 DEF RequestStatus
  <2>2. QED BY <1>1, <1>2, <1>3, <2>1, StatusSet
<1>5. "look" \in Phases
  BY DEF Phases
<1>6. /\ t \in TaskRecord /\ t.pc = "look" /\ t.id = task[k].id /\ t.run = task[k].run
      /\ t.kind = task[k].kind /\ t.epoch = task[k].epoch /\ t.alone = task[k].alone
      /\ t.found = task[k].found /\ t.status = task[k].status
  BY <1>2, <1>5, RecordMoves
<1> HIDE DEF t
<1>7. PICK w : w = t
  OBVIOUS
<1>8. /\ w \in TaskRecord /\ w.pc = "look" /\ w.id = task[k].id /\ w.run = Run(k)
      /\ w.kind = task[k].kind /\ w.epoch = task[k].epoch /\ w.alone = task[k].alone
      /\ w.found = task[k].found /\ w.status = task[k].status /\ w.run \in Runs
  BY <1>2, <1>6, <1>7
<1>9. /\ w.id \in DOMAIN requests'[w.run] /\ requests'[w.run][w.id].status # "pending"
      /\ \A m \in DOMAIN w.found : w.found[m].id \in DOMAIN requests'[w.run]
  BY <1>1, <1>2, <1>3, <1>4, <1>8 DEF TaskOK
<1>10. w.kind # "new" /\ (w.kind = "create" => task[k].kind = "create")
  BY <1>8
<1>11. TaskOK(w)'
  BY <1>8, <1>9, <1>10 DEF TaskOK
<1>12. task' = [task EXCEPT ![k] = w]
  BY <1>1, <1>7
<1>13. QED BY <1>1, <1>2, <1>3, <1>4, <1>8, <1>11, <1>12

(* An operation that has saved goes on with its listing, or returns. *)
LEMMA SavedTask ==
  ASSUME CommandsInv, NEW k \in Clients, task[k].pc \in {"look", "push"}, Saved(k)
  PROVE  /\ \E t \in TaskRecord :
              /\ task' = [task EXCEPT ![k] = t] /\ TaskOK(t)
              /\ t.pc \in {"idle", "review"}
              /\ t.pc # "idle" =>
                   /\ t.kind = task[k].kind /\ t.run = Run(k) /\ t.epoch = task[k].epoch
                   /\ t.alone = task[k].alone /\ t.found = task[k].found
                   /\ t.kind # "new"
         /\ \A r \in Runs : \A i : <<r, i>> \in answered' =>
              \/ <<r, i>> \in answered
              \/ i \in DOMAIN requests[r] /\ requests[r][i].status # "pending"
<1>1. /\ task[k] \in TaskRecord /\ TaskOK(task[k])
      /\ Run(k) \in Runs /\ Run(k) = task[k].run
  BY TaskAtHand
<1>2. \A r \in Runs : \A i : <<r, i>> \in answered' =>
        \/ <<r, i>> \in answered
        \/ i \in DOMAIN requests[r] /\ requests[r][i].status # "pending"
  <2>1. CASE task[k].status = "resolved"
    <3>1. answered' = answered \cup {<<Run(k), task[k].id>>}
      BY <2>1 DEF Saved, Keys
    <3>2. /\ task[k].id \in DOMAIN requests[Run(k)]
          /\ requests[Run(k)][task[k].id].status # "pending"
      BY <1>1, <2>1 DEF TaskOK
    <3>3. QED BY <3>1, <3>2
  <2>2. CASE task[k].status # "resolved"
    BY <2>2 DEF Saved
  <2>3. QED BY <2>1, <2>2
<1>3. CASE task[k].kind \in {"create", "list"}
  <2> DEFINE t == [task[k] EXCEPT !.pc = "review"]
  <2>1. task' = [task EXCEPT ![k] = t]
    BY <1>3, GoneTo DEF Saved
  <2>2. "review" \in Phases
    BY DEF Phases
  <2>3. /\ t \in TaskRecord /\ t.pc = "review" /\ t.run = task[k].run
        /\ t.kind = task[k].kind /\ t.epoch = task[k].epoch /\ t.alone = task[k].alone
        /\ t.found = task[k].found
    BY <1>1, <2>2, RecordMoves
  <2> HIDE DEF t
  <2>4. TaskOK(t)
    BY <1>1, <1>3, <2>3 DEF TaskOK
  <2>5. QED BY <1>1, <1>3, <1>2, <2>1, <2>3, <2>4
<1>4. CASE task[k].kind \notin {"create", "list"}
  <2>1. task' = [task EXCEPT ![k] = NoTask]
    BY <1>4 DEF Saved, Return
  <2>2. QED BY <1>2, <2>1, Returned
<1>5. QED BY <1>2, <1>3, <1>4

(* The id is not in the index yet. *)
LEMMA NotIndexedTask ==
  ASSUME CommandsInv, NEW k \in Clients, task[k].pc = "look", Goto(k, "push")
  PROVE  \E t \in TaskRecord :
           /\ task' = [task EXCEPT ![k] = t] /\ TaskOK(t)
           /\ t.pc = "push" /\ t.kind = task[k].kind /\ t.run = Run(k)
           /\ t.id = task[k].id /\ t.epoch = task[k].epoch
           /\ t.alone = task[k].alone /\ t.found = task[k].found
<1> DEFINE t == [task[k] EXCEPT !.pc = "push"]
<1>1. /\ task[k] \in TaskRecord /\ TaskOK(task[k])
      /\ Run(k) \in Runs /\ Run(k) = task[k].run
  BY TaskAtHand
<1>2. task' = [task EXCEPT ![k] = t]
  BY GoneTo
<1>3. "push" \in Phases
  BY DEF Phases
<1>4. /\ t \in TaskRecord /\ t.pc = "push" /\ t.run = task[k].run /\ t.id = task[k].id
      /\ t.kind = task[k].kind /\ t.epoch = task[k].epoch /\ t.alone = task[k].alone
      /\ t.found = task[k].found /\ t.status = task[k].status
  BY <1>1, <1>3, RecordMoves
<1> HIDE DEF t
<1>5. TaskOK(t)
  BY <1>1, <1>4 DEF TaskOK
<1>6. QED BY <1>1, <1>2, <1>4, <1>5

(* sweep_expired reads the keys in some order; *)
LEMMA ScanTask ==
  ASSUME CommandsInv, NEW k \in Clients, Scan(k)
  PROVE  \E t \in TaskRecord :
           /\ task' = [task EXCEPT ![k] = t] /\ TaskOK(t)
           /\ task[k].pc = "scan" /\ t.pc \in {"idle", "sweep"}
           /\ t.pc # "idle" => /\ t.kind = task[k].kind /\ t.alone = task[k].alone
                               /\ t.kind \notin {"create", "new"}
<1> DEFINE keys == {i \in DOMAIN requests[Run(k)] : Exists(Run(k), i)}
<1>1. task[k].pc = "scan"
  BY DEF Scan, At
<1>2. /\ task[k] \in TaskRecord /\ TaskOK(task[k])
      /\ Run(k) \in Runs /\ Run(k) = task[k].run
      /\ DOMAIN requests[Run(k)] = 1 .. Len(requests[Run(k)])
      /\ Len(requests[Run(k)]) \in Nat
  BY <1>1, TaskAtHand
<1>3. CASE keys = {}
  <2>1. task' = [task EXCEPT ![k] = NoTask]
    BY <1>3 DEF Scan, Return
  <2>2. QED BY <1>1, <2>1, Returned
<1>4. CASE keys # {}
  <2>1. PICK order \in SetToAllKPermutations(keys) :
          /\ Len(order) = Cardinality(keys)
          /\ Continue(k, [task[k] EXCEPT !.left = order], "sweep")
    BY <1>4 DEF Scan
  <2>2. keys \in SUBSET Nat /\ IsFiniteSet(keys)
    <3>1. IsFiniteSet(1 .. Len(requests[Run(k)]))
      BY <1>2, FS_Interval
    <3>2. QED BY <1>2, <3>1, FS_Subset
  <2> HIDE DEF keys
  <2>3. order \in Seq(Nat)
    <3>1. PICK s \in SUBSET keys : order \in SetToSeqs(s)
      BY DEF SetToAllKPermutations
    <3>2. Cardinality(s) \in Nat
      BY <2>2, FS_Subset, FS_CardinalityType
    <3>3. order \in [1 .. Cardinality(s) -> s]
      BY <3>1 DEF SetToSeqs
    <3>4. order \in [1 .. Cardinality(s) -> Nat]
      BY <2>2, <3>3
    <3>5. QED BY <3>2, <3>4, SeqDef
  <2>4. order # <<>>
    <3>1. Cardinality(keys) # 0
      BY <1>4, <2>2, FS_EmptySet
    <3>2. QED BY <2>1, <3>1, EmptySeq
  <2> DEFINE u == [task[k] EXCEPT !.left = order]
             t == [u EXCEPT !.pc = "sweep"]
  <2>5. task' = [task EXCEPT ![k] = t]
    BY <2>1 DEF Continue
  <2>6. /\ u \in TaskRecord /\ u.left = order /\ u.run = Run(k) /\ u.kind = task[k].kind
        /\ u.found = task[k].found /\ u.alone = task[k].alone
    BY <1>2, <2>3 DEF TaskRecord
  <2> HIDE DEF u
  <2>7. "sweep" \in Phases
    BY DEF Phases
  <2>8. /\ t \in TaskRecord /\ t.pc = "sweep" /\ t.left = u.left /\ t.run = u.run
        /\ t.kind = u.kind /\ t.found = u.found /\ t.alone = u.alone
    BY <2>6, <2>7, RecordMoves
  <2> HIDE DEF t
  <2>9. TaskOK(t) /\ t.kind \notin {"create", "new"}
    BY <1>1, <1>2, <2>4, <2>6, <2>8 DEF TaskOK
  <2>10. QED BY <1>1, <2>5, <2>6, <2>8, <2>9
<1>5. QED BY <1>3, <1>4

(* it goes on with the next key, or returns. *)
LEMMA AfterKeyTask ==
  ASSUME NEW u \in TaskRecord, u.run \in Runs, u.kind \notin {"create", "new"},
         \A n \in DOMAIN u.found : u.found[n].id \in DOMAIN requests[u.run]
  PROVE  /\ AfterKey(u) \in TaskRecord /\ TaskOK(AfterKey(u))
         /\ AfterKey(u).pc \in {"idle", "sweep"}
         /\ AfterKey(u).pc # "idle" =>
              AfterKey(u).kind = u.kind /\ AfterKey(u).alone = u.alone
<1> DEFINE t == [u EXCEPT !.pc = "sweep"]
<1>1. "sweep" \in Phases
  BY DEF Phases
<1>2. /\ t \in TaskRecord /\ t.pc = "sweep" /\ t.left = u.left /\ t.run = u.run
      /\ t.kind = u.kind /\ t.found = u.found /\ t.alone = u.alone
  BY <1>1, RecordMoves
<1>3. CASE u.left = <<>>
  BY <1>3, Returned DEF AfterKey
<1>4. CASE u.left # <<>>
  <2>1. AfterKey(u) = t
    BY <1>4 DEF AfterKey
  <2> HIDE DEF t
  <2>2. TaskOK(t)
    BY <1>2, <1>4 DEF TaskOK
  <2>3. QED BY <1>2, <2>1, <2>2
<1>5. QED BY <1>3, <1>4

LEMMA SweepTask ==
  ASSUME CommandsInv, NEW k \in Clients, Sweep(k)
  PROVE  \E t \in TaskRecord :
           /\ task' = [task EXCEPT ![k] = t] /\ TaskOK(t)
           /\ task[k].pc = "sweep" /\ t.pc \in {"idle", "sweep", "sweepDelete"}
           /\ t.pc # "idle" => /\ t.kind = task[k].kind /\ t.alone = task[k].alone
                               /\ t.kind \notin {"create", "new"}
<1> DEFINE u == NextKey(k)
<1>1. task[k].pc = "sweep"
  BY DEF Sweep, At
<1>2. /\ task[k] \in TaskRecord /\ TaskOK(task[k])
      /\ Run(k) \in Runs /\ Run(k) = task[k].run
  BY <1>1, TaskAtHand
<1>3. task[k].left \in Seq(Nat) /\ task[k].left # <<>>
  BY <1>1, <1>2 DEF TaskRecord, TaskOK
<1>4. Head(task[k].left) \in Nat /\ Tail(task[k].left) \in Seq(Nat)
  BY <1>3, HeadTailProperties
<1>5. /\ u \in TaskRecord /\ u.run = Run(k) /\ u.kind = task[k].kind
      /\ u.found = task[k].found /\ u.alone = task[k].alone
  BY <1>2, <1>4 DEF TaskRecord, NextKey
<1>6. /\ u.run \in Runs /\ u.kind \notin {"create", "new"}
      /\ \A n \in DOMAIN u.found : u.found[n].id \in DOMAIN requests[u.run]
  BY <1>1, <1>2, <1>5 DEF TaskOK
<1>7. CASE Exists(Run(k), u.id) /\ u.id \in u.overdue
  <2> DEFINE t == [u EXCEPT !.pc = "sweepDelete"]
  <2>1. task' = [task EXCEPT ![k] = t]
    BY <1>7 DEF Sweep, Continue
  <2> HIDE DEF u
  <2>2. "sweepDelete" \in Phases
    BY DEF Phases
  <2>3. /\ t \in TaskRecord /\ t.pc = "sweepDelete" /\ t.id = u.id /\ t.run = u.run
        /\ t.kind = u.kind /\ t.found = u.found /\ t.alone = u.alone
    BY <1>5, <2>2, RecordMoves
  <2> HIDE DEF t
  <2>4. u.id \in DOMAIN requests[u.run]
    BY <1>5, <1>7 DEF Exists
  <2>5. TaskOK(t)
    BY <1>6, <2>3, <2>4 DEF TaskOK
  <2>6. QED BY <1>1, <1>5, <1>6, <2>1, <2>3, <2>5
<1>8. CASE ~(Exists(Run(k), u.id) /\ u.id \in u.overdue)
  <2>1. task' = [task EXCEPT ![k] = AfterKey(u)]
    BY <1>8 DEF Sweep
  <2> HIDE DEF u
  <2>2. /\ AfterKey(u) \in TaskRecord /\ TaskOK(AfterKey(u))
        /\ AfterKey(u).pc \in {"idle", "sweep"}
        /\ AfterKey(u).pc # "idle" =>
             AfterKey(u).kind = u.kind /\ AfterKey(u).alone = u.alone
    BY <1>5, <1>6, AfterKeyTask
  <2>3. PICK t \in TaskRecord : t = AfterKey(u)
    BY <2>2
  <2>4. QED BY <1>1, <1>5, <1>6, <2>1, <2>2, <2>3
<1>9. QED BY <1>7, <1>8

LEMMA SweepDeleteTask ==
  ASSUME CommandsInv, NEW k \in Clients, SweepDelete(k)
  PROVE  /\ task[k].pc = "sweepDelete" /\ Run(k) \in Runs
         /\ task[k].id \in DOMAIN requests[Run(k)]
         /\ \E t \in TaskRecord :
              /\ task' = [task EXCEPT ![k] = t] /\ TaskOK(t)
              /\ t.pc \in {"idle", "sweep"}
              /\ t.pc # "idle" => /\ t.kind = task[k].kind /\ t.alone = task[k].alone
                                  /\ t.kind \notin {"create", "new"}
<1>1. task[k].pc = "sweepDelete"
  BY DEF SweepDelete, At
<1>2. /\ task[k] \in TaskRecord /\ TaskOK(task[k]) /\ task \in [Clients -> TaskRecord]
      /\ Run(k) \in Runs /\ Run(k) = task[k].run
  BY <1>1, TaskAtHand
<1>3. /\ task[k].id \in DOMAIN requests[Run(k)] /\ task[k].kind \notin {"create", "new"}
      /\ \A n \in DOMAIN task[k].found : task[k].found[n].id \in DOMAIN requests[task[k].run]
  BY <1>1, <1>2 DEF TaskOK
<1>4. task' = [task EXCEPT ![k] = AfterKey(task[k])]
  BY <1>2 DEF SweepDelete
<1>5. QED BY <1>1, <1>2, <1>3, <1>4, AfterKeyTask

(* The epoch is read, *)
LEMMA GetEpochTask ==
  ASSUME CommandsInv, NEW k \in Clients, GetEpoch(k)
  PROVE  \E t \in TaskRecord :
           /\ task' = [task EXCEPT ![k] = t] /\ TaskOK(t)
           /\ task[k].pc = "getEpoch" /\ t.pc \in {"set", "setEpoch"}
           /\ t.kind = task[k].kind /\ t.kind # "create"
           /\ t.kind = "new" => t.pc = "set"
           /\ t.run = Run(k) /\ t.epoch = epochs[Run(k)] /\ t.epoch \in Nat
           /\ t.alone = task[k].alone
<1> DEFINE u == [task[k] EXCEPT !.epoch = epochs[Run(k)]]
           pc == IF task[k].kind = "new" THEN "set" ELSE "setEpoch"
           t == [u EXCEPT !.pc = pc]
<1>1. task[k].pc = "getEpoch" /\ task' = [task EXCEPT ![k] = t]
  BY DEF GetEpoch, At, Continue
<1>2. /\ task[k] \in TaskRecord /\ TaskOK(task[k])
      /\ Run(k) \in Runs /\ Run(k) = task[k].run
  BY <1>1, TaskAtHand
<1>3. epochs[Run(k)] \in Nat
  BY <1>2 DEF CommandsInv, CommandsTypeOK
<1>4. /\ u \in TaskRecord /\ u.epoch = epochs[Run(k)] /\ u.run = Run(k)
      /\ u.kind = task[k].kind /\ u.found = task[k].found /\ u.alone = task[k].alone
      /\ u.status = task[k].status
  BY <1>2, <1>3 DEF TaskRecord
<1> HIDE DEF u
<1>5. pc \in Phases
  BY DEF Phases
<1>6. /\ t \in TaskRecord /\ t.pc = pc /\ t.epoch = u.epoch /\ t.run = u.run
      /\ t.kind = u.kind /\ t.found = u.found /\ t.alone = u.alone /\ t.status = u.status
  BY <1>4, <1>5, RecordMoves
<1> HIDE DEF t
<1>7. TaskOK(t) /\ t.kind # "create"
  BY <1>1, <1>2, <1>3, <1>4, <1>6 DEF TaskOK
<1>8. QED BY <1>1, <1>3, <1>4, <1>6, <1>7

(* The index of a run is rewritten. *)
LEMMA IndexStays ==
  ASSUME CommandsInv, NEW r \in Runs, NEW s \in Seq(Nat), index' = [index EXCEPT ![r] = s]
  PROVE  /\ index' \in [Runs -> Seq(Nat)]
         /\ index'[r] = s /\ \A o \in Runs \ {r} : index'[o] = index[o]
  BY DEF CommandsInv, CommandsTypeOK

(* What the rewrite of a listing pushes again. *)
LEMMA RefilledIndex ==
  ASSUME CommandsInv, NEW k \in Clients, Refill(k)
  PROVE  /\ Run(k) \in Runs
         /\ index' \in [Runs -> Seq(Nat)]
         /\ Range(index'[Run(k)]) = Range(index[Run(k)]) \cup {Head(task[k].push)}
         /\ \A o \in Runs \ {Run(k)} : index'[o] = index[o]
<1>1. task[k].pc = "refill"
  BY DEF Refill, At
<1>2. Run(k) \in Runs /\ index[Run(k)] \in Seq(Nat)
  BY <1>1, TaskAtHand
<1>3. task[k].push \in Seq(Nat) /\ task[k].push # <<>>
  BY RefillTask
<1>4. Head(task[k].push) \in Nat
  BY <1>3, HeadTailProperties
<1>5. index' = [index EXCEPT ![Run(k)] = Append(index[Run(k)], Head(task[k].push))]
  BY <1>2 DEF Refill, CommandsInv, CommandsTypeOK
<1>6. /\ Append(index[Run(k)], Head(task[k].push)) \in Seq(Nat)
      /\ Range(Append(index[Run(k)], Head(task[k].push)))
           = Range(index[Run(k)]) \cup {Head(task[k].push)}
  BY <1>2, <1>4, AppendedFacts
<1>7. QED BY <1>2, <1>5, <1>6, IndexStays

(* What save_request pushes. *)
LEMMA PushedIndex ==
  ASSUME CommandsInv, NEW k \in Clients, Push(k)
  PROVE  /\ Run(k) \in Runs /\ task[k].pc = "push"
         /\ index' \in [Runs -> Seq(Nat)]
         /\ Range(index'[Run(k)]) = Range(index[Run(k)]) \cup {task[k].id}
         /\ \A o \in Runs \ {Run(k)} : index'[o] = index[o]
<1>1. task[k].pc = "push"
  BY DEF Push, At
<1>2. Run(k) \in Runs /\ index[Run(k)] \in Seq(Nat) /\ task[k] \in TaskRecord
  BY <1>1, TaskAtHand
<1>3. task[k].id \in Nat
  BY <1>2 DEF TaskRecord
<1>4. index' = [index EXCEPT ![Run(k)] = Append(index[Run(k)], task[k].id)]
  BY <1>2 DEF Push, CommandsInv, CommandsTypeOK
<1>5. /\ Append(index[Run(k)], task[k].id) \in Seq(Nat)
      /\ Range(Append(index[Run(k)], task[k].id)) = Range(index[Run(k)]) \cup {task[k].id}
  BY <1>2, <1>3, AppendedFacts
<1>6. QED BY <1>1, <1>2, <1>4, <1>5, IndexStays

(* What a rewrite leaves of the index. *)
LEMMA DroppedIndex ==
  ASSUME CommandsInv, NEW k \in Clients, Drop(k)
  PROVE  /\ Run(k) \in Runs
         /\ index' \in [Runs -> Seq(Nat)]
         /\ \A o \in Runs \ {Run(k)} : index'[o] = index[o]
<1>1. Run(k) \in Runs
  BY TaskAtHand DEF Drop, At
<1>2. <<>> \in Seq(Nat)
  BY EmptySeq
<1>3. index' = [index EXCEPT ![Run(k)] = <<>>]
  BY DEF Drop
<1>4. QED BY <1>1, <1>2, <1>3, IndexStays

(* A task that sets the epoch, *)
LEMMA SetEpochKeeps ==
  ASSUME CommandsInv, NEW k \in Clients, SetEpoch(k)
  PROVE  /\ task[k].pc = "setEpoch" /\ task' = [task EXCEPT ![k] = NoTask]
         /\ epochs' \in [Runs -> Nat]
<1>1. task[k].pc = "setEpoch"
  BY DEF SetEpoch, At
<1>2. /\ task[k] \in TaskRecord /\ TaskOK(task[k])
      /\ Run(k) \in Runs /\ Run(k) = task[k].run
  BY <1>1, TaskAtHand
<1>3. task[k].epoch \in Nat
  BY <1>1, <1>2 DEF TaskOK
<1>4. epochs' \in [Runs -> Nat]
  BY <1>2, <1>3 DEF SetEpoch, CommandsInv, CommandsTypeOK
<1>5. QED BY <1>1, <1>4 DEF SetEpoch, Return

(* one that dies, *)
LEMMA CrashTask ==
  ASSUME CommandsInv, NEW k \in Clients, Crash(k)
  PROVE  task[k].pc # "idle" /\ task' = [task EXCEPT ![k] = NoTask] /\ lost \subseteq lost'
  BY DEF Crash, At, Return

(* and one that begins. *)
LEMMA BeginTasks ==
  ASSUME CommandsInv, NEW k \in Clients, NEW kind \in Kinds, NEW r \in Runs,
         NEW i \in Nat, NEW e \in Quotes, Begin(k, kind, r, i, e),
         kind \in {"get", "resolve"} => i \in DOMAIN requests[r]
  PROVE  \E t \in TaskRecord :
           /\ task[k].pc = "idle" /\ t.kind = kind /\ t.pc = FirstCommand(kind)
           /\ t.kind # "new"
           /\ t.kind = "create" => t.pc = "range"
           /\ t.pc \in {"range", "get", "scan", "getEpoch"}
           /\ t.alone => \A j \in Clients : task[j].pc = "idle"
           /\ TaskOK(t)
           /\ task' \in [Clients -> TaskRecord]
           /\ task'[k] = t
           /\ \A j \in Clients \ {k} :
                /\ task[j].pc = "idle" => task'[j] = task[j]
                /\ task[j].pc # "idle" => task'[j] = [task[j] EXCEPT !.alone = FALSE]
<1> DEFINE busy == {j \in Clients : ~At(j, "idle")}
<1>0. PICK alone \in BOOLEAN : alone = (busy = {})
  OBVIOUS
<1> DEFINE t == [NoTask EXCEPT !.pc = FirstCommand(kind), !.kind = kind, !.run = r,
                               !.id = i, !.epoch = e, !.overdue = Late(r),
                               !.alone = alone]
<1>1. /\ task[k].pc = "idle"
      /\ task' = [j \in Clients |->
           IF j = k THEN t
           ELSE IF j \in busy THEN [task[j] EXCEPT !.alone = FALSE] ELSE task[j]]
  BY <1>0 DEF Begin, At
<1>2. kind \in {"create", "list", "clear", "get", "resolve", "sweep", "bump"}
  BY RedisInterruptConstants
<1>3. /\ FirstCommand(kind) \in {"range", "get", "scan", "getEpoch"}
      /\ kind = "create" => FirstCommand(kind) = "range"
      /\ FirstCommand(kind) = "get" => kind \in {"get", "resolve"}
  BY <1>2 DEF FirstCommand
<1>4. FirstCommand(kind) \in Phases
  BY <1>3 DEF Phases
<1>5. Late(r) \in SUBSET Nat
  <2>1. requests[r] \in Seq(KeyRecord)
    BY DEF CommandsInv, CommandsTypeOK
  <2>2. DOMAIN requests[r] = 1 .. Len(requests[r]) /\ Len(requests[r]) \in Nat
    BY <2>1, LenProperties
  <2>3. QED BY <2>2 DEF Late
<1>6. e \in Nat \cup {None}
  BY InterruptConstants DEF Quotes
<1>9. t \in TaskRecord
  <2>1. PICK pc \in Phases : pc = FirstCommand(kind)
    BY <1>4
  <2>2. PICK late \in SUBSET Nat : late = Late(r)
    BY <1>5
  <2>3. [NoTask EXCEPT !.pc = pc, !.kind = kind, !.run = r, !.id = i, !.epoch = e,
                       !.overdue = late, !.alone = alone] \in TaskRecord
    BY <1>2, <1>6, Returned DEF TaskRecord
  <2>4. QED BY <2>1, <2>2, <2>3
<1>10. /\ t.kind = kind /\ t.pc = FirstCommand(kind) /\ t.run = r /\ t.id = i
       /\ t.epoch = e /\ t.found = <<>>
  BY DEF NoTask
<1>11. t.alone => \A j \in Clients : task[j].pc = "idle"
  BY <1>0 DEF NoTask, At
<1> HIDE DEF t
<1>12. TaskOK(t)
  BY <1>2, <1>3, <1>10 DEF TaskOK
<1>13. task \in [Clients -> TaskRecord]
  BY DEF CommandsInv, CommandsTypeOK
<1>14. task' \in [Clients -> TaskRecord]
  <2>1. ASSUME NEW j \in Clients PROVE [task[j] EXCEPT !.alone = FALSE] \in TaskRecord
    <3>1. task[j] \in TaskRecord
      BY <1>13
    <3>2. QED BY <3>1 DEF TaskRecord
  <2>2. QED BY <1>1, <1>9, <1>13, <2>1
<1>15. /\ task'[k] = t
       /\ \A j \in Clients \ {k} :
            /\ task[j].pc = "idle" => task'[j] = task[j]
            /\ task[j].pc # "idle" => task'[j] = [task[j] EXCEPT !.alone = FALSE]
  BY <1>1 DEF At
<1>16. t.kind # "new" /\ (t.kind = "create" => t.pc = "range")
  BY <1>2, <1>3, <1>10
<1>17. QED BY <1>1, <1>3, <1>9, <1>10, <1>11, <1>12, <1>14, <1>15, <1>16

(* A task that begins has its operation and arguments. *)
LEMMA StartTasks ==
  ASSUME CommandsInv, NEW k \in Clients, Start(k)
  PROVE  /\ UNCHANGED <<interruptVars, index, crashes, answered, lost>>
         /\ \E t \in TaskRecord :
              /\ task[k].pc = "idle"
              /\ t.kind # "new"
              /\ t.kind = "create" => t.pc = "range"
              /\ t.pc \in {"range", "get", "scan", "getEpoch"}
              /\ t.alone => \A j \in Clients : task[j].pc = "idle"
              /\ TaskOK(t)
              /\ task' \in [Clients -> TaskRecord]
              /\ task'[k] = t
              /\ \A j \in Clients \ {k} :
                   /\ task[j].pc = "idle" => task'[j] = task[j]
                   /\ task[j].pc # "idle" => task'[j] = [task[j] EXCEPT !.alone = FALSE]
<1>1. PICK r \in Runs, kind \in Kinds, i \in Nat, e \in Quotes :
        /\ Begin(k, kind, r, i, e)
        /\ kind \in {"get", "resolve"} => i \in DOMAIN requests[r]
  <2>1. PICK r \in Runs, kind \in Kinds :
          \/ /\ kind \in {"create", "list"}
             /\ \E e \in Quotes : Begin(k, kind, r, 0, e)
          \/ /\ kind \in {"clear", "sweep", "bump"}
             /\ Begin(k, kind, r, 0, None)
          \/ /\ kind \in {"get", "resolve"}
             /\ \E i \in DOMAIN requests[r], e \in Quotes :
                  (kind = "get" => e = None) /\ Begin(k, kind, r, i, e)
    BY DEF Start
  <2>2. CASE kind \in {"create", "list"}
    BY <2>1, <2>2
  <2>3. CASE kind \in {"clear", "sweep", "bump"}
    <3>1. None \in Quotes
      BY DEF Quotes
    <3>2. QED BY <2>1, <2>3, <3>1
  <2>4. CASE kind \in {"get", "resolve"}
    <3>1. requests[r] \in Seq(KeyRecord)
      BY DEF CommandsInv, CommandsTypeOK
    <3>2. DOMAIN requests[r] \subseteq Nat
      BY <3>1, LenProperties
    <3>3. QED BY <2>1, <2>4, <3>2
  <2>5. QED BY <2>1, <2>2, <2>3, <2>4
<1>2. UNCHANGED <<interruptVars, index, crashes, answered, lost>>
  BY <1>1 DEF Begin
<1>3. QED BY <1>1, <1>2, BeginTasks

LEMMA StartKeeps ==
  ASSUME CommandsInv, NEW k \in Clients, Start(k)
  PROVE  CommandsInv'
<1>1. PICK t \in TaskRecord :
        /\ TaskOK(t)
        /\ task' \in [Clients -> TaskRecord]
        /\ task'[k] = t
        /\ \A j \in Clients \ {k} :
             /\ task[j].pc = "idle" => task'[j] = task[j]
             /\ task[j].pc # "idle" => task'[j] = [task[j] EXCEPT !.alone = FALSE]
  BY StartTasks
<1>2. /\ UNCHANGED requests /\ UNCHANGED epochs /\ UNCHANGED index
      /\ UNCHANGED answered
  BY StartTasks DEF interruptVars
<1>3. ASSUME NEW j \in Clients PROVE TaskOK(task[j])'
  <2>1. CASE j = k
    BY <1>1, <1>2, <2>1 DEF TaskOK
  <2>2. CASE j # k
    <3>1. TaskOK(task[j]) /\ task[j] \in TaskRecord
      BY TaskAtHand
    <3>2. CASE task[j].pc = "idle"
      BY <1>1, <1>2, <2>2, <3>1, <3>2 DEF TaskOK
    <3>3. CASE task[j].pc # "idle"
      <4>1. PICK u : u = task'[j]
        OBVIOUS
      <4>2. u = [task[j] EXCEPT !.alone = FALSE]
        BY <1>1, <2>2, <3>3, <4>1
      <4>3. /\ u.pc = task[j].pc /\ u.run = task[j].run /\ u.found = task[j].found
            /\ u.id = task[j].id /\ u.kind = task[j].kind /\ u.status = task[j].status
            /\ u.epoch = task[j].epoch /\ u.left = task[j].left /\ u.push = task[j].push
        BY <3>1, <4>2 DEF TaskRecord
      <4>4. TaskOK(u)
        BY <3>1, <4>3 DEF TaskOK
      <4>5. QED BY <1>2, <4>1, <4>4 DEF TaskOK
    <3>4. QED BY <3>2, <3>3
  <2>3. QED BY <2>1, <2>2
<1>4. CommandsTypeOK' /\ AnsweredSettled'
  BY <1>1, <1>2 DEF CommandsInv, CommandsTypeOK, AnsweredSettled
<1>5. QED BY <1>3, <1>4 DEF CommandsInv

(* A command that saves nothing. *)
LEMMA ReadingCommandsKeep ==
  ASSUME CommandsInv, NEW k \in Clients,
         \/ ListIds(k) \/ Read(k) \/ ReviewExpired(k) \/ ReviewPending(k)
         \/ ReviewCleared(k) \/ Relist(k) \/ Get(k) \/ Scan(k) \/ Sweep(k) \/ GetEpoch(k)
  PROVE  CommandsInv' /\ UNCHANGED <<interruptVars, index, answered, lost>>
<1>1. CASE ListIds(k)
  BY <1>1, ListIdsTask, ReadingKeeps DEF ListIds
<1>2. CASE Read(k)
  BY <1>2, ReadTask, ReadingKeeps DEF Read
<1>3. CASE ReviewExpired(k)
  BY <1>3, ReviewExpiredTask, ReadingKeeps DEF ReviewExpired
<1>4. CASE ReviewPending(k)
  BY <1>4, ReviewPendingTask, ReadingKeeps DEF ReviewPending
<1>5. CASE ReviewCleared(k)
  BY <1>5, ReviewClearedTask, ReadingKeeps DEF ReviewCleared
<1>6. CASE Relist(k)
  BY <1>6, RelistTask, ReadingKeeps DEF Relist
<1>7. CASE Get(k)
  BY <1>7, GetTask, ReadingKeeps DEF Get
<1>8. CASE Scan(k)
  BY <1>8, ScanTask, ReadingKeeps DEF Scan
<1>9. CASE Sweep(k)
  BY <1>9, SweepTask, ReadingKeeps DEF Sweep
<1>10. CASE GetEpoch(k)
  BY <1>10, GetEpochTask, ReadingKeeps DEF GetEpoch
<1>11. QED BY <1>1, <1>2, <1>3, <1>4, <1>5, <1>6, <1>7, <1>8, <1>9, <1>10

(* A command that writes. *)
LEMMA WritingCommandsKeep ==
  ASSUME CommandsInv, NEW k \in Clients,
         \/ Drop(k) \/ Refill(k) \/ Delete(k) \/ Set(k) \/ Look(k) \/ Push(k)
         \/ SweepDelete(k) \/ SetEpoch(k)
  PROVE  CommandsInv'
<1>1. CASE Drop(k)
  BY <1>1, DropTask, DroppedIndex, QuietCommandKeeps DEF Drop
<1>2. CASE Refill(k)
  BY <1>2, RefillTask, RefilledIndex, QuietCommandKeeps DEF Refill
<1>3. CASE Delete(k)
  <2>1. /\ Run(k) \in Runs /\ task[k].id \in DOMAIN requests[Run(k)]
        /\ \E t \in TaskRecord : task' = [task EXCEPT ![k] = t] /\ TaskOK(t)
    BY <1>3, DeleteTask
  <2>2. SetStatus(Run(k), task[k].id, "deleted") /\ "deleted" \in RequestStatus
    BY <1>3 DEF Delete, RequestStatus
  <2>3. requests' \in [Runs -> Seq(KeyRecord)] /\ Settling
    BY <2>1, <2>2, StatusSet
  <2>4. PICK t \in TaskRecord : task' = [task EXCEPT ![k] = t] /\ TaskOK(t)
    BY <2>1
  <2>5. TaskOK(t)'
    BY <2>3, <2>4, TaskStaysOK
  <2>6. UNCHANGED epochs /\ UNCHANGED index /\ UNCHANGED answered
    BY <1>3 DEF Delete
  <2>7. epochs' \in [Runs -> Nat] /\ index' \in [Runs -> Seq(Nat)]
    BY <2>6 DEF CommandsInv, CommandsTypeOK
  <2>8. QED BY <2>3, <2>4, <2>5, <2>6, <2>7, CommandKeeps
<1>4. CASE Set(k)
  <2>1. PICK t \in TaskRecord : task' = [task EXCEPT ![k] = t] /\ TaskOK(t)'
    BY <1>4, SetNewTask, SetOldTask
  <2>2. requests' \in [Runs -> Seq(KeyRecord)] /\ Settling
    <3>1. CASE task[k].kind = "new"
      BY <1>4, <3>1, SetNewTask
    <3>2. CASE task[k].kind # "new"
      <4>1. /\ Run(k) \in Runs /\ task[k].id \in DOMAIN requests[Run(k)]
            /\ task[k].status \in {"expired", "resolved"}
            /\ SetStatus(Run(k), task[k].id, task[k].status) /\ Settling
        BY <1>4, <3>2, SetOldTask
      <4>2. task[k].status \in RequestStatus
        BY <4>1 DEF RequestStatus
      <4>3. QED BY <4>1, <4>2, StatusSet
    <3>3. QED BY <3>1, <3>2
  <2>3. UNCHANGED epochs /\ UNCHANGED index /\ UNCHANGED answered
    BY <1>4 DEF Set
  <2>4. epochs' \in [Runs -> Nat] /\ index' \in [Runs -> Seq(Nat)]
    BY <2>3 DEF CommandsInv, CommandsTypeOK
  <2>5. QED BY <2>1, <2>2, <2>3, <2>4, CommandKeeps
<1>5. CASE Look(k) \/ Push(k)
  <2>1. task[k].pc \in {"look", "push"}
    BY <1>5 DEF Look, Push, At
  <2>2. UNCHANGED requests /\ UNCHANGED epochs
    BY <1>5 DEF Look, Push, interruptVars
  <2>3. index' \in [Runs -> Seq(Nat)]
    <3>1. CASE Push(k)
      BY <3>1, PushedIndex
    <3>2. CASE Look(k)
      BY <3>2 DEF Look, CommandsInv, CommandsTypeOK
    <3>3. QED BY <1>5, <3>1, <3>2
  <2>4. /\ \E t \in TaskRecord : task' = [task EXCEPT ![k] = t] /\ TaskOK(t)
        /\ \A r \in Runs : \A i : <<r, i>> \in answered' =>
             \/ <<r, i>> \in answered
             \/ i \in DOMAIN requests[r] /\ requests[r][i].status # "pending"
    <3>1. CASE Saved(k)
      BY <2>1, <3>1, SavedTask
    <3>2. CASE ~Saved(k)
      <4>1. task[k].pc = "look" /\ Goto(k, "push") /\ UNCHANGED answered
        BY <1>5, <3>2 DEF Look, Push, At
      <4>2. QED BY <4>1, NotIndexedTask
    <3>3. QED BY <3>1, <3>2
  <2>5. PICK t \in TaskRecord : task' = [task EXCEPT ![k] = t] /\ TaskOK(t)
    BY <2>4
  <2>6. Settling
    BY <2>2, SettlingStutters
  <2>7. TaskOK(t)'
    BY <2>5, <2>6, TaskStaysOK
  <2>8. requests' \in [Runs -> Seq(KeyRecord)] /\ epochs' \in [Runs -> Nat]
    BY <2>2 DEF CommandsInv, CommandsTypeOK
  <2>9. \A r \in Runs : \A i : <<r, i>> \in answered' =>
          \/ <<r, i>> \in answered
          \/ i \in DOMAIN requests'[r] /\ requests'[r][i].status # "pending"
    BY <2>2, <2>4
  <2>10. QED BY <2>3, <2>5, <2>6, <2>7, <2>8, <2>9, CommandKeeps
<1>6. CASE SweepDelete(k)
  <2>1. /\ Run(k) \in Runs /\ task[k].id \in DOMAIN requests[Run(k)]
        /\ \E t \in TaskRecord : task' = [task EXCEPT ![k] = t] /\ TaskOK(t)
    BY <1>6, SweepDeleteTask
  <2>2. SetStatus(Run(k), task[k].id, "deleted") /\ "deleted" \in RequestStatus
    BY <1>6 DEF SweepDelete, RequestStatus
  <2>3. requests' \in [Runs -> Seq(KeyRecord)] /\ Settling
    BY <2>1, <2>2, StatusSet
  <2>4. PICK t \in TaskRecord : task' = [task EXCEPT ![k] = t] /\ TaskOK(t)
    BY <2>1
  <2>5. TaskOK(t)'
    BY <2>3, <2>4, TaskStaysOK
  <2>6. UNCHANGED epochs /\ UNCHANGED index /\ UNCHANGED answered
    BY <1>6 DEF SweepDelete
  <2>7. epochs' \in [Runs -> Nat] /\ index' \in [Runs -> Seq(Nat)]
    BY <2>6 DEF CommandsInv, CommandsTypeOK
  <2>8. QED BY <2>3, <2>4, <2>5, <2>6, <2>7, CommandKeeps
<1>7. CASE SetEpoch(k)
  <2>1. task' = [task EXCEPT ![k] = NoTask] /\ epochs' \in [Runs -> Nat]
    BY <1>7, SetEpochKeeps
  <2>2. UNCHANGED requests /\ UNCHANGED index /\ UNCHANGED answered
    BY <1>7 DEF SetEpoch
  <2>3. Settling
    BY <2>2, SettlingStutters
  <2>4. PICK t \in TaskRecord : t = NoTask
    BY Returned
  <2>5. TaskOK(t)'
    BY <2>3, <2>4, Returned, TaskStaysOK
  <2>6. requests' \in [Runs -> Seq(KeyRecord)] /\ index' \in [Runs -> Seq(Nat)]
    BY <2>2 DEF CommandsInv, CommandsTypeOK
  <2>7. QED BY <2>1, <2>2, <2>3, <2>4, <2>5, <2>6, CommandKeeps
<1>8. QED BY <1>1, <1>2, <1>3, <1>4, <1>5, <1>6, <1>7

(* Time makes a request late, and changes nothing else. *)
LEMMA PassTimeKeeps ==
  ASSUME CommandsInv, NEW r \in Runs, NEW i \in DOMAIN requests[r], PassTime(r, i)
  PROVE  /\ CommandsInv'
         /\ UNCHANGED <<index, task, answered, lost>>
         /\ \A o \in Runs : DOMAIN requests'[o] = DOMAIN requests[o]
         /\ \A o \in Runs : \A j \in DOMAIN requests[o] :
              /\ requests'[o][j].status = requests[o][j].status
              /\ requests'[o][j].epoch = requests[o][j].epoch
              /\ requests[o][j].late => requests'[o][j].late
<1>1. requests[r] \in Seq(KeyRecord)
  BY DEF CommandsInv, CommandsTypeOK
<1>2. /\ DOMAIN requests[r] = 1 .. Len(requests[r]) /\ Len(requests[r]) \in Nat
      /\ requests[r][i] \in KeyRecord
  BY <1>1, LenProperties, ElementOfSeq
<1> DEFINE x == [requests[r][i] EXCEPT !.late = TRUE]
           s == [requests[r] EXCEPT ![i] = x]
<1>3. requests' = [requests EXCEPT ![r] = s]
  BY <1>1 DEF PassTime, Elapse, CommandsInv, CommandsTypeOK
<1>4. /\ x \in KeyRecord /\ x.status = requests[r][i].status
      /\ x.epoch = requests[r][i].epoch
      /\ requests[r][i].late => x.late
  BY <1>2 DEF KeyRecord
<1> HIDE DEF x
<1>5. s \in Seq(KeyRecord) /\ Len(s) = Len(requests[r])
  BY <1>1, <1>2, <1>4, ExceptSeq
<1>6. DOMAIN s = DOMAIN requests[r] /\ s[i] = x
      /\ \A j \in DOMAIN requests[r] \ {i} : s[j] = requests[r][j]
  BY <1>1, <1>2
<1> HIDE DEF s
<1>7. /\ requests' \in [Runs -> Seq(KeyRecord)]
      /\ requests'[r] = s /\ \A o \in Runs \ {r} : requests'[o] = requests[o]
  BY <1>3, <1>5 DEF CommandsInv, CommandsTypeOK
<1>8. /\ UNCHANGED epochs /\ UNCHANGED index /\ UNCHANGED task
      /\ UNCHANGED answered /\ UNCHANGED lost
  BY DEF PassTime, Elapse
<1>9. /\ \A o \in Runs : DOMAIN requests'[o] = DOMAIN requests[o]
      /\ \A o \in Runs : \A j \in DOMAIN requests[o] :
           /\ requests'[o][j].status = requests[o][j].status
           /\ requests'[o][j].epoch = requests[o][j].epoch
           /\ requests[o][j].late => requests'[o][j].late
  BY <1>4, <1>6, <1>7
<1>10. Settling
  BY <1>9 DEF Settling
<1>11. ASSUME NEW k \in Clients PROVE TaskOK(task[k])'
  <2>1. PICK t : t = task[k]
    OBVIOUS
  <2>2. TaskOK(t)
    BY <2>1, TaskAtHand
  <2>3. TaskOK(t)'
    BY <1>10, <2>2, TaskStaysOK
  <2>4. (task[k])' = t
    BY <1>8, <2>1
  <2>5. QED BY <2>3, <2>4 DEF TaskOK
<1>12. CommandsTypeOK'
  BY <1>7, <1>8 DEF CommandsInv, CommandsTypeOK
<1>13. AnsweredSettled'
  BY <1>8, <1>10 DEF CommandsInv, AnsweredSettled, Settling
<1>14. QED BY <1>8, <1>9, <1>11, <1>12, <1>13 DEF CommandsInv

LEMMA CrashKeeps ==
  ASSUME CommandsInv, NEW k \in Clients, Crash(k)
  PROVE  CommandsInv'
<1>1. UNCHANGED <<interruptVars, index, answered>>
  BY DEF Crash
<1>2. QED BY <1>1, CrashTask, Returned, ReadingKeeps

LEMMA CommandsInvInit ==
  Init => CommandsInv
<1> SUFFICES ASSUME Init PROVE CommandsInv
  OBVIOUS
<1>1. <<>> \in Seq(KeyRecord) /\ <<>> \in Seq(Nat)
  BY EmptySeq
<1>2. CommandsTypeOK
  BY <1>1, Returned DEF Init, InterruptsInit, CommandsTypeOK
<1>3. \A k \in Clients : TaskOK(task[k])
  BY Returned DEF Init
<1>4. AnsweredSettled
  BY DEF Init, AnsweredSettled
<1>5. QED BY <1>2, <1>3, <1>4 DEF CommandsInv

LEMMA CommandsInvStep ==
  CommandsInv /\ [Next]_vars => CommandsInv'
<1> SUFFICES ASSUME CommandsInv, [Next]_vars PROVE CommandsInv'
  OBVIOUS
<1>1. ASSUME NEW k \in Clients, Start(k) PROVE CommandsInv'
  BY <1>1, StartKeeps
<1>2. ASSUME NEW k \in Clients, Send(k) PROVE CommandsInv'
  BY <1>2, ReadingCommandsKeep, WritingCommandsKeep DEF Send
<1>3. ASSUME NEW k \in Clients, Crash(k) PROVE CommandsInv'
  BY <1>3, CrashKeeps
<1>4. ASSUME NEW r \in Runs, NEW i \in DOMAIN requests[r], PassTime(r, i)
      PROVE  CommandsInv'
  BY <1>4, PassTimeKeeps
<1>5. CASE UNCHANGED vars
  BY <1>5 DEF vars, interruptVars, CommandsInv, CommandsTypeOK, TaskOK, AnsweredSettled
<1>6. QED BY <1>1, <1>2, <1>3, <1>4, <1>5 DEF Next

(* What every task has read and decided fits the store, whatever the others    *)
(* saved or deleted since (interrupts.py).                                  *)
THEOREM CommandsInvAlways == Spec => []CommandsInv
BY CommandsInvInit, CommandsInvStep, PTL DEF Spec

(* A command is its own task's, or its death. *)
LEMMA OwnTaskOnly ==
  ASSUME CommandsInv, NEW k \in Clients, Send(k) \/ Crash(k)
  PROVE  \E t \in TaskRecord :
           task[k].pc # "idle" /\ task' = [task EXCEPT ![k] = t]
<1>1. CASE ListIds(k) \/ Read(k) \/ Drop(k) \/ Refill(k)
  <2>1. CASE ListIds(k)
    <3>1. task[k].pc = "range"
      BY <2>1 DEF ListIds, At
    <3>2. QED BY <2>1, <3>1, ListIdsTask
  <2>2. CASE Read(k)
    <3>1. task[k].pc = "read"
      BY <2>2 DEF Read, At
    <3>2. QED BY <2>2, <3>1, ReadTask
  <2>3. CASE Drop(k)
    <3>1. task[k].pc = "drop"
      BY <2>3 DEF Drop, At
    <3>2. QED BY <2>3, <3>1, DropTask
  <2>4. CASE Refill(k)
    <3>1. task[k].pc = "refill"
      BY <2>4 DEF Refill, At
    <3>2. QED BY <2>4, <3>1, RefillTask
  <2>5. QED BY <1>1, <2>1, <2>2, <2>3, <2>4
<1>2. CASE ReviewExpired(k) \/ ReviewPending(k) \/ ReviewCleared(k)
  BY <1>2, ReviewExpiredTask, ReviewPendingTask, ReviewClearedTask
<1>3. CASE Delete(k) \/ Relist(k) \/ Get(k)
  <2>1. CASE Delete(k)
    BY <2>1, DeleteTask
  <2>2. CASE Relist(k)
    <3>1. task[k].pc = "relist"
      BY <2>2 DEF Relist, At
    <3>2. QED BY <2>2, <3>1, RelistTask
  <2>3. CASE Get(k)
    BY <2>3, GetTask
  <2>4. QED BY <1>3, <2>1, <2>2, <2>3
<1>4. CASE Set(k)
  BY <1>4, SetNewTask, SetOldTask
<1>5. CASE Look(k) \/ Push(k)
  <2>1. task[k].pc \in {"look", "push"}
    BY <1>5 DEF Look, Push, At
  <2>2. CASE Saved(k)
    BY <2>1, <2>2, SavedTask
  <2>3. CASE ~Saved(k)
    <3>1. task[k].pc = "look" /\ Goto(k, "push")
      BY <1>5, <2>3 DEF Look, Push, At
    <3>2. QED BY <2>1, <3>1, NotIndexedTask
  <2>4. QED BY <2>2, <2>3
<1>6. CASE Scan(k) \/ Sweep(k) \/ SweepDelete(k)
  BY <1>6, ScanTask, SweepTask, SweepDeleteTask
<1>7. CASE GetEpoch(k)
  BY <1>7, GetEpochTask
<1>8. CASE SetEpoch(k) \/ Crash(k)
  BY <1>8, SetEpochKeeps, CrashTask, Returned
<1>9. QED BY <1>1, <1>2, <1>3, <1>4, <1>5, <1>6, <1>7, <1>8 DEF Send

(* A task that is neither the one that begins nor its own keeps its commands. *)
LEMMA PhaseStays ==
  ASSUME CommandsInv, Next, NEW k \in Clients,
         ~ (Start(k) \/ Send(k) \/ Crash(k))
  PROVE  task'[k].pc = task[k].pc
<1>1. ASSUME NEW j \in Clients, Start(j), j # k PROVE task'[k].pc = task[k].pc
  <2>1. /\ task[k].pc = "idle" => task'[k] = task[k]
        /\ task[k].pc # "idle" => task'[k] = [task[k] EXCEPT !.alone = FALSE]
    BY <1>1, StartTasks
  <2>2. task[k] \in TaskRecord
    BY TaskAtHand
  <2>3. [task[k] EXCEPT !.alone = FALSE].pc = task[k].pc
    BY <2>2 DEF TaskRecord
  <2>4. QED BY <2>1, <2>3
<1>2. ASSUME NEW j \in Clients, Send(j) \/ Crash(j), j # k PROVE task'[k].pc = task[k].pc
  <2>1. \E t : task' = [task EXCEPT ![j] = t]
    BY <1>2, OwnTaskOnly
  <2>2. QED BY <1>2, <2>1, TaskAtHand
<1>3. ASSUME NEW r \in Runs, NEW i \in DOMAIN requests[r], PassTime(r, i)
      PROVE  task'[k].pc = task[k].pc
  BY <1>3 DEF PassTime
<1>4. QED BY <1>1, <1>2, <1>3 DEF Next

(* Each command is sent from its own place. *)
LEMMA SentFrom ==
  ASSUME NEW k \in Clients, Send(k)
  PROVE  /\ task[k].pc = "get" => Get(k)
         /\ task[k].pc = "set" => Set(k)
<1>1. /\ ListIds(k) => task[k].pc = "range"
      /\ Read(k) => task[k].pc = "read"
      /\ Drop(k) => task[k].pc = "drop"
      /\ Refill(k) => task[k].pc = "refill"
  BY DEF At, ListIds, Read, Drop, Refill
<1>2. /\ ReviewExpired(k) => task[k].pc = "review"
      /\ ReviewPending(k) => task[k].pc = "review"
      /\ ReviewCleared(k) => task[k].pc = "review"
      /\ Delete(k) => task[k].pc = "delete"
      /\ Relist(k) => task[k].pc = "relist"
  BY DEF At, ReviewExpired, ReviewPending, ReviewCleared, Delete, Relist
<1>3. /\ Look(k) => task[k].pc = "look"
      /\ Push(k) => task[k].pc = "push"
      /\ Scan(k) => task[k].pc = "scan"
      /\ Sweep(k) => task[k].pc = "sweep"
  BY DEF At, Look, Push, Scan, Sweep
<1>4. /\ SweepDelete(k) => task[k].pc = "sweepDelete"
      /\ GetEpoch(k) => task[k].pc = "getEpoch"
      /\ SetEpoch(k) => task[k].pc = "setEpoch"
  BY DEF At, SweepDelete, GetEpoch, SetEpoch
<1>5. /\ Get(k) => task[k].pc = "get"
      /\ Set(k) => task[k].pc = "set"
  BY DEF At, Get, Set
<1>6. ASSUME task[k].pc = "get" PROVE Get(k)
  BY <1>1, <1>2, <1>3, <1>4, <1>5, <1>6 DEF Send
<1>7. ASSUME task[k].pc = "set" PROVE Set(k)
  BY <1>1, <1>2, <1>3, <1>4, <1>5, <1>7 DEF Send
<1>8. QED BY <1>6, <1>7

(* Once resolve has returned for a request no later answer is accepted: at     *)
(* most one answer to a request is, unless they overlap (resolve over          *)
(* RedisInterruptStore, interrupts.py).                                      *)
THEOREM SecondAnswersOverlap == Spec => AnsweredAgainOnlyByOverlap
<1>1. ASSUME CommandsInv, [Next]_vars
      PROVE  [\A k \in Clients :
                At(k, "get") /\ task[k].kind = "resolve" /\ <<Run(k), task[k].id>> \in answered
                  => task'[k].pc \in {"get", "idle"}]_vars
  <2> SUFFICES ASSUME Next, NEW k \in Clients, At(k, "get"),
                      <<Run(k), task[k].id>> \in answered
               PROVE  task'[k].pc \in {"get", "idle"}
    BY <1>1
  <2> USE <1>1
  <2>1. task[k].pc = "get"
    BY DEF At
  <2>2. Run(k) \in Runs /\ task \in [Clients -> TaskRecord]
    BY <2>1, TaskAtHand
  <2>3. requests[Run(k)][task[k].id].status # "pending"
    BY <2>2 DEF CommandsInv, AnsweredSettled
  <2>4. CASE Start(k)
    BY <2>1, <2>4, StartTasks
  <2>5. CASE Send(k)
    <3>1. Get(k)
      BY <2>1, <2>5, SentFrom
    <3>2. task' = [task EXCEPT ![k] = NoTask]
      BY <2>3, <3>1, GetTask
    <3>3. QED BY <2>2, <3>2, Returned
  <2>6. CASE Crash(k)
    BY <2>2, <2>6, CrashTask, Returned
  <2>7. CASE ~(Start(k) \/ Send(k) \/ Crash(k))
    BY <2>1, <2>7, PhaseStays
  <2>8. QED BY <2>4, <2>5, <2>6, <2>7
<1>2. QED BY <1>1, CommandsInvAlways, PTL DEF Spec, AnsweredAgainOnlyByOverlap

-----------------------------------------------------------------------------
(* Redis: what the index has lost *)

(* What a task between two commands still has to push. *)
Carried(t) ==
  CASE t.pc \in {"look", "push"} -> {<<t.run, t.id>>}
    [] t.pc = "refill" -> {<<t.run, i>> : i \in Range(t.push)}
    [] OTHER -> {}

(* A stored id is listed, on its way there, or lost. *)
Covered(r, i) ==
  \/ i \in Range(index[r])
  \/ \E k \in Clients : <<r, i>> \in Carried(task[k])
  \/ <<r, i>> \in lost

NothingForgotten ==
  \A r \in Runs : \A i \in DOMAIN requests[r] : Exists(r, i) => Covered(r, i)

(* The step of one task keeps an id covered that it neither unlists nor drops *)
(* without pushing or losing it.                                             *)
LEMMA CoverKept ==
  ASSUME CommandsInv, NEW k \in Clients, NEW t, task' = [task EXCEPT ![k] = t],
         lost \subseteq lost', NEW r \in Runs, NEW i, Covered(r, i),
         i \in Range(index[r]) =>
           \/ i \in Range(index'[r]) \/ <<r, i>> \in Carried(t) \/ <<r, i>> \in lost',
         <<r, i>> \in Carried(task[k]) =>
           \/ i \in Range(index'[r]) \/ <<r, i>> \in Carried(t) \/ <<r, i>> \in lost'
  PROVE  Covered(r, i)'
<1>1. /\ task'[k] = t /\ \A j \in Clients \ {k} : task'[j] = task[j]
  BY DEF CommandsInv, CommandsTypeOK
<1>2. \A j \in Clients : (Carried(task[j]))' = Carried(task'[j])
  BY DEF Carried
<1>3. Covered(r, i)' = \/ i \in Range(index'[r])
                       \/ \E j \in Clients : <<r, i>> \in Carried(task'[j])
                       \/ <<r, i>> \in lost'
  BY <1>2 DEF Covered
<1>4. CASE i \in Range(index[r])
  BY <1>1, <1>3, <1>4
<1>5. CASE \E j \in Clients : <<r, i>> \in Carried(task[j])
  BY <1>1, <1>3, <1>5
<1>6. CASE <<r, i>> \in lost
  BY <1>3, <1>6
<1>7. QED BY <1>4, <1>5, <1>6 DEF Covered

(* What a task carries, at each of its commands. *)
LEMMA CarriedAt ==
  ASSUME NEW t
  PROVE  /\ t.pc \in {"look", "push"} => Carried(t) = {<<t.run, t.id>>}
         /\ t.pc = "refill" => Carried(t) = {<<t.run, i>> : i \in Range(t.push)}
         /\ t.pc \notin {"look", "push", "refill"} => Carried(t) = {}
  BY DEF Carried

(* The first of a sequence and the others. *)
LEMMA HeadAndRest ==
  ASSUME NEW S, NEW s \in Seq(S), s # <<>>, NEW x \in Range(s)
  PROVE  x = Head(s) \/ (x \in Range(Tail(s)) /\ Tail(s) # <<>>)
<1>1. /\ Tail(s) \in Seq(S) /\ Len(Tail(s)) = Len(s) - 1 /\ Head(s) = s[1]
      /\ \A n \in 1 .. Len(Tail(s)) : Tail(s)[n] = s[n + 1]
  BY HeadTailProperties
<1>2. /\ Len(s) \in Nat /\ DOMAIN s = 1 .. Len(s)
      /\ DOMAIN Tail(s) = 1 .. Len(Tail(s))
  BY <1>1, LenProperties
<1>3. PICK n \in 1 .. Len(s) : x = s[n]
  BY <1>2 DEF Range
<1>4. CASE n = 1
  BY <1>1, <1>3, <1>4
<1>5. CASE n # 1
  <2>1. n - 1 \in 1 .. Len(Tail(s))
    BY <1>1, <1>2, <1>3, <1>5
  <2>2. Tail(s)[n - 1] = x
    BY <1>1, <1>2, <1>3, <1>5, <2>1
  <2>3. Tail(s) # <<>>
    <3>1. Len(Tail(s)) # 0
      BY <1>1, <1>2, <2>1
    <3>2. QED BY <3>1, EmptySeq
  <2>4. QED BY <1>2, <2>1, <2>2, <2>3 DEF Range
<1>6. QED BY <1>4, <1>5

(* A command that lists as before covers what it covered. *)
LEMMA ListedStays ==
  ASSUME CommandsInv, NothingForgotten, NEW k \in Clients, NEW t,
         task' = [task EXCEPT ![k] = t], UNCHANGED index, lost \subseteq lost',
         \A r \in Runs : \A i \in DOMAIN requests'[r] : Exists(r, i)' =>
           Exists(r, i) \/ <<r, i>> \in Carried(t),
         \A r \in Runs : \A i : <<r, i>> \in Carried(task[k]) /\ Exists(r, i) =>
           i \in Range(index[r]) \/ <<r, i>> \in Carried(t) \/ <<r, i>> \in lost'
  PROVE  NothingForgotten'
<1> SUFFICES ASSUME NEW r \in Runs, NEW i \in DOMAIN requests'[r], Exists(r, i)'
             PROVE  Covered(r, i)'
  BY DEF NothingForgotten
<1>1. CASE Exists(r, i)
  <2>1. Covered(r, i)
    BY <1>1 DEF NothingForgotten, Exists
  <2>2. QED BY <1>1, <2>1, CoverKept
<1>2. CASE <<r, i>> \in Carried(t)
  <2>1. task'[k] = t
    BY DEF CommandsInv, CommandsTypeOK
  <2>2. (Carried(task[k]))' = Carried(t)
    BY <2>1 DEF Carried
  <2>3. QED BY <1>2, <2>2 DEF Covered
<1>3. QED BY <1>1, <1>2

LEMMA ReadingForgetsNothing ==
  ASSUME CommandsInv, NothingForgotten, NEW k \in Clients,
         \/ ListIds(k) \/ Read(k) \/ ReviewExpired(k) \/ ReviewPending(k)
         \/ ReviewCleared(k) \/ Relist(k) \/ Get(k) \/ Scan(k) \/ Sweep(k) \/ GetEpoch(k)
  PROVE  NothingForgotten'
<1>1. UNCHANGED <<interruptVars, index, answered, lost>>
  BY ReadingCommandsKeep
<1>2. UNCHANGED requests /\ UNCHANGED index /\ UNCHANGED lost
  BY <1>1 DEF interruptVars
<1>3. PICK t \in TaskRecord : task' = [task EXCEPT ![k] = t]
  BY OwnTaskOnly DEF Send
<1>4. task[k].pc \in {"range", "read", "review", "relist", "get", "scan", "sweep", "getEpoch"}
  BY DEF At, ListIds, Read, ReviewExpired, ReviewPending, ReviewCleared, Relist, Get, Scan,
         Sweep, GetEpoch
<1>5. Carried(task[k]) = {}
  BY <1>4, CarriedAt
<1>6. \A r \in Runs : \A i \in DOMAIN requests'[r] : Exists(r, i)' => Exists(r, i)
  BY <1>2 DEF Exists
<1>7. QED BY <1>2, <1>3, <1>5, <1>6, ListedStays

(* A rewrite loses what it has not read, and pushes the rest again. *)
LEMMA DropForgetsNothing ==
  ASSUME CommandsInv, NothingForgotten, NEW k \in Clients, Drop(k)
  PROVE  NothingForgotten'
<1>1. PICK t \in TaskRecord :
        /\ task' = [task EXCEPT ![k] = t] /\ t.push = task[k].push /\ t.run = Run(k)
        /\ t.pc = (IF task[k].push = <<>> THEN "review" ELSE "refill")
  BY DropTask
<1>2. /\ Run(k) \in Runs /\ \A o \in Runs \ {Run(k)} : index'[o] = index[o]
  BY DroppedIndex
<1>3. UNCHANGED requests
  BY DEF Drop, interruptVars
<1>4. Carried(task[k]) = {}
  BY CarriedAt DEF Drop, At
<1>5. /\ lost \subseteq lost'
      /\ \A i \in Range(index[Run(k)]) \ Range(task[k].push) :
           Exists(Run(k), i) => <<Run(k), i>> \in lost'
  BY DEF Drop, Unlisted, Stored, Keys
<1>6. ASSUME NEW i \in Range(task[k].push) PROVE <<Run(k), i>> \in Carried(t)
  <2>1. task[k].push # <<>>
    BY <1>6 DEF Range
  <2>2. QED BY <1>1, <1>6, <2>1, CarriedAt
<1>7. ASSUME NEW r \in Runs, NEW i \in DOMAIN requests'[r], Exists(r, i)'
      PROVE  Covered(r, i)'
  <2>1. Covered(r, i)
    BY <1>3, <1>7 DEF NothingForgotten, Exists
  <2>2. i \in Range(index[r]) =>
          \/ i \in Range(index'[r]) \/ <<r, i>> \in Carried(t) \/ <<r, i>> \in lost'
    BY <1>2, <1>3, <1>5, <1>6, <1>7 DEF Exists
  <2>3. QED BY <1>1, <1>4, <1>5, <2>1, <2>2, CoverKept
<1>8. QED BY <1>7 DEF NothingForgotten

LEMMA RefillForgetsNothing ==
  ASSUME CommandsInv, NothingForgotten, NEW k \in Clients, Refill(k)
  PROVE  NothingForgotten'
<1>1. PICK t \in TaskRecord :
        /\ task' = [task EXCEPT ![k] = t] /\ t.push = Tail(task[k].push) /\ t.run = Run(k)
        /\ task[k].push \in Seq(Nat) /\ task[k].push # <<>>
        /\ t.pc = (IF t.push = <<>> THEN "review" ELSE "refill")
  BY RefillTask
<1>2. /\ Run(k) \in Runs /\ \A o \in Runs \ {Run(k)} : index'[o] = index[o]
      /\ Range(index'[Run(k)]) = Range(index[Run(k)]) \cup {Head(task[k].push)}
  BY RefilledIndex
<1>3. UNCHANGED requests /\ UNCHANGED lost
  BY DEF Refill, interruptVars
<1>4. Carried(task[k]) = {<<Run(k), i>> : i \in Range(task[k].push)}
  <2>1. task[k].pc = "refill" /\ Run(k) = task[k].run
    BY DEF Refill, At, Run
  <2>2. QED BY <2>1, CarriedAt
<1>5. ASSUME NEW i \in Range(task[k].push)
      PROVE  i \in Range(index'[Run(k)]) \/ <<Run(k), i>> \in Carried(t)
  <2>1. CASE i = Head(task[k].push)
    BY <1>2, <2>1
  <2>2. CASE i \in Range(t.push) /\ t.push # <<>>
    BY <1>1, <2>2, CarriedAt
  <2>3. QED BY <1>1, <1>5, <2>1, <2>2, HeadAndRest
<1>6. ASSUME NEW r \in Runs, NEW i \in DOMAIN requests'[r], Exists(r, i)'
      PROVE  Covered(r, i)'
  <2>1. Covered(r, i)
    BY <1>3, <1>6 DEF NothingForgotten, Exists
  <2>2. i \in Range(index[r]) => i \in Range(index'[r])
    BY <1>2
  <2>3. <<r, i>> \in Carried(task[k]) =>
          i \in Range(index'[r]) \/ <<r, i>> \in Carried(t)
    BY <1>4, <1>5
  <2>4. QED BY <1>1, <1>3, <2>1, <2>2, <2>3, CoverKept
<1>7. QED BY <1>6 DEF NothingForgotten

(* A request that goes needs no place in the index. *)
LEMMA DeletionForgetsNothing ==
  ASSUME CommandsInv, NothingForgotten, NEW k \in Clients, Delete(k) \/ SweepDelete(k)
  PROVE  NothingForgotten'
<1>1. /\ Run(k) \in Runs /\ task[k].id \in DOMAIN requests[Run(k)]
      /\ task[k].pc \in {"delete", "sweepDelete"}
      /\ SetStatus(Run(k), task[k].id, "deleted")
      /\ UNCHANGED index /\ UNCHANGED lost
  <2>1. CASE Delete(k)
    BY <2>1, DeleteTask DEF Delete
  <2>2. CASE SweepDelete(k)
    BY <2>2, SweepDeleteTask DEF SweepDelete
  <2>3. QED BY <2>1, <2>2
<1>2. PICK t \in TaskRecord : task' = [task EXCEPT ![k] = t]
  BY OwnTaskOnly DEF Send
<1>3. /\ \A o \in Runs : DOMAIN requests'[o] = DOMAIN requests[o]
      /\ requests'[Run(k)][task[k].id].status = "deleted"
      /\ \A o \in Runs : \A j \in DOMAIN requests[o] :
           o # Run(k) \/ j # task[k].id => requests'[o][j] = requests[o][j]
  <2>1. "deleted" \in RequestStatus
    BY DEF RequestStatus
  <2>2. QED BY <1>1, <2>1, StatusSet
<1>4. \A r \in Runs : \A i \in DOMAIN requests'[r] : Exists(r, i)' => Exists(r, i)
  BY <1>3 DEF Exists
<1>5. Carried(task[k]) = {}
  BY <1>1, CarriedAt
<1>6. QED BY <1>1, <1>2, <1>4, <1>5, ListedStays

(* One that is saved, new or gone meanwhile, is on its way to the index. *)
LEMMA SetForgetsNothing ==
  ASSUME CommandsInv, NothingForgotten, NEW k \in Clients, Set(k)
  PROVE  NothingForgotten'
<1>1. UNCHANGED index /\ UNCHANGED lost
  BY DEF Set
<1>2. Carried(task[k]) = {} /\ Run(k) \in Runs
  BY CarriedAt, TaskAtHand DEF Set, At
<1>3. CASE task[k].kind = "new"
  <2> DEFINE i == Len(requests[Run(k)]) + 1
  <2>1. /\ DOMAIN requests'[Run(k)] = DOMAIN requests[Run(k)] \cup {i}
        /\ \A j \in DOMAIN requests[Run(k)] : requests'[Run(k)][j] = requests[Run(k)][j]
        /\ \A r \in Runs \ {Run(k)} : requests'[r] = requests[r]
        /\ \E t \in TaskRecord :
             task' = [task EXCEPT ![k] = t] /\ t.pc = "look" /\ t.id = i /\ t.run = Run(k)
    BY <1>3, SetNewTask
  <2> HIDE DEF i
  <2>2. PICK t \in TaskRecord :
          task' = [task EXCEPT ![k] = t] /\ t.pc = "look" /\ t.id = i /\ t.run = Run(k)
    BY <2>1
  <2>3. Carried(t) = {<<Run(k), i>>}
    BY <2>2, CarriedAt
  <2>4. \A r \in Runs : \A j \in DOMAIN requests'[r] : Exists(r, j)' =>
          Exists(r, j) \/ <<r, j>> \in Carried(t)
    BY <2>1, <2>3 DEF Exists
  <2>5. QED BY <1>1, <1>2, <2>2, <2>4, ListedStays
<1>4. CASE task[k].kind # "new"
  <2>1. /\ task[k].id \in DOMAIN requests[Run(k)]
        /\ task[k].status \in {"expired", "resolved"}
        /\ SetStatus(Run(k), task[k].id, task[k].status)
        /\ \E t \in TaskRecord :
             /\ task' = [task EXCEPT ![k] = t] /\ t.pc = "look" /\ t.id = task[k].id
             /\ t.run = Run(k)
    BY <1>4, SetOldTask
  <2>2. task[k].status \in RequestStatus
    BY <2>1 DEF RequestStatus
  <2>3. /\ \A o \in Runs : DOMAIN requests'[o] = DOMAIN requests[o]
        /\ \A o \in Runs : \A j \in DOMAIN requests[o] :
             o # Run(k) \/ j # task[k].id => requests'[o][j] = requests[o][j]
    BY <1>2, <2>1, <2>2, StatusSet
  <2>4. PICK t \in TaskRecord :
          task' = [task EXCEPT ![k] = t] /\ t.pc = "look" /\ t.id = task[k].id /\ t.run = Run(k)
    BY <2>1
  <2>5. Carried(t) = {<<Run(k), task[k].id>>}
    BY <2>4, CarriedAt
  <2>6. \A r \in Runs : \A j \in DOMAIN requests'[r] : Exists(r, j)' =>
          Exists(r, j) \/ <<r, j>> \in Carried(t)
    BY <2>3, <2>5 DEF Exists
  <2>7. QED BY <1>1, <1>2, <2>4, <2>6, ListedStays
<1>5. QED BY <1>3, <1>4

LEMMA LookForgetsNothing ==
  ASSUME CommandsInv, NothingForgotten, NEW k \in Clients, Look(k)
  PROVE  NothingForgotten'
<1>1. /\ task[k].pc = "look"
      /\ UNCHANGED requests /\ UNCHANGED index /\ UNCHANGED lost
  BY DEF Look, At, interruptVars
<1>2. Carried(task[k]) = {<<Run(k), task[k].id>>}
  BY <1>1, CarriedAt DEF Run
<1>3. \A r \in Runs : \A i \in DOMAIN requests'[r] : Exists(r, i)' => Exists(r, i)
  BY <1>1 DEF Exists
<1>4. CASE Indexed(k)
  <2>1. PICK t \in TaskRecord : task' = [task EXCEPT ![k] = t]
    BY OwnTaskOnly DEF Send
  <2>2. QED BY <1>1, <1>2, <1>3, <1>4, <2>1, ListedStays DEF Indexed
<1>5. CASE ~Indexed(k)
  <2>1. Goto(k, "push")
    BY <1>5 DEF Look
  <2>2. PICK t \in TaskRecord :
          task' = [task EXCEPT ![k] = t] /\ t.pc = "push" /\ t.run = Run(k) /\ t.id = task[k].id
    BY <1>1, <2>1, NotIndexedTask
  <2>3. Carried(t) = Carried(task[k])
    BY <1>2, <2>2, CarriedAt
  <2>4. QED BY <1>1, <1>3, <2>2, <2>3, ListedStays
<1>6. QED BY <1>4, <1>5

LEMMA PushForgetsNothing ==
  ASSUME CommandsInv, NothingForgotten, NEW k \in Clients, Push(k)
  PROVE  NothingForgotten'
<1>1. /\ Run(k) \in Runs /\ task[k].pc = "push"
      /\ Range(index'[Run(k)]) = Range(index[Run(k)]) \cup {task[k].id}
      /\ \A o \in Runs \ {Run(k)} : index'[o] = index[o]
  BY PushedIndex
<1>2. UNCHANGED requests /\ UNCHANGED lost
  BY DEF Push, interruptVars
<1>3. Carried(task[k]) = {<<Run(k), task[k].id>>}
  BY <1>1, CarriedAt DEF Run
<1>4. PICK t \in TaskRecord : task' = [task EXCEPT ![k] = t]
  BY OwnTaskOnly DEF Send
<1>5. ASSUME NEW r \in Runs, NEW i \in DOMAIN requests'[r], Exists(r, i)'
      PROVE  Covered(r, i)'
  <2>1. Covered(r, i)
    BY <1>2, <1>5 DEF NothingForgotten, Exists
  <2>2. /\ i \in Range(index[r]) => i \in Range(index'[r])
        /\ <<r, i>> \in Carried(task[k]) => i \in Range(index'[r])
    BY <1>1, <1>3
  <2>3. QED BY <1>2, <1>4, <2>1, <2>2, CoverKept
<1>6. QED BY <1>5 DEF NothingForgotten

(* A task that dies loses what it carries. *)
LEMMA CrashForgetsNothing ==
  ASSUME CommandsInv, NothingForgotten, NEW k \in Clients, Crash(k) \/ SetEpoch(k)
  PROVE  NothingForgotten'
<1>1. UNCHANGED requests /\ UNCHANGED index
  BY DEF Crash, SetEpoch, interruptVars
<1>2. task' = [task EXCEPT ![k] = NoTask] /\ lost \subseteq lost'
  BY CrashTask, SetEpochKeeps DEF SetEpoch
<1>3. ASSUME NEW r, NEW i, <<r, i>> \in Carried(task[k]), Exists(r, i)
      PROVE  <<r, i>> \in lost'
  <2>1. CASE Crash(k)
    <3>1. CASE task[k].pc \in {"look", "push"}
      BY <1>3, <2>1, <3>1, CarriedAt DEF Crash, Keys, Stored, Run
    <3>2. CASE task[k].pc = "refill"
      BY <1>3, <2>1, <3>2, CarriedAt DEF Crash, Keys, Stored, Run
    <3>3. CASE task[k].pc \notin {"look", "push", "refill"}
      BY <1>3, <3>3, CarriedAt
    <3>4. QED BY <3>1, <3>2, <3>3
  <2>2. CASE SetEpoch(k)
    BY <1>3, <2>2, SetEpochKeeps, CarriedAt
  <2>3. QED BY <2>1, <2>2
<1>4. \A r \in Runs : \A i \in DOMAIN requests'[r] : Exists(r, i)' => Exists(r, i)
  BY <1>1 DEF Exists
<1>5. QED BY <1>1, <1>2, <1>3, <1>4, ListedStays

LEMMA StartForgetsNothing ==
  ASSUME CommandsInv, NothingForgotten, NEW k \in Clients, Start(k)
  PROVE  NothingForgotten'
<1>1. UNCHANGED requests /\ UNCHANGED index /\ UNCHANGED lost
  BY StartTasks DEF interruptVars
<1>2. ASSUME NEW j \in Clients PROVE Carried(task[j]) \subseteq Carried(task'[j])
  <2>1. CASE task[j].pc = "idle"
    BY <2>1, CarriedAt
  <2>2. CASE task[j].pc # "idle"
    <3>1. task'[j] = [task[j] EXCEPT !.alone = FALSE]
      BY <2>2, StartTasks
    <3>2. task[j] \in TaskRecord
      BY TaskAtHand
    <3>3. PICK u : u = [task[j] EXCEPT !.alone = FALSE]
      OBVIOUS
    <3>4. u.pc = task[j].pc /\ u.run = task[j].run /\ u.id = task[j].id /\ u.push = task[j].push
      BY <3>2, <3>3 DEF TaskRecord
    <3>5. QED BY <3>1, <3>3, <3>4 DEF Carried
  <2>3. QED BY <2>1, <2>2
<1>3. \A j \in Clients : (Carried(task[j]))' = Carried(task'[j])
  BY DEF Carried
<1>4. ASSUME NEW r \in Runs, NEW i \in DOMAIN requests'[r], Exists(r, i)'
      PROVE  Covered(r, i)'
  <2>1. Covered(r, i)
    BY <1>1, <1>4 DEF NothingForgotten, Exists
  <2>2. QED BY <1>1, <1>2, <1>3, <2>1 DEF Covered
<1>5. QED BY <1>4 DEF NothingForgotten

LEMMA ForgottenInit ==
  Init => NothingForgotten
  BY DEF Init, InterruptsInit, NothingForgotten

LEMMA ForgottenStep ==
  CommandsInv /\ NothingForgotten /\ [Next]_vars => NothingForgotten'
<1> SUFFICES ASSUME CommandsInv, NothingForgotten, [Next]_vars PROVE NothingForgotten'
  OBVIOUS
<1>1. ASSUME NEW k \in Clients, Start(k) PROVE NothingForgotten'
  BY <1>1, StartForgetsNothing
<1>2. ASSUME NEW k \in Clients, Send(k) PROVE NothingForgotten'
  BY <1>2, ReadingForgetsNothing, DropForgetsNothing, RefillForgetsNothing,
     DeletionForgetsNothing, SetForgetsNothing, LookForgetsNothing, PushForgetsNothing,
     CrashForgetsNothing DEF Send
<1>3. ASSUME NEW k \in Clients, Crash(k) PROVE NothingForgotten'
  BY <1>3, CrashForgetsNothing
<1>4. ASSUME NEW r \in Runs, NEW i \in DOMAIN requests[r], PassTime(r, i)
      PROVE  NothingForgotten'
  <2>1. /\ UNCHANGED index /\ UNCHANGED task /\ UNCHANGED lost
        /\ \A o \in Runs : DOMAIN requests'[o] = DOMAIN requests[o]
        /\ \A o \in Runs : \A j \in DOMAIN requests[o] :
             requests'[o][j].status = requests[o][j].status
    BY <1>4, PassTimeKeeps
  <2>2. QED BY <2>1 DEF NothingForgotten, Covered, Carried, Exists
<1>5. CASE UNCHANGED vars
  BY <1>5 DEF vars, interruptVars, NothingForgotten, Covered, Carried, Exists
<1>6. QED BY <1>1, <1>2, <1>3, <1>4, <1>5 DEF Next

LEMMA ForgottenAlways ==
  Spec => []NothingForgotten
<1>1. CommandsInv /\ NothingForgotten /\ [Next]_vars => NothingForgotten'
  BY ForgottenStep
<1>2. QED BY <1>1, ForgottenInit, CommandsInvAlways, PTL DEF Spec

(* A stored request that its run's index does not list is about to be listed   *)
(* by the task that saved it, or a rewrite or the death of a task lost it      *)
(* (save_request and _rewrite_list of RedisInterruptStore, interrupts.py).     *)
THEOREM RequestsAreNotLost == Spec => []LostOnlyByRewriteOrCrash
<1>1. CommandsInv /\ NothingForgotten => LostOnlyByRewriteOrCrash
  <2> SUFFICES ASSUME CommandsInv, NothingForgotten, NEW r \in Runs,
                      NEW i \in DOMAIN requests[r], Exists(r, i),
                      i \notin Range(index[r]), <<r, i>> \notin lost
               PROVE  i \in OnItsWay(r)
    BY DEF LostOnlyByRewriteOrCrash
  <2>1. PICK k \in Clients : <<r, i>> \in Carried(task[k])
    BY DEF NothingForgotten, Covered
  <2> DEFINE ids == IF Run(k) # r THEN {}
                    ELSE IF task[k].pc \in {"look", "push"} THEN {task[k].id}
                    ELSE IF At(k, "refill") THEN Range(task[k].push) ELSE {}
  <2>2. i \in ids
    <3>1. CASE task[k].pc \in {"look", "push"}
      BY <2>1, <3>1, CarriedAt DEF Run
    <3>2. CASE task[k].pc = "refill"
      BY <2>1, <3>2, CarriedAt DEF Run, At
    <3>3. CASE task[k].pc \notin {"look", "push", "refill"}
      BY <2>1, <3>3, CarriedAt
    <3>4. QED BY <3>1, <3>2, <3>3
  <2> HIDE DEF ids
  <2>3. ids \subseteq OnItsWay(r)
    BY DEF OnItsWay, ids
  <2>4. QED BY <2>2, <2>3
<1>2. QED BY <1>1, CommandsInvAlways, ForgottenAlways, PTL

-----------------------------------------------------------------------------
(* Redis: what a create that has the store to itself knows *)

FoundAs(t, i) ==
  \E n \in DOMAIN t.found :
    /\ t.found[n].id = i /\ t.found[n].status = "pending"
    /\ t.found[n].epoch = requests[t.run][i].epoch

(* Every pending request is among what it has read, or is still to read. *)
KnowsPending(t) ==
  \A i \in DOMAIN requests[t.run] :
    requests[t.run][i].status = "pending" /\ <<t.run, i>> \notin lost =>
    /\ t.pc = "read" => i \in Range(t.left) \/ FoundAs(t, i)
    /\ t.pc = "set" => i = t.id \/ FoundAs(t, i)
    /\ t.pc \in {"drop", "refill", "review", "look", "push"} => FoundAs(t, i)

QuietOK(t) ==
  t.pc # "idle" /\ t.alone =>
    /\ t.kind = "create" => KnowsPending(t)
    /\ t.kind = "new" /\ t.pc \in {"getEpoch", "set"} =>
         Cardinality(NotLost(t.run, t.epoch)) < MaxPending
    /\ t.kind = "new" /\ t.pc = "getEpoch" => t.epoch = None

AloneOK ==
  \A k \in Clients : task[k].pc # "idle" /\ task[k].alone =>
    \A j \in Clients \ {k} : task[j].pc = "idle"

QuietInv ==
  /\ CommandsInv
  /\ NothingForgotten
  /\ AloneOK
  /\ \A k \in Clients : QuietOK(task[k])

(* The others begin nothing while a task is alone. *)
LEMMA QuietCommandsKeep ==
  ASSUME QuietInv, NEW k \in Clients, NEW t, task[k].pc # "idle",
         task' = [task EXCEPT ![k] = t], t.pc # "idle" => t.alone = task[k].alone,
         QuietOK(t)'
  PROVE  AloneOK' /\ \A j \in Clients : QuietOK(task[j])'
<1>1. /\ task'[k] = t /\ \A j \in Clients \ {k} : task'[j] = task[j]
  BY DEF QuietInv, CommandsInv, CommandsTypeOK
<1>2. \A j \in Clients \ {k} : ~(task[j].pc # "idle" /\ task[j].alone)
  BY DEF QuietInv, AloneOK
<1>3. AloneOK'
  BY <1>1, <1>2 DEF QuietInv, AloneOK
<1>4. ASSUME NEW j \in Clients PROVE QuietOK(task[j])'
  <2>1. CASE j = k
    <3>1. (task[j])' = t
      BY <1>1, <2>1
    <3>2. NotLost(task[j].run, task[j].epoch)' = NotLost(t.run, t.epoch)'
      BY <3>1 DEF NotLost, PendingAt
    <3>3. KnowsPending(task[j])' = KnowsPending(t)'
      BY <3>1 DEF KnowsPending, FoundAs
    <3>4. QED BY <3>1, <3>2, <3>3 DEF QuietOK
  <2>2. CASE j # k
    <3>1. (task[j])' = task[j] /\ ~(task[j].pc # "idle" /\ task[j].alone)
      BY <1>1, <1>2, <2>2
    <3>2. QED BY <3>1 DEF QuietOK
  <2>3. QED BY <2>1, <2>2
<1>5. QED BY <1>3, <1>4

(* What is known of requests nobody changed stays known. *)
LEMMA QuietStays ==
  ASSUME NEW t, QuietOK(t), UNCHANGED requests, lost \subseteq lost',
         lost' = lost \/ t.kind # "new"
  PROVE  QuietOK(t)'
<1>1. KnowsPending(t) => KnowsPending(t)'
  BY DEF KnowsPending, FoundAs
<1>2. CASE lost' = lost
  <2>1. NotLost(t.run, t.epoch)' = NotLost(t.run, t.epoch)
    BY <1>2 DEF NotLost, PendingAt
  <2>2. QED BY <1>1, <2>1 DEF QuietOK
<1>3. CASE t.kind # "new"
  BY <1>1, <1>3 DEF QuietOK
<1>4. QED BY <1>2, <1>3

(* What goes on reading with the same entries knows as much. *)
LEMMA SameFound ==
  ASSUME NEW t, NEW u, t.found = u.found, t.run = u.run, NEW i
  PROVE  FoundAs(t, i) <=> FoundAs(u, i)
  BY DEF FoundAs

(* A listing that begins finds every pending request in the index. *)
LEMMA ListIdsQuiet ==
  ASSUME QuietInv, NEW k \in Clients, ListIds(k)
  PROVE  \E t \in TaskRecord :
           /\ task' = [task EXCEPT ![k] = t] /\ t.alone = task[k].alone /\ QuietOK(t)
<1>1. CommandsInv /\ task[k].pc = "range"
  BY DEF QuietInv, ListIds, At
<1>2. PICK t \in TaskRecord :
        /\ task' = [task EXCEPT ![k] = t]
        /\ t.pc = (IF index[Run(k)] # <<>> THEN "read"
                   ELSE IF task[k].gap THEN "drop" ELSE "review")
        /\ t.left = index[Run(k)]
        /\ t.run = Run(k) /\ t.kind = task[k].kind /\ t.alone = task[k].alone
  BY <1>1, ListIdsTask
<1>3. ASSUME t.kind = "create", t.alone, NEW i \in DOMAIN requests[t.run],
             requests[t.run][i].status = "pending", <<t.run, i>> \notin lost
      PROVE  t.pc = "read" /\ i \in Range(t.left)
  <2>1. Run(k) \in Runs
    BY <1>1, TaskAtHand
  <2>2. Covered(Run(k), i)
    BY <1>2, <1>3, <2>1 DEF QuietInv, NothingForgotten, Exists
  <2>3. \A j \in Clients : Carried(task[j]) = {}
    <3>1. \A j \in Clients \ {k} : task[j].pc = "idle"
      BY <1>1, <1>2, <1>3 DEF QuietInv, AloneOK
    <3>2. QED BY <1>1, <3>1, CarriedAt
  <2>4. i \in Range(index[Run(k)])
    BY <1>2, <1>3, <2>2, <2>3 DEF Covered
  <2>5. index[Run(k)] # <<>>
    BY <2>4 DEF Range
  <2>6. QED BY <1>2, <2>4, <2>5
<1>4. t.kind # "new"
  <2>1. TaskOK(task[k])
    BY <1>1, TaskAtHand
  <2>2. QED BY <1>1, <1>2, <2>1 DEF TaskOK
<1>5. QuietOK(t)
  BY <1>3, <1>4 DEF QuietOK, KnowsPending
<1>6. QED BY <1>2, <1>5

(* It keeps what it has read. *)
LEMMA ReadQuiet ==
  ASSUME QuietInv, NEW k \in Clients, Read(k)
  PROVE  \E t \in TaskRecord :
           /\ task' = [task EXCEPT ![k] = t] /\ t.alone = task[k].alone /\ QuietOK(t)
<1>1. CommandsInv /\ task[k].pc = "read"
  BY DEF QuietInv, Read, At
<1> DEFINE h == Head(task[k].left)
           x == [id |-> h, status |-> requests[Run(k)][h].status,
                 epoch |-> requests[Run(k)][h].epoch]
<1>2. PICK t \in TaskRecord :
        /\ task' = [task EXCEPT ![k] = t]
        /\ task[k].left \in Seq(Nat) /\ task[k].left # <<>>
        /\ t.pc \in {"read", "drop", "review"}
        /\ t.pc = "read" <=> Tail(task[k].left) # <<>>
        /\ t.left = Tail(task[k].left)
        /\ Exists(Run(k), h) => t.found = Append(task[k].found, x)
        /\ ~Exists(Run(k), h) => t.found = task[k].found
        /\ t.run = Run(k) /\ t.kind = task[k].kind /\ t.alone = task[k].alone
  BY <1>1, ReadTask
<1>3. /\ task[k].found \in Seq(FoundRecord) /\ TaskOK(task[k])
      /\ Run(k) \in Runs /\ Run(k) = task[k].run
      /\ requests[Run(k)] \in Seq(KeyRecord)
      /\ DOMAIN requests[Run(k)] = 1 .. Len(requests[Run(k)])
  <2>1. task[k].found \in Seq(FoundRecord)
    BY <1>1, TaskAtHand DEF TaskRecord
  <2>2. QED BY <1>1, <2>1, TaskAtHand
<1>4. h \in Nat
  BY <1>2, HeadTailProperties
<1>5. ASSUME Exists(Run(k), h)
      PROVE  /\ DOMAIN t.found = DOMAIN task[k].found \cup {Len(task[k].found) + 1}
             /\ \A n \in DOMAIN task[k].found : t.found[n] = task[k].found[n]
             /\ t.found[Len(task[k].found) + 1] = x
  <2>1. requests[Run(k)][h] \in KeyRecord
    BY <1>3, <1>5, ElementOfSeq DEF Exists
  <2>2. x \in FoundRecord
    BY <1>4, <2>1 DEF KeyRecord, FoundRecord
  <2> HIDE DEF x
  <2>3. QED BY <1>2, <1>3, <1>5, <2>2, AppendedFacts
<1>6. ASSUME NEW i, FoundAs(task[k], i) PROVE FoundAs(t, i)
  <2>1. CASE Exists(Run(k), h)
    BY <1>2, <1>3, <1>5, <1>6, <2>1 DEF FoundAs
  <2>2. CASE ~Exists(Run(k), h)
    BY <1>2, <1>3, <1>6, <2>2 DEF FoundAs
  <2>3. QED BY <2>1, <2>2
<1>7. ASSUME Exists(Run(k), h), requests[Run(k)][h].status = "pending"
      PROVE  FoundAs(t, h)
  <2>1. PICK n \in DOMAIN t.found : t.found[n] = x
    BY <1>5, <1>7
  <2>2. t.found[n].id = h /\ t.found[n].status = "pending"
    BY <1>7, <2>1
  <2>3. t.found[n].epoch = requests[t.run][h].epoch
    BY <1>2, <2>1
  <2>4. QED BY <2>1, <2>2, <2>3 DEF FoundAs
<1>8. ASSUME t.kind = "create", t.alone, NEW i \in DOMAIN requests[t.run],
             requests[t.run][i].status = "pending", <<t.run, i>> \notin lost
      PROVE  (t.pc = "read" /\ i \in Range(t.left)) \/ FoundAs(t, i)
  <2>1. i \in Range(task[k].left) \/ FoundAs(task[k], i)
    BY <1>1, <1>2, <1>3, <1>8 DEF QuietInv, QuietOK, KnowsPending
  <2>2. CASE FoundAs(task[k], i)
    BY <1>6, <2>2
  <2>3. CASE i = h
    BY <1>2, <1>7, <1>8, <2>3 DEF Exists
  <2>4. CASE i \in Range(Tail(task[k].left)) /\ Tail(task[k].left) # <<>>
    BY <1>2, <2>4
  <2>5. QED BY <1>2, <2>1, <2>2, <2>3, <2>4, HeadAndRest
<1>9. t.kind # "new"
  BY <1>1, <1>2, <1>3 DEF TaskOK
<1>10. QuietOK(t)
  BY <1>2, <1>8, <1>9 DEF QuietOK, KnowsPending
<1>11. QED BY <1>2, <1>10

(* A rewrite keeps it too. *)
LEMMA RewriteQuiet ==
  ASSUME QuietInv, NEW k \in Clients, Drop(k) \/ Refill(k)
  PROVE  \E t \in TaskRecord :
           /\ task' = [task EXCEPT ![k] = t] /\ t.alone = task[k].alone /\ QuietOK(t)
           /\ t.kind # "new"
<1>1. /\ CommandsInv /\ task[k].pc \in {"drop", "refill"}
  BY DEF QuietInv, Drop, Refill, At
<1>2. PICK t \in TaskRecord :
        /\ task' = [task EXCEPT ![k] = t]
        /\ t.pc \in {"refill", "review"}
        /\ t.run = Run(k) /\ t.kind = task[k].kind
        /\ t.found = task[k].found /\ t.alone = task[k].alone
  BY <1>1, DropTask, RefillTask
<1>3. Run(k) = task[k].run /\ TaskOK(task[k])
  BY <1>1, TaskAtHand
<1>4. ASSUME t.kind = "create", t.alone, NEW i \in DOMAIN requests[t.run],
             requests[t.run][i].status = "pending", <<t.run, i>> \notin lost
      PROVE  FoundAs(t, i)
  <2>1. FoundAs(task[k], i)
    BY <1>1, <1>2, <1>3, <1>4 DEF QuietInv, QuietOK, KnowsPending
  <2>2. QED BY <1>2, <1>3, <2>1, SameFound
<1>5. t.kind # "new"
  BY <1>1, <1>2, <1>3 DEF TaskOK
<1>6. QuietOK(t)
  BY <1>2, <1>4, <1>5 DEF QuietOK, KnowsPending
<1>7. QED BY <1>2, <1>5, <1>6

(* A request it found late is the one it saves. *)
LEMMA ReviewExpiredQuiet ==
  ASSUME QuietInv, NEW k \in Clients, ReviewExpired(k)
  PROVE  \E t \in TaskRecord :
           /\ task' = [task EXCEPT ![k] = t] /\ t.alone = task[k].alone /\ QuietOK(t)
<1>1. CommandsInv
  BY DEF QuietInv
<1>2. PICK t \in TaskRecord, n \in DOMAIN task[k].found :
        /\ task' = [task EXCEPT ![k] = t]
        /\ task[k].pc = "review" /\ t.pc = "set" /\ t.id = task[k].found[n].id
        /\ DOMAIN t.found = DOMAIN task[k].found
        /\ \A m \in DOMAIN t.found : m # n => t.found[m] = task[k].found[m]
        /\ t.run = Run(k) /\ t.kind = task[k].kind
        /\ t.alone = task[k].alone /\ t.kind # "new"
  BY <1>1, ReviewExpiredTask
<1>3. Run(k) = task[k].run
  BY <1>1, <1>2, TaskAtHand
<1>4. ASSUME t.kind = "create", t.alone, NEW i \in DOMAIN requests[t.run],
             requests[t.run][i].status = "pending", <<t.run, i>> \notin lost
      PROVE  i = t.id \/ FoundAs(t, i)
  <2>1. FoundAs(task[k], i)
    BY <1>2, <1>3, <1>4 DEF QuietInv, QuietOK, KnowsPending
  <2>2. PICK m \in DOMAIN task[k].found :
          /\ task[k].found[m].id = i /\ task[k].found[m].status = "pending"
          /\ task[k].found[m].epoch = requests[t.run][i].epoch
    BY <1>2, <1>3, <2>1 DEF FoundAs
  <2>3. CASE m = n
    BY <1>2, <2>2, <2>3
  <2>4. CASE m # n
    BY <1>2, <2>2, <2>4 DEF FoundAs
  <2>5. QED BY <2>3, <2>4
<1>5. QuietOK(t)
  BY <1>2, <1>4 DEF QuietOK, KnowsPending
<1>6. QED BY <1>2, <1>5

(* Fewer requests are pending at an epoch than a create found. *)
LEMMA FewerPending ==
  ASSUME CommandsInv, NEW k \in Clients, Run(k) \in Runs, Run(k) = task[k].run,
         \A i \in DOMAIN requests[Run(k)] :
           requests[Run(k)][i].status = "pending" /\ <<Run(k), i>> \notin lost
             => FoundAs(task[k], i)
  PROVE  /\ Cardinality(NotLost(Run(k), task[k].epoch)) <= Cardinality(Pending(k))
         /\ Cardinality(NotLost(Run(k), task[k].epoch)) \in Nat
<1> DEFINE ids == [n \in Pending(k) |-> task[k].found[n].id]
           P == NotLost(Run(k), task[k].epoch)
<1>1. IsFiniteSet(Pending(k))
  <2>1. Found(k) = 1 .. Len(task[k].found) /\ Len(task[k].found) \in Nat
    BY FoundAtHand
  <2>2. IsFiniteSet(Found(k))
    BY <2>1, FS_Interval
  <2>3. Pending(k) \subseteq Found(k)
    BY DEF Pending
  <2>4. QED BY <2>2, <2>3, FS_Subset
<1>2. ASSUME NEW i \in P PROVE \E n \in Pending(k) : ids[n] = i
  <2>1. /\ i \in DOMAIN requests[Run(k)] /\ requests[Run(k)][i].status = "pending"
        /\ task[k].epoch # None => requests[Run(k)][i].epoch = task[k].epoch
        /\ <<Run(k), i>> \notin lost
    BY DEF NotLost, PendingAt, IsPending
  <2>2. PICK n \in DOMAIN task[k].found :
          /\ task[k].found[n].id = i /\ task[k].found[n].status = "pending"
          /\ task[k].found[n].epoch = requests[Run(k)][i].epoch
    BY <2>1 DEF FoundAs
  <2>3. n \in Pending(k)
    BY <2>1, <2>2 DEF Pending, Found, IsFoundPending
  <2>4. QED BY <2>2, <2>3
<1> DEFINE I == {ids[n] : n \in Pending(k)}
<1>3. ids \in [Pending(k) -> I]
  OBVIOUS
<1>4. P \subseteq I
  BY <1>2
<1>5. ids \in Surjection(Pending(k), I)
  BY <1>3 DEF Surjection
<1> HIDE DEF ids, I
<1>6. IsFiniteSet(I) /\ Cardinality(I) <= Cardinality(Pending(k))
  BY <1>1, <1>5, FS_Surjection
<1> HIDE DEF P
<1>7. IsFiniteSet(P) /\ Cardinality(P) <= Cardinality(I)
  BY <1>4, <1>6, FS_Subset
<1>8. /\ Cardinality(P) \in Nat /\ Cardinality(I) \in Nat
      /\ Cardinality(Pending(k)) \in Nat
  BY <1>1, <1>6, <1>7, FS_CardinalityType
<1>9. Cardinality(P) <= Cardinality(Pending(k))
  BY <1>6, <1>7, <1>8
<1>10. QED BY <1>8, <1>9 DEF P

(* A create that goes on has counted every pending request. *)
LEMMA ReviewPendingQuiet ==
  ASSUME QuietInv, NEW k \in Clients, ReviewPending(k)
  PROVE  \E t \in TaskRecord :
           /\ task' = [task EXCEPT ![k] = t]
           /\ t.pc # "idle" => t.alone = task[k].alone
           /\ QuietOK(t)
<1>1. CommandsInv
  BY DEF QuietInv
<1>2. PICK t \in TaskRecord :
        /\ task' = [task EXCEPT ![k] = t]
        /\ task[k].pc = "review"
        /\ \/ t = NoTask
           \/ /\ task[k].kind = "create" /\ Room(k)
              /\ t.kind = "new" /\ t.pc \in {"getEpoch", "set"} /\ t.run = Run(k)
              /\ t.epoch = task[k].epoch /\ t.alone = task[k].alone
              /\ t.pc = "getEpoch" => t.epoch = None
  BY <1>1, ReviewPendingTask
<1>3. Run(k) \in Runs /\ Run(k) = task[k].run
  BY <1>1, <1>2, TaskAtHand
<1>4. CASE t = NoTask
  <2>1. QuietOK(t)
    BY <1>4, Returned DEF QuietOK
  <2>2. QED BY <1>2, <1>4, <2>1, Returned
<1>5. CASE t # NoTask
  <2>1. ASSUME t.alone
        PROVE  Cardinality(NotLost(t.run, t.epoch)) < MaxPending
    <3>1. \A i \in DOMAIN requests[Run(k)] :
            requests[Run(k)][i].status = "pending" /\ <<Run(k), i>> \notin lost
              => FoundAs(task[k], i)
      BY <1>2, <1>3, <1>5, <2>1 DEF QuietInv, QuietOK, KnowsPending
    <3>2. /\ Cardinality(NotLost(Run(k), task[k].epoch)) <= Cardinality(Pending(k))
          /\ Cardinality(NotLost(Run(k), task[k].epoch)) \in Nat
      BY <1>1, <1>3, <3>1, FewerPending
    <3>3. Cardinality(Pending(k)) < MaxPending /\ Cardinality(Pending(k)) \in Nat
      <4>1. Found(k) = 1 .. Len(task[k].found) /\ Len(task[k].found) \in Nat
        BY <1>1, FoundAtHand
      <4>2. IsFiniteSet(Found(k)) /\ Pending(k) \subseteq Found(k)
        BY <4>1, FS_Interval DEF Pending
      <4>3. Cardinality(Pending(k)) \in Nat
        BY <4>2, FS_Subset, FS_CardinalityType
      <4>4. QED BY <1>2, <1>5, <4>3 DEF Room
    <3>4. QED BY <1>2, <1>5, <3>2, <3>3, InterruptConstants
  <2>2. QuietOK(t)
    BY <1>2, <1>5, <2>1 DEF QuietOK
  <2>3. QED BY <1>2, <1>5, <2>2
<1>6. QED BY <1>4, <1>5

(* At the epoch it reads no more are pending than at any. *)
LEMMA GetEpochQuiet ==
  ASSUME QuietInv, NEW k \in Clients, GetEpoch(k)
  PROVE  \E t \in TaskRecord :
           /\ task' = [task EXCEPT ![k] = t] /\ t.alone = task[k].alone /\ QuietOK(t)
<1>1. CommandsInv
  BY DEF QuietInv
<1>2. PICK t \in TaskRecord :
        /\ task' = [task EXCEPT ![k] = t]
        /\ task[k].pc = "getEpoch" /\ t.pc \in {"set", "setEpoch"}
        /\ t.kind = task[k].kind /\ t.kind # "create"
        /\ t.run = Run(k) /\ t.alone = task[k].alone
  BY <1>1, GetEpochTask
<1>3. Run(k) \in Runs /\ Run(k) = task[k].run /\ requests[Run(k)] \in Seq(KeyRecord)
  BY <1>1, <1>2, TaskAtHand
<1>4. ASSUME t.kind = "new", t.alone
      PROVE  Cardinality(NotLost(t.run, t.epoch)) < MaxPending
  <2> DEFINE P == NotLost(t.run, t.epoch)
             All == NotLost(Run(k), None)
  <2>1. Cardinality(All) < MaxPending
    BY <1>2, <1>3, <1>4 DEF QuietInv, QuietOK
  <2>2. P \subseteq All
    BY <1>2 DEF NotLost, PendingAt
  <2>3. IsFiniteSet(All)
    <3>1. DOMAIN requests[Run(k)] = 1 .. Len(requests[Run(k)]) /\ Len(requests[Run(k)]) \in Nat
      BY <1>3, LenProperties
    <3>2. IsFiniteSet(DOMAIN requests[Run(k)])
      BY <3>1, FS_Interval
    <3>3. All \subseteq DOMAIN requests[Run(k)]
      BY DEF NotLost, PendingAt
    <3>4. QED BY <3>2, <3>3, FS_Subset
  <2> HIDE DEF P, All
  <2>4. IsFiniteSet(P) /\ Cardinality(P) <= Cardinality(All)
    BY <2>2, <2>3, FS_Subset
  <2>5. Cardinality(P) \in Nat /\ Cardinality(All) \in Nat
    BY <2>3, <2>4, FS_CardinalityType
  <2>6. Cardinality(P) < MaxPending
    BY <2>1, <2>4, <2>5, InterruptConstants
  <2>7. QED BY <2>6 DEF P
<1>5. QuietOK(t)
  BY <1>2, <1>4 DEF QuietOK
<1>6. QED BY <1>2, <1>5

(* What create saves as expired is pending no more. *)
LEMMA SetQuiet ==
  ASSUME QuietInv, NEW k \in Clients, Set(k)
  PROVE  \E t \in TaskRecord :
           /\ task' = [task EXCEPT ![k] = t] /\ t.alone = task[k].alone /\ QuietOK(t)'
<1>1. CommandsInv /\ UNCHANGED lost
  BY DEF QuietInv, Set
<1>2. CASE task[k].kind = "new"
  <2>1. PICK t \in TaskRecord :
          /\ task' = [task EXCEPT ![k] = t] /\ t.pc = "look" /\ t.kind = "new"
          /\ t.alone = task[k].alone
    BY <1>1, <1>2, SetNewTask
  <2>2. QED BY <2>1 DEF QuietOK
<1>3. CASE task[k].kind # "new"
  <2>1. /\ Run(k) \in Runs /\ task[k].pc = "set"
        /\ task[k].id \in DOMAIN requests[Run(k)]
        /\ task[k].status \in {"expired", "resolved"}
        /\ SetStatus(Run(k), task[k].id, task[k].status)
    BY <1>1, <1>3, SetOldTask
  <2>2. PICK t \in TaskRecord :
          /\ task' = [task EXCEPT ![k] = t] /\ t.pc = "look" /\ t.id = task[k].id
          /\ t.run = Run(k) /\ t.kind = task[k].kind /\ t.alone = task[k].alone
          /\ t.found = task[k].found
    BY <1>1, <1>3, SetOldTask
  <2>3. Run(k) = task[k].run
    BY <1>1, <2>1, TaskAtHand
  <2>4. task[k].status \in RequestStatus
    BY <2>1 DEF RequestStatus
  <2>5. /\ DOMAIN requests'[Run(k)] = DOMAIN requests[Run(k)]
        /\ requests'[Run(k)][task[k].id].status = task[k].status
        /\ \A j \in DOMAIN requests[Run(k)] :
             j # task[k].id => requests'[Run(k)][j] = requests[Run(k)][j]
    BY <1>1, <2>1, <2>4, StatusSet
  <2>6. ASSUME t.kind = "create", t.alone, NEW i \in DOMAIN requests'[t.run],
               requests'[t.run][i].status = "pending", <<t.run, i>> \notin lost'
        PROVE  FoundAs(t, i)'
    <3>1. i # task[k].id /\ i \in DOMAIN requests[Run(k)]
          /\ requests'[t.run][i] = requests[Run(k)][i]
      BY <2>1, <2>2, <2>5, <2>6
    <3>2. requests[task[k].run][i].status = "pending"
      BY <2>3, <2>6, <3>1
    <3>3. FoundAs(task[k], i)
      BY <1>1, <2>1, <2>2, <2>3, <2>6, <3>1, <3>2 DEF QuietInv, QuietOK, KnowsPending
    <3>4. QED BY <2>2, <2>3, <3>1, <3>3 DEF FoundAs
  <2>7. QuietOK(t)'
    BY <1>3, <2>2, <2>6 DEF QuietOK, KnowsPending
  <2>8. QED BY <2>2, <2>7
<1>4. QED BY <1>2, <1>3

LEMMA SavedQuiet ==
  ASSUME QuietInv, NEW k \in Clients, Look(k) \/ Push(k)
  PROVE  \E t \in TaskRecord :
           /\ task' = [task EXCEPT ![k] = t]
           /\ t.pc # "idle" => t.alone = task[k].alone
           /\ QuietOK(t)
<1>1. CommandsInv /\ task[k].pc \in {"look", "push"}
  BY DEF QuietInv, Look, Push, At
<1>2. PICK t \in TaskRecord :
        /\ task' = [task EXCEPT ![k] = t]
        /\ t.pc \in {"idle", "review", "push"}
        /\ t.pc # "idle" =>
             /\ t.kind = task[k].kind /\ t.run = Run(k) /\ t.alone = task[k].alone
             /\ t.found = task[k].found
  <2>1. CASE Saved(k)
    BY <1>1, <2>1, SavedTask
  <2>2. CASE ~Saved(k)
    <3>1. task[k].pc = "look" /\ Goto(k, "push")
      BY <2>2 DEF Look, Push, At
    <3>2. QED BY <1>1, <3>1, NotIndexedTask
  <2>3. QED BY <2>1, <2>2
<1>3. Run(k) = task[k].run
  BY <1>1, TaskAtHand
<1>4. ASSUME t.pc # "idle", t.kind = "create", t.alone, NEW i \in DOMAIN requests[t.run],
             requests[t.run][i].status = "pending", <<t.run, i>> \notin lost
      PROVE  FoundAs(t, i)
  <2>1. FoundAs(task[k], i)
    BY <1>1, <1>2, <1>3, <1>4 DEF QuietInv, QuietOK, KnowsPending
  <2>2. QED BY <1>2, <1>3, <1>4, <2>1, SameFound
<1>5. QuietOK(t)
  BY <1>2, <1>4 DEF QuietOK, KnowsPending
<1>6. QED BY <1>2, <1>5

(* No other operation creates, or counts. *)
LEMMA OthersQuiet ==
  ASSUME QuietInv, NEW k \in Clients,
         \/ ReviewCleared(k) \/ Delete(k) \/ Relist(k) \/ Get(k)
         \/ Scan(k) \/ Sweep(k) \/ SweepDelete(k) \/ SetEpoch(k) \/ Crash(k)
  PROVE  \E t \in TaskRecord :
           /\ task' = [task EXCEPT ![k] = t]
           /\ t.pc # "idle" => t.alone = task[k].alone /\ t.kind \notin {"create", "new"}
<1>1. CommandsInv
  BY DEF QuietInv
<1>2. CASE ReviewCleared(k)
  BY <1>1, <1>2, ReviewClearedTask
<1>3. CASE Delete(k)
  BY <1>1, <1>3, DeleteTask
<1>4. CASE Relist(k)
  <2>1. task[k].pc = "relist"
    BY <1>4 DEF Relist, At
  <2>2. QED BY <1>1, <1>4, <2>1, RelistTask
<1>5. CASE Get(k)
  BY <1>1, <1>5, GetTask
<1>6. CASE Scan(k) \/ Sweep(k)
  BY <1>1, <1>6, ScanTask, SweepTask
<1>7. CASE SweepDelete(k)
  BY <1>1, <1>7, SweepDeleteTask
<1>8. CASE SetEpoch(k) \/ Crash(k)
  BY <1>1, <1>8, SetEpochKeeps, CrashTask, Returned
<1>9. QED BY <1>2, <1>3, <1>4, <1>5, <1>6, <1>7, <1>8

(* A command keeps what its task knows, and its solitude. *)
LEMMA SendQuiet ==
  ASSUME QuietInv, NEW k \in Clients, Send(k) \/ Crash(k)
  PROVE  AloneOK' /\ \A j \in Clients : QuietOK(task[j])'
<1>1. CommandsInv
  BY DEF QuietInv
<1>2. task[k].pc # "idle"
  BY <1>1, OwnTaskOnly
<1>3. CASE \/ ListIds(k) \/ Read(k) \/ Drop(k) \/ Refill(k) \/ ReviewExpired(k)
           \/ ReviewPending(k) \/ GetEpoch(k) \/ Look(k) \/ Push(k)
  <2>1. UNCHANGED requests /\ lost \subseteq lost' /\ (lost' = lost \/ Drop(k))
    BY <1>3 DEF ListIds, Read, Drop, Refill, ReviewExpired, ReviewPending, GetEpoch, Look,
                Push, interruptVars
  <2>2. PICK t \in TaskRecord :
          /\ task' = [task EXCEPT ![k] = t]
          /\ t.pc # "idle" => t.alone = task[k].alone
          /\ QuietOK(t) /\ (lost' = lost \/ t.kind # "new")
    <3>1. CASE ListIds(k) \/ Read(k)
      <4>1. lost' = lost
        BY <3>1 DEF ListIds, Read
      <4>2. QED BY <3>1, <4>1, ListIdsQuiet, ReadQuiet
    <3>2. CASE Drop(k) \/ Refill(k)
      BY <3>2, RewriteQuiet
    <3>3. CASE ReviewExpired(k) \/ ReviewPending(k) \/ GetEpoch(k)
      <4>1. lost' = lost
        BY <3>3 DEF ReviewExpired, ReviewPending, GetEpoch
      <4>2. QED BY <3>3, <4>1, ReviewExpiredQuiet, ReviewPendingQuiet, GetEpochQuiet
    <3>4. CASE Look(k) \/ Push(k)
      <4>1. lost' = lost
        BY <3>4 DEF Look, Push
      <4>2. QED BY <3>4, <4>1, SavedQuiet
    <3>5. QED BY <1>3, <3>1, <3>2, <3>3, <3>4
  <2>3. QuietOK(t)'
    BY <2>1, <2>2, QuietStays
  <2>4. QED BY <1>2, <2>2, <2>3, QuietCommandsKeep
<1>4. CASE Set(k)
  BY <1>2, <1>4, SetQuiet, QuietCommandsKeep
<1>5. CASE \/ ReviewCleared(k) \/ Delete(k) \/ Relist(k) \/ Get(k)
           \/ Scan(k) \/ Sweep(k) \/ SweepDelete(k) \/ SetEpoch(k) \/ Crash(k)
  <2>1. PICK t \in TaskRecord :
          /\ task' = [task EXCEPT ![k] = t]
          /\ t.pc # "idle" => t.alone = task[k].alone /\ t.kind \notin {"create", "new"}
    BY <1>5, OthersQuiet
  <2>2. QuietOK(t)'
    BY <2>1 DEF QuietOK
  <2>3. QED BY <1>2, <2>1, <2>2, QuietCommandsKeep
<1>6. QED BY <1>3, <1>4, <1>5 DEF Send

(* An operation that begins leaves nobody alone but itself. *)
LEMMA StartQuiet ==
  ASSUME QuietInv, NEW k \in Clients, Start(k)
  PROVE  AloneOK' /\ \A j \in Clients : QuietOK(task[j])'
<1>1. CommandsInv
  BY DEF QuietInv
<1>2. PICK t \in TaskRecord :
        /\ t.kind # "new"
        /\ t.kind = "create" => t.pc = "range"
        /\ t.alone => \A j \in Clients : task[j].pc = "idle"
        /\ task'[k] = t
        /\ \A j \in Clients \ {k} :
             /\ task[j].pc = "idle" => task'[j] = task[j]
             /\ task[j].pc # "idle" => task'[j] = [task[j] EXCEPT !.alone = FALSE]
  BY <1>1, StartTasks
<1>3. ASSUME NEW j \in Clients \ {k}, task'[j].pc # "idle"
      PROVE  task[j].pc # "idle" /\ ~task'[j].alone
  <2>1. task[j].pc # "idle"
    BY <1>2, <1>3
  <2>2. task[j] \in TaskRecord
    BY <1>1, TaskAtHand
  <2>3. PICK u : u = [task[j] EXCEPT !.alone = FALSE]
    OBVIOUS
  <2>4. ~u.alone
    BY <2>2, <2>3 DEF TaskRecord
  <2>5. task'[j] = u
    BY <1>2, <2>1, <2>3
  <2>6. QED BY <2>1, <2>4, <2>5
<1>4. AloneOK'
  BY <1>2, <1>3 DEF AloneOK
<1>5. ASSUME NEW j \in Clients PROVE QuietOK(task[j])'
  <2>1. CASE j = k
    <3>1. (task[j])' = t
      BY <1>2, <2>1
    <3>2. QED BY <1>2, <3>1 DEF QuietOK, KnowsPending
  <2>2. CASE j # k
    <3>1. task'[j].pc # "idle" => ~task'[j].alone
      BY <1>3, <2>2
    <3>2. QED BY <3>1 DEF QuietOK
  <2>3. QED BY <2>1, <2>2
<1>6. QED BY <1>4, <1>5

(* The pending requests of a run are finitely many, *)
LEMMA PendingKeysAreFinite ==
  ASSUME NEW r, requests[r] \in Seq(KeyRecord), NEW e
  PROVE  IsFiniteSet(NotLost(r, e)) /\ Cardinality(NotLost(r, e)) \in Nat
<1>1. DOMAIN requests[r] = 1 .. Len(requests[r]) /\ Len(requests[r]) \in Nat
  BY LenProperties
<1>2. IsFiniteSet(DOMAIN requests[r])
  BY <1>1, FS_Interval
<1>3. NotLost(r, e) \subseteq DOMAIN requests[r]
  BY DEF NotLost, PendingAt
<1>4. QED BY <1>2, <1>3, FS_Subset, FS_CardinalityType

(* and no more of them as time passes. *)
LEMMA LaterPending ==
  ASSUME CommandsInv, NEW r \in Runs, NEW e,
         DOMAIN requests'[r] = DOMAIN requests[r],
         \A j \in DOMAIN requests[r] :
           /\ requests'[r][j].status = requests[r][j].status
           /\ requests'[r][j].epoch = requests[r][j].epoch
           /\ requests[r][j].late => requests'[r][j].late,
         UNCHANGED lost, Cardinality(NotLost(r, e)) < MaxPending
  PROVE  Cardinality(NotLost(r, e)') < MaxPending
<1> DEFINE P == NotLost(r, e)
           Q == NotLost(r, e)'
<1>1. IsFiniteSet(P) /\ Cardinality(P) \in Nat
  <2>1. requests[r] \in Seq(KeyRecord)
    BY DEF CommandsInv, CommandsTypeOK
  <2>2. QED BY <2>1, PendingKeysAreFinite
<1>2. Q \subseteq P
  BY DEF NotLost, PendingAt, IsPending
<1>3. Cardinality(P) < MaxPending
  OBVIOUS
<1> HIDE DEF P, Q
<1>4. IsFiniteSet(Q) /\ Cardinality(Q) <= Cardinality(P)
  BY <1>1, <1>2, FS_Subset
<1>5. Cardinality(Q) \in Nat
  BY <1>4, FS_CardinalityType
<1>6. Cardinality(Q) < MaxPending
  BY <1>1, <1>3, <1>4, <1>5, InterruptConstants
<1>7. QED BY <1>6 DEF Q

LEMMA QuietInvStep ==
  QuietInv /\ [Next]_vars => QuietInv'
<1> SUFFICES ASSUME QuietInv, [Next]_vars PROVE QuietInv'
  OBVIOUS
<1>1. CommandsInv' /\ NothingForgotten'
  BY CommandsInvStep, ForgottenStep DEF QuietInv
<1>2. ASSUME NEW k \in Clients, Start(k) \/ Send(k) \/ Crash(k)
      PROVE  AloneOK' /\ \A j \in Clients : QuietOK(task[j])'
  BY <1>2, StartQuiet, SendQuiet
<1>3. ASSUME NEW r \in Runs, NEW i \in DOMAIN requests[r], PassTime(r, i)
      PROVE  AloneOK' /\ \A j \in Clients : QuietOK(task[j])'
  <2>1. /\ CommandsInv
        /\ UNCHANGED task /\ UNCHANGED lost
        /\ \A o \in Runs : DOMAIN requests'[o] = DOMAIN requests[o]
        /\ \A o \in Runs : \A j \in DOMAIN requests[o] :
             /\ requests'[o][j].status = requests[o][j].status
             /\ requests'[o][j].epoch = requests[o][j].epoch
             /\ requests[o][j].late => requests'[o][j].late
    BY <1>3, PassTimeKeeps DEF QuietInv
  <2>2. AloneOK'
    BY <2>1 DEF QuietInv, AloneOK
  <2>3. ASSUME NEW j \in Clients PROVE QuietOK(task[j])'
    <3>1. PICK t : t = task[j]
      OBVIOUS
    <3>2. QuietOK(t) /\ TaskOK(t) /\ (t.pc # "idle" => t.run \in Runs)
      BY <2>1, <3>1, TaskAtHand DEF QuietInv, TaskOK
    <3>3. ASSUME t.pc # "idle", KnowsPending(t) PROVE KnowsPending(t)'
      BY <2>1, <3>2, <3>3 DEF KnowsPending, FoundAs
    <3>4. ASSUME t.pc # "idle", Cardinality(NotLost(t.run, t.epoch)) < MaxPending
          PROVE  Cardinality(NotLost(t.run, t.epoch)') < MaxPending
      BY <2>1, <3>2, <3>4, LaterPending
    <3>5. QuietOK(t)'
      BY <2>1, <3>2, <3>3, <3>4 DEF QuietOK
    <3>6. (task[j])' = t
      BY <2>1, <3>1
    <3>7. QED BY <3>5, <3>6 DEF QuietOK, KnowsPending, FoundAs, NotLost, PendingAt
  <2>4. QED BY <2>2, <2>3
<1>4. CASE UNCHANGED vars
  <2>1. UNCHANGED task /\ UNCHANGED lost /\ UNCHANGED requests
    BY <1>4 DEF vars, interruptVars
  <2>2. AloneOK'
    BY <2>1 DEF QuietInv, AloneOK
  <2>3. ASSUME NEW j \in Clients PROVE QuietOK(task[j])'
    BY <2>1 DEF QuietInv, QuietOK, KnowsPending, FoundAs, NotLost, PendingAt
  <2>4. QED BY <1>1, <2>2, <2>3 DEF QuietInv
<1>5. QED BY <1>1, <1>2, <1>3, <1>4 DEF Next, QuietInv

(* What a create knows of the pending requests holds throughout. *)
THEOREM QuietInvAlways == Spec => []QuietInv
<1>1. Init => QuietInv
  <2> SUFFICES ASSUME Init PROVE QuietInv
    OBVIOUS
  <2>1. CommandsInv /\ NothingForgotten
    BY CommandsInvInit, ForgottenInit
  <2>2. \A k \in Clients : task[k].pc = "idle"
    BY Returned DEF Init
  <2>3. QED BY <2>1, <2>2 DEF QuietInv, AloneOK, QuietOK
<1>2. QED BY <1>1, QuietInvStep, PTL DEF Spec

(* A create with nobody beside it keeps the live requests of its run and epoch *)
(* within max_pending, whatever overlapped or died before it, but for the      *)
(* requests that were lost from the index while stored (create over            *)
(* RedisInterruptStore, interrupts.py).                                        *)
THEOREM QuietLimitKept == Spec => QuietCreatesKeepLimit
<1>1. ASSUME QuietInv, [Next]_vars
      PROVE  [\A k \in Clients :
                /\ At(k, "set") /\ task[k].kind = "new" /\ task[k].alone
                /\ task'[k].pc = "look"
                => Cardinality(NotLost(Run(k), task[k].epoch)') <= MaxPending]_vars
  <2> SUFFICES ASSUME Next, NEW k \in Clients, At(k, "set"), task[k].kind = "new",
                      task[k].alone, task'[k].pc = "look"
               PROVE  Cardinality(NotLost(Run(k), task[k].epoch)') <= MaxPending
    BY <1>1
  <2> USE <1>1
  <2>1. CommandsInv /\ task[k].pc = "set"
    BY DEF QuietInv, At
  <2>2. Set(k)
    <3>1. CASE Start(k)
      BY <2>1, <3>1, StartTasks
    <3>2. CASE Send(k)
      BY <2>1, <3>2, SentFrom
    <3>3. CASE Crash(k)
      <4>1. task' = [task EXCEPT ![k] = NoTask] /\ task \in [Clients -> TaskRecord]
        BY <2>1, <3>3, CrashTask, TaskAtHand
      <4>2. QED BY <4>1, Returned
    <3>4. CASE ~(Start(k) \/ Send(k) \/ Crash(k))
      BY <2>1, <3>4, PhaseStays
    <3>5. QED BY <3>1, <3>2, <3>3, <3>4
  <2>3. /\ Run(k) \in Runs /\ Run(k) = task[k].run
        /\ requests[Run(k)] \in Seq(KeyRecord)
    BY <2>1, TaskAtHand
  <2> DEFINE P == NotLost(Run(k), task[k].epoch)
             Q == NotLost(Run(k), task[k].epoch)'
             x == Len(requests[Run(k)]) + 1
  <2>4. Cardinality(P) < MaxPending
    BY <2>1, <2>3 DEF QuietInv, QuietOK
  <2>5. IsFiniteSet(P) /\ Cardinality(P) \in Nat
    BY <2>3, PendingKeysAreFinite
  <2>6. Q \subseteq P \cup {x}
    <3>1. /\ DOMAIN requests'[Run(k)] = DOMAIN requests[Run(k)] \cup {x}
          /\ \A i \in DOMAIN requests[Run(k)] :
               requests'[Run(k)][i] = requests[Run(k)][i]
          /\ \E t \in TaskRecord :
               /\ task' = [task EXCEPT ![k] = t]
               /\ t.run = Run(k) /\ t.epoch = task[k].epoch
      BY <2>1, <2>2, SetNewTask
    <3>2. task'[k].run = Run(k) /\ task'[k].epoch = task[k].epoch
      BY <2>1, <3>1, TaskAtHand
    <3> HIDE DEF x
    <3>3. ASSUME NEW i \in Q, i # x PROVE i \in P
      BY <2>2, <3>1, <3>2, <3>3 DEF NotLost, PendingAt, IsPending, Run, Set
    <3>4. QED BY <3>3
  <2> HIDE DEF P, Q, x
  <2>7. IsFiniteSet(P \cup {x}) /\ Cardinality(P \cup {x}) <= Cardinality(P) + 1
    <3>1. IsFiniteSet(P \cup {x})
      BY <2>5, FS_AddElement
    <3>2. CASE x \in P
      <4>1. P \cup {x} = P
        BY <3>2
      <4>2. Cardinality(P \cup {x}) = Cardinality(P)
        BY <4>1
      <4>3. Cardinality(P) <= Cardinality(P) + 1
        BY <2>5
      <4>4. QED BY <3>1, <4>2, <4>3
    <3>3. CASE x \notin P
      <4>1. Cardinality(P \cup {x}) = Cardinality(P) + 1
        BY <2>5, <3>3, FS_AddElement
      <4>2. QED BY <2>5, <3>1, <4>1
    <3>4. QED BY <3>2, <3>3
  <2>8. IsFiniteSet(Q) /\ Cardinality(Q) <= Cardinality(P \cup {x})
    BY <2>6, <2>7, FS_Subset
  <2>9. /\ Cardinality(P) \in Nat /\ Cardinality(Q) \in Nat
        /\ Cardinality(P \cup {x}) \in Nat
    BY <2>5, <2>7, <2>8, FS_CardinalityType
  <2>10. Cardinality(Q) <= MaxPending
    BY <2>4, <2>7, <2>8, <2>9, InterruptConstants
  <2>11. QED BY <2>10 DEF Q
<1>2. QED BY <1>1, QuietInvAlways, PTL DEF Spec, QuietCreatesKeepLimit
=============================================================================
