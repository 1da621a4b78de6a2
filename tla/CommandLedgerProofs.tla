------------------------ MODULE CommandLedgerProofs ------------------------
(***************************************************************************)
(* Theorems about CommandLedger, for every set of requests, keys, hashes   *)
(* and answers.                                                            *)
(***************************************************************************)
EXTENDS CommandLedger, TLAPS

\* A request that runs a command is bound to its row, and is its owner unless
\* its own lease has passed. This is what LeaseExclusive lacks to be
\* inductive: it says who the other request's claim must have come from.
HolderIsOwner ==
    \A r \in Requests :
        Holding(r) =>
            /\ ledger[KeyOf(r)].status # "absent"
            /\ ledger[KeyOf(r)].hash = HashOf(r)
            /\ ledger[KeyOf(r)].owner = r \/ r \in overdue

\* A row carries a hash, and a row that is not finished carries no result.
RowShape ==
    \A k \in Keys :
        /\ ledger[k].status = "absent" => ledger[k] = NoRow
        /\ ledger[k].status # "absent" => ledger[k].hash \in Hashes
        /\ ledger[k].status = "succeeded" <=> ledger[k].result \in Answers

\* What the workflow took is what the row is bound to.
TakenIsBound ==
    \A k \in Keys :
        workflow[k] # NoHash =>
            ledger[k].status # "absent" /\ ledger[k].hash = workflow[k]

\* A request about to store an answer got it from the workflow.
AnsweredIsTaken ==
    \A r \in Requests :
        pc[r] = "complete" =>
            raw[r] \in Answers /\ workflow[KeyOf(r)] = HashOf(r)

\* The inductive invariant.
LedgerInv ==
    /\ TypeOK
    /\ RowShape
    /\ HolderIsOwner
    /\ TakenIsBound
    /\ AnsweredIsTaken
    /\ NoFalseSuccess
    /\ ReplayIsStored

\* What every statement on the ledger guarantees when request r issues it:
\* the table stays well formed, a finished row stays as it is, a row keeps its
\* hash, only a command the workflow took becomes finished, and no other
\* request loses a claim whose lease still runs.
SafeWrite(r) ==
    /\ ledger' \in [Keys -> Row]
    /\ RowShape'
    /\ \A k \in Keys :
         /\ ledger[k].status = "succeeded" => ledger'[k] = ledger[k]
         /\ ledger[k].status # "absent" =>
              ledger'[k].status # "absent" /\ ledger'[k].hash = ledger[k].hash
         /\ ledger'[k].status = "succeeded" =>
              ledger[k].status = "succeeded" \/ workflow[k] = ledger'[k].hash
         /\ \A q \in Requests \ {r} :
              ledger[k].owner = q => ledger'[k].owner = q \/ q \in overdue

-----------------------------------------------------------------------------
(* The statements on the ledger.                                           *)

\* A statement that changes nothing is safe.
LEMMA NoWrite ==
  ASSUME LedgerInv, NEW r \in Requests, UNCHANGED ledger
  PROVE  SafeWrite(r)
BY DEF LedgerInv, TypeOK, SafeWrite, RowShape

\* The claim (insert or takeover) is safe, and binds the row to the request.
LEMMA ClaimWrites ==
  ASSUME LedgerInv, NEW r \in Requests, CanClaim(r), ledger' = OwnRow(r)
  PROVE  /\ SafeWrite(r)
         /\ ledger'[KeyOf(r)] = [status |-> "started", hash |-> HashOf(r),
                                 owner |-> r, result |-> NoAnswer]
<1> DEFINE row == [status |-> "started", hash |-> HashOf(r),
                   owner |-> r, result |-> NoAnswer]
<1>1. KeyOf(r) \in Keys /\ HashOf(r) \in Hashes
  BY DEF LedgerInv, TypeOK, Command, KeyOf, HashOf
<1>2. row \in Row
  BY <1>1 DEF Row
<1>3. ledger' = [ledger EXCEPT ![KeyOf(r)] = row]
  BY DEF OwnRow
<1> HIDE DEF row
<1>4. /\ ledger' \in [Keys -> Row]
      /\ ledger'[KeyOf(r)] = row
      /\ \A k \in Keys \ {KeyOf(r)} : ledger'[k] = ledger[k]
  BY <1>1, <1>2, <1>3 DEF LedgerInv, TypeOK
<1>5. RowShape'
  <2> SUFFICES ASSUME NEW k \in Keys
               PROVE  RowShape!(k)'
    BY DEF RowShape
  <2>1. CASE k = KeyOf(r)
    BY <2>1, <1>1, <1>4, LedgerAssumption DEF row, LedgerAssumption
  <2>2. CASE k # KeyOf(r)
    BY <2>2, <1>4 DEF LedgerInv, RowShape
  <2> QED
    BY <2>1, <2>2
<1>6. ASSUME NEW k \in Keys
      PROVE  /\ ledger[k].status = "succeeded" => ledger'[k] = ledger[k]
             /\ ledger[k].status # "absent" =>
                  ledger'[k].status # "absent" /\ ledger'[k].hash = ledger[k].hash
             /\ ledger'[k].status = "succeeded" => ledger[k].status = "succeeded"
             /\ \A q \in Requests \ {r} :
                  ledger[k].owner = q => ledger'[k].owner = q \/ q \in overdue
  <2>1. CASE k # KeyOf(r)
    BY <2>1, <1>4
  <2>2. CASE k = KeyOf(r)
    <3>1. ledger'[k].status = "started" /\ ledger'[k].hash = HashOf(r)
      BY <2>2, <1>4 DEF row
    <3>2. \/ ledger[k].status = "absent" /\ ledger[k].owner = Nobody
          \/ /\ ledger[k].status = "started"
             /\ ledger[k].hash = HashOf(r)
             /\ ledger[k].owner = Nobody \/ ledger[k].owner \in overdue
      BY <2>2, <1>1 DEF CanClaim, Claimable, LedgerInv, RowShape, NoRow
    <3> QED
      BY <3>1, <3>2, LedgerAssumption DEF LedgerAssumption
  <2> QED
    BY <2>1, <2>2
<1> QED
  BY <1>4, <1>5, <1>6 DEF SafeWrite, row

\* Storing the answer is safe for a request the workflow answered.
LEMMA StoreWrites ==
  ASSUME LedgerInv, NEW r \in Requests, pc[r] = "complete", StoreResult(r)
  PROVE  SafeWrite(r)
<1>1. CASE ~Owns(r)
  BY <1>1, NoWrite DEF StoreResult
<1>2. CASE Owns(r)
  <2> DEFINE k0 == KeyOf(r)
             row == [ledger[k0] EXCEPT !.status = "succeeded", !.result = raw[r]]
  <2>1. k0 \in Keys /\ raw[r] \in Answers /\ workflow[k0] = HashOf(r)
    BY DEF LedgerInv, TypeOK, Command, KeyOf, AnsweredIsTaken
  <2>2. /\ ledger[k0] \in Row
        /\ ledger[k0].status = "started" /\ ledger[k0].owner = r
        /\ ledger[k0].hash = HashOf(r) /\ ledger[k0].hash \in Hashes
    BY <1>2, <2>1 DEF Owns, LedgerInv, TypeOK, HolderIsOwner, Holding,
                      HoldingSteps, RowShape
  <2>3. /\ row \in Row
        /\ row.status = "succeeded" /\ row.result = raw[r]
        /\ row.hash = ledger[k0].hash /\ row.owner = ledger[k0].owner
    BY <2>1, <2>2 DEF Row
  <2>4. ledger' = [ledger EXCEPT ![k0] = row]
    BY <1>2, <2>1 DEF StoreResult, LedgerInv, TypeOK
  <2> HIDE DEF row, k0
  <2>5. /\ ledger' \in [Keys -> Row]
        /\ ledger'[k0] = row
        /\ \A k \in Keys \ {k0} : ledger'[k] = ledger[k]
    BY <2>1, <2>3, <2>4 DEF LedgerInv, TypeOK
  <2>6. RowShape'
    <3> SUFFICES ASSUME NEW k \in Keys
                 PROVE  RowShape!(k)'
      BY DEF RowShape
    <3>1. CASE k = k0
      BY <3>1, <2>1, <2>2, <2>3, <2>5
    <3>2. CASE k # k0
      BY <3>2, <2>5 DEF LedgerInv, RowShape
    <3> QED
      BY <3>1, <3>2
  <2> QED
    BY <2>1, <2>2, <2>3, <2>5, <2>6 DEF SafeWrite
<1> QED
  BY <1>1, <1>2

\* Giving the claim up is safe.
LEMMA ReleaseWrites ==
  ASSUME LedgerInv, NEW r \in Requests, ClearOwner(r)
  PROVE  SafeWrite(r)
<1>1. CASE ~Owns(r)
  BY <1>1, NoWrite DEF ClearOwner
<1>2. CASE Owns(r)
  <2> DEFINE k0 == KeyOf(r)
             row == [ledger[k0] EXCEPT !.owner = Nobody]
  <2>1. k0 \in Keys
    BY DEF LedgerInv, TypeOK, Command, KeyOf
  <2>2. /\ ledger[k0] \in Row
        /\ ledger[k0].status = "started" /\ ledger[k0].owner = r
    BY <1>2, <2>1 DEF Owns, LedgerInv, TypeOK
  <2>3. /\ row \in Row
        /\ row.status = ledger[k0].status /\ row.result = ledger[k0].result
        /\ row.hash = ledger[k0].hash
    BY <2>2 DEF Row
  <2>4. ledger' = [ledger EXCEPT ![k0] = row]
    BY <1>2, <2>1 DEF ClearOwner, LedgerInv, TypeOK
  <2> HIDE DEF row, k0
  <2>5. /\ ledger' \in [Keys -> Row]
        /\ ledger'[k0] = row
        /\ \A k \in Keys \ {k0} : ledger'[k] = ledger[k]
    BY <2>1, <2>3, <2>4 DEF LedgerInv, TypeOK
  <2>6. RowShape'
    <3> SUFFICES ASSUME NEW k \in Keys
                 PROVE  RowShape!(k)'
      BY DEF RowShape
    <3>1. CASE k = k0
      BY <3>1, <2>1, <2>2, <2>3, <2>5 DEF LedgerInv, RowShape
    <3>2. CASE k # k0
      BY <3>2, <2>5 DEF LedgerInv, RowShape
    <3> QED
      BY <3>1, <3>2
  <2> QED
    BY <2>1, <2>2, <2>3, <2>5, <2>6 DEF SafeWrite
<1> QED
  BY <1>1, <1>2

-----------------------------------------------------------------------------
(* One step of a request.                                                  *)

\* The workflow's table changes only by taking the update r sends.
SafeTake(r) ==
    \/ workflow' = workflow
    \/ /\ Holding(r)
       /\ workflow[KeyOf(r)] = NoHash
       /\ workflow' = [workflow EXCEPT ![KeyOf(r)] = HashOf(r)]

\* A step of r touches no other request.
Others(r) ==
    \A q \in Requests \ {r} :
        pc'[q] = pc[q] /\ raw'[q] = raw[q] /\ reply'[q] = reply[q]

\* The parts of the invariant that speak of r itself, after the step.
SelfOK(r) ==
    /\ Holding(r) =>
         /\ ledger[KeyOf(r)].status # "absent"
         /\ ledger[KeyOf(r)].hash = HashOf(r)
         /\ ledger[KeyOf(r)].owner = r \/ r \in overdue
    /\ pc[r] = "complete" =>
         raw[r] \in Answers /\ workflow[KeyOf(r)] = HashOf(r)
    /\ reply[r].kind \in {"ran", "replayed"} =>
         reply[r].body \in Answers /\ workflow[KeyOf(r)] = HashOf(r)
    /\ reply[r].kind = "replayed" =>
         /\ ledger[KeyOf(r)].status = "succeeded"
         /\ reply[r].body = ledger[KeyOf(r)].result

\* A step of r that writes the ledger and the workflow safely, and leaves the
\* other requests alone, preserves the invariant.
LEMMA SafeStep ==
  ASSUME LedgerInv, NEW r \in Requests, TypeOK', UNCHANGED <<cmd, overdue>>,
         SafeWrite(r), SafeTake(r), Others(r), SelfOK(r)'
  PROVE  LedgerInv'
<1>1. \A q \in Requests : KeyOf(q) \in Keys /\ HashOf(q) \in Hashes
                          /\ KeyOf(q)' = KeyOf(q) /\ HashOf(q)' = HashOf(q)
  BY DEF LedgerInv, TypeOK, Command, KeyOf, HashOf
<1>2. \A k \in Keys : workflow[k] # NoHash => workflow'[k] = workflow[k]
  BY <1>1 DEF SafeTake, LedgerInv, TypeOK
<1>3. HolderIsOwner'
  <2> SUFFICES ASSUME NEW q \in Requests, Holding(q)'
               PROVE  HolderIsOwner!(q)!2'
    BY DEF HolderIsOwner
  <2>1. CASE q = r
    BY <2>1 DEF SelfOK
  <2>2. CASE q # r
    BY <2>2, <1>1 DEF Others, Holding, SafeWrite, LedgerInv, HolderIsOwner
  <2> QED
    BY <2>1, <2>2
<1>4. TakenIsBound'
  <2> SUFFICES ASSUME NEW k \in Keys, workflow'[k] # NoHash
               PROVE  ledger'[k].status # "absent" /\ ledger'[k].hash = workflow'[k]
    BY DEF TakenIsBound
  <2>1. CASE workflow'[k] = workflow[k]
    BY <2>1 DEF LedgerInv, TakenIsBound, SafeWrite
  <2>2. CASE workflow'[k] # workflow[k]
    <3>1. k = KeyOf(r) /\ workflow'[k] = HashOf(r) /\ Holding(r)
      BY <2>2, <1>1 DEF SafeTake, LedgerInv, TypeOK
    <3> QED
      BY <3>1 DEF LedgerInv, HolderIsOwner, SafeWrite
  <2> QED
    BY <2>1, <2>2
<1>5. AnsweredIsTaken'
  <2> SUFFICES ASSUME NEW q \in Requests, pc'[q] = "complete"
               PROVE  raw'[q] \in Answers /\ workflow'[KeyOf(q)'] = HashOf(q)'
    BY DEF AnsweredIsTaken
  <2>1. CASE q = r
    BY <2>1 DEF SelfOK
  <2>2. CASE q # r
    BY <2>2, <1>1, <1>2, LedgerAssumption
    DEF LedgerAssumption, Others, LedgerInv, AnsweredIsTaken
  <2> QED
    BY <2>1, <2>2
<1>6. NoFalseSuccess'
  <2>1. ASSUME NEW k \in Keys, ledger'[k].status = "succeeded"
        PROVE  ledger'[k].result \in Answers /\ workflow'[k] = ledger'[k].hash
    <3>1. ledger'[k].result \in Answers /\ ledger'[k].hash \in Hashes
      BY <2>1 DEF SafeWrite, RowShape
    <3>2. workflow[k] = ledger'[k].hash
      BY <2>1 DEF SafeWrite, LedgerInv, NoFalseSuccess
    <3> QED
      BY <3>1, <3>2, <1>2, LedgerAssumption DEF LedgerAssumption
  <2>2. ASSUME NEW q \in Requests, reply'[q].kind \in {"ran", "replayed"}
        PROVE  reply'[q].body \in Answers /\ workflow'[KeyOf(q)'] = HashOf(q)'
    <3>1. CASE q = r
      BY <2>2, <3>1 DEF SelfOK
    <3>2. CASE q # r
      BY <2>2, <3>2, <1>1, <1>2, LedgerAssumption
      DEF LedgerAssumption, Others, LedgerInv, NoFalseSuccess
    <3> QED
      BY <3>1, <3>2
  <2> QED
    BY <2>1, <2>2 DEF NoFalseSuccess
<1>7. ReplayIsStored'
  <2> SUFFICES ASSUME NEW q \in Requests, reply'[q].kind = "replayed"
               PROVE  ReplayIsStored!(q)!2'
    BY DEF ReplayIsStored
  <2>1. CASE q = r
    BY <2>1 DEF SelfOK
  <2>2. CASE q # r
    BY <2>2, <1>1 DEF Others, LedgerInv, ReplayIsStored, SafeWrite
  <2> QED
    BY <2>1, <2>2
<1> QED
  BY <1>3, <1>4, <1>5, <1>6, <1>7 DEF LedgerInv, SafeWrite

\* The steps that touch neither the ledger nor the workflow.
LEMMA QuietSteps ==
  ASSUME LedgerInv, NEW r \in Requests,
         \/ Admit(r) \/ GetFails(r) \/ ClaimRefused(r)
         \/ CheckPasses(r) \/ CheckFails(r) \/ Retry(r) \/ Crash(r)
  PROVE  LedgerInv'
<1> USE DEF LedgerInv
<1>1. UNCHANGED <<cmd, raw, ledger, overdue, workflow, closed>>
  BY DEF Admit, GetFails, ClaimRefused, CheckPasses, CheckFails, Retry, Crash
<1>2. SafeWrite(r) /\ SafeTake(r)
  BY <1>1, NoWrite DEF SafeTake
<1>3. KeyOf(r) \in Keys /\ KeyOf(r)' = KeyOf(r) /\ HashOf(r)' = HashOf(r)
  BY <1>1 DEF TypeOK, Command, KeyOf, HashOf
<1>4. \E step \in {"new", "claim", "send", "release", "answered", "dead"} :
        /\ pc' = [pc EXCEPT ![r] = step]
        /\ Holding(r)' => Holding(r)
        /\ pc'[r] # "complete"
  BY DEF Admit, GetFails, ClaimRefused, CheckPasses, CheckFails, Retry, Crash,
         AnswerWith, Goto, Holding, HoldingSteps, TypeOK
<1>5. \/ reply' = reply
      \/ \E kind \in {"none", "conflict", "in_progress", "closed", "failed"} :
           reply' = [reply EXCEPT ![r] = Told(kind, NoAnswer)]
      \/ /\ reply' = [reply EXCEPT ![r] = Told("replayed", ledger[KeyOf(r)].result)]
         /\ ledger[KeyOf(r)].hash = HashOf(r)
         /\ ledger[KeyOf(r)].status = "succeeded"
  BY DEF Admit, GetFails, ClaimRefused, CheckPasses, CheckFails, Retry, Crash,
         AnswerWith
<1>6. ledger[KeyOf(r)].status = "succeeded" =>
         /\ ledger[KeyOf(r)].result \in Answers
         /\ workflow[KeyOf(r)] = ledger[KeyOf(r)].hash
  BY <1>3 DEF NoFalseSuccess
<1>7. reply' \in [Requests -> Reply] /\ \A q \in Requests \ {r} : reply'[q] = reply[q]
  BY <1>5, <1>6 DEF TypeOK, Reply, Told
<1>8. TypeOK'
  BY <1>1, <1>4, <1>7 DEF TypeOK, HoldingSteps
<1>9. Others(r)
  BY <1>1, <1>4, <1>7 DEF Others, TypeOK
<1>10. SelfOK(r)'
  <2>1. Holding(r)' =>
          /\ ledger'[KeyOf(r)'].status # "absent"
          /\ ledger'[KeyOf(r)'].hash = HashOf(r)'
          /\ ledger'[KeyOf(r)'].owner = r \/ r \in overdue'
    BY <1>1, <1>3, <1>4 DEF HolderIsOwner
  <2>2. reply'[r].kind \in {"ran", "replayed"} =>
          reply'[r].body \in Answers /\ workflow'[KeyOf(r)'] = HashOf(r)'
    BY <1>1, <1>3, <1>5, <1>6 DEF Told, TypeOK, NoFalseSuccess
  <2>3. reply'[r].kind = "replayed" =>
          /\ ledger'[KeyOf(r)'].status = "succeeded"
          /\ reply'[r].body = ledger'[KeyOf(r)'].result
    BY <1>1, <1>3, <1>5 DEF Told, TypeOK, ReplayIsStored
  <2> QED
    BY <2>1, <2>2, <2>3, <1>4 DEF SelfOK
<1> QED
  BY <1>1, <1>2, <1>8, <1>9, <1>10, SafeStep

\* The steps of a request that call the ledger or the workflow.
LEMMA CallingSteps ==
  ASSUME LedgerInv, NEW r \in Requests,
         \/ ClaimCommand(r) \/ ClaimFails(r)
         \/ \E body \in Answers : SendAccepted(r, body)
         \/ SendFails(r) \/ CompleteCommand(r) \/ CompleteFails(r)
         \/ ReleaseCommand(r)
  PROVE  LedgerInv'
<1> USE DEF LedgerInv
<1>1. UNCHANGED <<cmd, overdue, closed>>
  BY DEF ClaimCommand, ClaimFails, SendAccepted, SendFails, CompleteCommand,
         CompleteFails, ReleaseCommand
<1>2. KeyOf(r) \in Keys /\ HashOf(r) \in Hashes
      /\ KeyOf(r)' = KeyOf(r) /\ HashOf(r)' = HashOf(r)
  BY <1>1 DEF TypeOK, Command, KeyOf, HashOf
<1>3. SafeWrite(r)
  BY NoWrite, ClaimWrites, StoreWrites, ReleaseWrites
  DEF ClaimCommand, ClaimFails, SendAccepted, SendFails, CompleteCommand,
      CompleteFails, ReleaseCommand
<1>4. SafeTake(r)
  BY DEF ClaimCommand, ClaimFails, SendAccepted, SendFails, CompleteCommand,
         CompleteFails, ReleaseCommand, Take, SafeTake, Holding, HoldingSteps
<1>5. \E step \in {"check", "complete", "release", "answered"} :
        pc' = [pc EXCEPT ![r] = step]
  BY DEF ClaimCommand, ClaimFails, SendAccepted, SendFails, CompleteCommand,
         CompleteFails, ReleaseCommand, AnswerWith, Goto
<1>6. \/ reply' = reply
      \/ reply' = [reply EXCEPT ![r] = Told("failed", NoAnswer)]
      \/ pc[r] = "complete" /\ reply' = [reply EXCEPT ![r] = Told("ran", raw[r])]
  BY DEF ClaimCommand, ClaimFails, SendAccepted, SendFails, CompleteCommand,
         CompleteFails, ReleaseCommand, AnswerWith
<1>7. raw' = raw \/ \E body \in Answers : raw' = [raw EXCEPT ![r] = body]
  BY DEF ClaimCommand, ClaimFails, SendAccepted, SendFails, CompleteCommand,
         CompleteFails, ReleaseCommand
<1>8. TypeOK'
  <2>1. workflow' \in [Keys -> Hashes \cup {NoHash}]
    BY <1>2, <1>4 DEF SafeTake, TypeOK
  <2>2. reply' \in [Requests -> Reply]
    BY <1>6 DEF TypeOK, Reply, Told
  <2>3. raw' \in [Requests -> Answers \cup {NoAnswer}]
    BY <1>7 DEF TypeOK
  <2> QED
    BY <1>1, <1>3, <1>5, <2>1, <2>2, <2>3 DEF TypeOK, SafeWrite, HoldingSteps
<1>9. Others(r)
  BY <1>5, <1>6, <1>7 DEF Others, TypeOK
<1>10. SelfOK(r)'
  <2>1. Holding(r)' =>
          /\ ledger'[KeyOf(r)].status # "absent"
          /\ ledger'[KeyOf(r)].hash = HashOf(r)
          /\ ledger'[KeyOf(r)].owner = r \/ r \in overdue
    <3>1. CASE ClaimCommand(r)
      <4>1. ledger'[KeyOf(r)] = [status |-> "started", hash |-> HashOf(r),
                                 owner |-> r, result |-> NoAnswer]
        BY <3>1, ClaimWrites DEF ClaimCommand
      <4> QED
        BY <4>1
    <3>2. CASE (\E body \in Answers : SendAccepted(r, body)) \/ SendFails(r)
      BY <3>2, <1>2 DEF SendAccepted, SendFails, HolderIsOwner, Holding,
                        HoldingSteps
    <3>3. CASE CompleteFails(r)
      <4>1. Holding(r) /\ (StoreResult(r) \/ UNCHANGED ledger)
        BY <3>3 DEF CompleteFails, Holding, HoldingSteps
      <4>2. ledger'[KeyOf(r)].owner = ledger[KeyOf(r)].owner
        BY <4>1, <1>2 DEF StoreResult, TypeOK, Row
      <4> QED
        BY <4>1, <4>2, <1>2, <1>3 DEF HolderIsOwner, SafeWrite
    <3>4. CASE ClaimFails(r) \/ CompleteCommand(r) \/ ReleaseCommand(r)
      BY <3>4 DEF ClaimFails, CompleteCommand, ReleaseCommand, AnswerWith, Goto,
                  Holding, HoldingSteps, TypeOK
    <3> QED
      BY <3>1, <3>2, <3>3, <3>4
  <2>2. pc'[r] = "complete" =>
          raw'[r] \in Answers /\ workflow'[KeyOf(r)] = HashOf(r)
    <3> SUFFICES ASSUME pc'[r] = "complete"
                 PROVE  raw'[r] \in Answers /\ workflow'[KeyOf(r)] = HashOf(r)
      OBVIOUS
    <3>1. \E body \in Answers : SendAccepted(r, body)
      BY DEF ClaimCommand, ClaimFails, SendFails, CompleteCommand, CompleteFails,
             ReleaseCommand, AnswerWith, Goto, TypeOK
    <3>2. ledger[KeyOf(r)].hash = HashOf(r)
      BY <3>1 DEF SendAccepted, HolderIsOwner, Holding, HoldingSteps
    <3> QED
      BY <3>1, <3>2, <1>2 DEF SendAccepted, Take, TypeOK, TakenIsBound
  <2>3. reply'[r].kind \in {"ran", "replayed"} =>
          reply'[r].body \in Answers /\ workflow'[KeyOf(r)] = HashOf(r)
    <3>1. workflow[KeyOf(r)] = HashOf(r) => workflow'[KeyOf(r)] = HashOf(r)
      BY <1>2, <1>4, LedgerAssumption DEF SafeTake, TypeOK, LedgerAssumption
    <3> QED
      BY <3>1, <1>6 DEF Told, TypeOK, NoFalseSuccess, AnsweredIsTaken
  <2>4. reply'[r].kind = "replayed" =>
          /\ ledger'[KeyOf(r)].status = "succeeded"
          /\ reply'[r].body = ledger'[KeyOf(r)].result
    BY <1>2, <1>3, <1>6 DEF Told, TypeOK, ReplayIsStored, SafeWrite
  <2> QED
    BY <1>1, <1>2, <2>1, <2>2, <2>3, <2>4 DEF SelfOK
<1> QED
  BY <1>1, <1>3, <1>4, <1>8, <1>9, <1>10, SafeStep

-----------------------------------------------------------------------------
(* The invariant.                                                          *)

\* Before the first request the table, the workflow and the requests are empty.
LEMMA InitInv == Init => LedgerInv
<1> SUFFICES ASSUME Init PROVE LedgerInv
  OBVIOUS
<1> USE LedgerAssumption DEF LedgerAssumption, Init
<1>1. TypeOK
  BY DEF TypeOK, Row, NoRow, Reply, Told
<1>2. RowShape
  BY DEF RowShape, NoRow
<1>3. HolderIsOwner /\ AnsweredIsTaken
  BY DEF HolderIsOwner, AnsweredIsTaken, Holding, HoldingSteps
<1>4. TakenIsBound
  BY DEF TakenIsBound
<1>5. NoFalseSuccess /\ ReplayIsStored
  BY DEF NoFalseSuccess, ReplayIsStored, NoRow, Told
<1> QED
  BY <1>1, <1>2, <1>3, <1>4, <1>5 DEF LedgerInv

\* No step of a request, of the clock or of the task breaks the invariant.
LEMMA NextInv == LedgerInv /\ [Next]_vars => LedgerInv'
<1> SUFFICES ASSUME LedgerInv, [Next]_vars PROVE LedgerInv'
  OBVIOUS
<1>1. ASSUME NEW r \in Requests, Step(r) \/ Retry(r) \/ Crash(r)
      PROVE  LedgerInv'
  BY <1>1, QuietSteps, CallingSteps DEF Step
<1>2. ASSUME NEW r \in Requests, LeasePasses(r) PROVE LedgerInv'
  <2>1. UNCHANGED <<cmd, pc, raw, reply, ledger, workflow, closed>>
        /\ overdue' = overdue \cup {r}
    BY <1>2 DEF LeasePasses
  <2> QED
    BY <2>1 DEF LedgerInv, TypeOK, RowShape, HolderIsOwner, TakenIsBound,
                AnsweredIsTaken, NoFalseSuccess, ReplayIsStored, Holding,
                KeyOf, HashOf
<1>3. CASE CloseTask
  BY <1>3 DEF CloseTask, LedgerInv, TypeOK, RowShape, HolderIsOwner,
              TakenIsBound, AnsweredIsTaken, NoFalseSuccess, ReplayIsStored,
              Holding, KeyOf, HashOf
<1>4. CASE UNCHANGED vars
  BY <1>4 DEF vars, LedgerInv, TypeOK, RowShape, HolderIsOwner,
              TakenIsBound, AnsweredIsTaken, NoFalseSuccess, ReplayIsStored,
              Holding, KeyOf, HashOf
<1> QED
  BY <1>1, <1>2, <1>3, <1>4 DEF Next

\* The inductive invariant of the command path holds at all times; every theorem
\* about commands.go below follows from it.
THEOREM LedgerInvariant == Spec => []LedgerInv
BY InitInv, NextInv, PTL DEF Spec

\* Type correctness of the command path, for any number of requests.
THEOREM TypeCorrect == Spec => []TypeOK
<1>1. LedgerInv => TypeOK
  BY DEF LedgerInv
<1> QED
  BY <1>1, LedgerInvariant, PTL

\* Mutual exclusion within the lease (commands.go:40-66): two requests run
\* one command at once only if one of them outlived its lease.
THEOREM Exclusion == Spec => []LeaseExclusive
<1>1. LedgerInv => LeaseExclusive
  BY DEF LedgerInv, HolderIsOwner, LeaseExclusive
<1> QED
  BY <1>1, LedgerInvariant, PTL

\* One command id, one payload, in the ledger, in the workflow and in every
\* request that runs it (commands.go:37).
THEOREM SingleMeaning == Spec => []OneMeaning
<1>1. LedgerInv => OneMeaning
  BY DEF LedgerInv, HolderIsOwner, TakenIsBound, OneMeaning
<1> QED
  BY <1>1, LedgerInvariant, PTL

\* No success is stored or told unless the workflow took the caller's payload.
THEOREM HonestSuccess == Spec => []NoFalseSuccess
<1>1. LedgerInv => NoFalseSuccess
  BY DEF LedgerInv
<1> QED
  BY <1>1, LedgerInvariant, PTL

\* What was replayed is what the ledger holds from then on.
THEOREM StableReplay == Spec => []ReplayIsStored
<1>1. LedgerInv => ReplayIsStored
  BY DEF LedgerInv
<1> QED
  BY <1>1, LedgerInvariant, PTL

-----------------------------------------------------------------------------
(* The ledger implements the command register.                             *)

\* The claim binds a fresh key, and leaves the register alone on a takeover.
LEMMA ClaimRefines ==
  ASSUME LedgerInv, NEW r \in Requests, CanClaim(r), ledger' = OwnRow(r),
         UNCHANGED workflow
  PROVE  Once!Next \/ UNCHANGED Once!vars
<1> DEFINE k0 == KeyOf(r)
<1>1. k0 \in Keys /\ HashOf(r) \in Hashes /\ ledger \in [Keys -> Row]
  BY DEF LedgerInv, TypeOK, Command, KeyOf, HashOf
<1>2. /\ ledger'[k0].hash = HashOf(r) /\ ledger'[k0].result = NoAnswer
      /\ \A k \in Keys \ {k0} : ledger'[k] = ledger[k]
  BY <1>1 DEF OwnRow
<1>3. ledger[k0].result = NoAnswer
  <2>1. ledger[k0].status # "succeeded" /\ ledger[k0] \in Row
    BY <1>1 DEF CanClaim, Claimable
  <2> QED
    BY <2>1, <1>1 DEF LedgerInv, RowShape, Row
<1>4. [k \in Keys |-> ledger'[k].result] = [k \in Keys |-> ledger[k].result]
  BY <1>2, <1>3
<1>5. CASE ledger[k0].status = "absent"
  <2>1. ledger[k0].hash = NoHash
    BY <1>1, <1>5 DEF LedgerInv, RowShape, NoRow
  <2>2. [k \in Keys |-> ledger'[k].hash]
          = [[k \in Keys |-> ledger[k].hash] EXCEPT ![k0] = HashOf(r)]
    BY <1>1, <1>2
  <2>3. Once!Bind(k0, HashOf(r))
    BY <1>1, <1>4, <2>1, <2>2 DEF Once!Bind
  <2> QED
    BY <1>1, <2>3 DEF Once!Next, Once!Bind, Once!Execute, Once!Record
<1>6. CASE ledger[k0].status # "absent"
  <2>1. ledger[k0].hash = HashOf(r)
    BY <1>6 DEF CanClaim
  <2>2. [k \in Keys |-> ledger'[k].hash] = [k \in Keys |-> ledger[k].hash]
    BY <1>2, <2>1
  <2> QED
    BY <1>4, <2>2 DEF Once!vars
<1> QED
  BY <1>5, <1>6

\* A send executes the command the key is bound to, once.
LEMMA TakeRefines ==
  ASSUME LedgerInv, NEW r \in Requests, pc[r] = "send", Take(r),
         UNCHANGED ledger
  PROVE  Once!Next \/ UNCHANGED Once!vars
<1> DEFINE k0 == KeyOf(r)
<1>1. k0 \in Keys /\ HashOf(r) \in Hashes /\ ledger[k0].hash = HashOf(r)
  BY DEF LedgerInv, TypeOK, Command, KeyOf, HashOf, HolderIsOwner, Holding,
         HoldingSteps
<1>2. CASE workflow[k0] = NoHash
  <2>1. workflow' = [workflow EXCEPT ![k0] = HashOf(r)]
    BY <1>2 DEF Take
  <2>2. [k \in Keys |-> workflow'[k] # NoHash]
          = [[k \in Keys |-> workflow[k] # NoHash] EXCEPT ![k0] = TRUE]
    BY <1>1, <2>1, LedgerAssumption DEF LedgerInv, TypeOK, LedgerAssumption
  <2>3. Once!Execute(k0)
    BY <1>1, <1>2, <2>2, LedgerAssumption DEF Once!Execute, LedgerAssumption
  <2> QED
    BY <1>1, <2>3 DEF Once!Next, Once!Bind, Once!Execute, Once!Record
<1>3. CASE workflow[k0] # NoHash
  BY <1>3 DEF Take, Once!vars
<1> QED
  BY <1>2, <1>3

\* The answer is recorded once, for a command that was executed.
LEMMA StoreRefines ==
  ASSUME LedgerInv, NEW r \in Requests, pc[r] = "complete", StoreResult(r),
         UNCHANGED workflow
  PROVE  Once!Next \/ UNCHANGED Once!vars
<1> DEFINE k0 == KeyOf(r)
<1>1. /\ k0 \in Keys /\ raw[r] \in Answers /\ ledger \in [Keys -> Row]
      /\ workflow[k0] # NoHash
  BY LedgerAssumption
  DEF LedgerInv, TypeOK, Command, KeyOf, HashOf, AnsweredIsTaken, LedgerAssumption
<1>2. CASE Owns(r)
  <2>1. ledger[k0].result = NoAnswer
    BY <1>1, <1>2 DEF Owns, LedgerInv, RowShape, Row
  <2>2. /\ ledger'[k0].hash = ledger[k0].hash /\ ledger'[k0].result = raw[r]
        /\ \A k \in Keys \ {k0} : ledger'[k] = ledger[k]
    BY <1>1, <1>2 DEF StoreResult, Row
  <2>3. [k \in Keys |-> ledger'[k].hash] = [k \in Keys |-> ledger[k].hash]
    BY <2>2
  <2>4. [k \in Keys |-> ledger'[k].result]
          = [[k \in Keys |-> ledger[k].result] EXCEPT ![k0] = raw[r]]
    BY <1>1, <2>2
  <2>5. Once!Record(k0, raw[r])
    BY <1>1, <2>1, <2>3, <2>4 DEF Once!Record
  <2> QED
    BY <1>1, <2>5 DEF Once!Next, Once!Bind, Once!Execute, Once!Record
<1>3. CASE ~Owns(r)
  BY <1>3 DEF StoreResult, Once!vars
<1> QED
  BY <1>2, <1>3

\* A release is invisible in the register.
LEMMA ReleaseRefines ==
  ASSUME LedgerInv, NEW r \in Requests, ClearOwner(r), UNCHANGED workflow
  PROVE  UNCHANGED Once!vars
<1> DEFINE k0 == KeyOf(r)
<1>1. k0 \in Keys /\ ledger \in [Keys -> Row]
  BY DEF LedgerInv, TypeOK, Command, KeyOf
<1>2. \A k \in Keys : ledger'[k].hash = ledger[k].hash
                      /\ ledger'[k].result = ledger[k].result
  BY <1>1 DEF ClearOwner, Row
<1> QED
  BY <1>2 DEF Once!vars

\* Every step of the command path is a step of the register or leaves it alone.
LEMMA StepRefines == LedgerInv /\ [Next]_vars => [Once!Next]_(Once!vars)
<1> SUFFICES ASSUME LedgerInv, [Next]_vars
             PROVE  Once!Next \/ UNCHANGED Once!vars
  OBVIOUS
<1>1. CASE UNCHANGED <<ledger, workflow>>
  BY <1>1 DEF Once!vars
<1>2. ASSUME NEW r \in Requests, Step(r) \/ Retry(r) \/ Crash(r) \/ LeasePasses(r)
      PROVE  Once!Next \/ UNCHANGED Once!vars
  <2>1. CASE ClaimCommand(r) \/ ClaimFails(r)
    BY <2>1, <1>1, ClaimRefines DEF ClaimCommand, ClaimFails
  <2>2. CASE (\E body \in Answers : SendAccepted(r, body)) \/ SendFails(r)
    BY <2>2, <1>1, TakeRefines DEF SendAccepted, SendFails
  <2>3. CASE CompleteCommand(r) \/ CompleteFails(r)
    BY <2>3, <1>1, StoreRefines DEF CompleteCommand, CompleteFails
  <2>4. CASE ReleaseCommand(r)
    BY <2>4, <1>1, ReleaseRefines DEF ReleaseCommand
  <2>5. CASE \/ Admit(r) \/ GetFails(r) \/ ClaimRefused(r) \/ CheckPasses(r)
             \/ CheckFails(r) \/ Retry(r) \/ Crash(r) \/ LeasePasses(r)
    BY <2>5, <1>1 DEF Admit, GetFails, ClaimRefused, CheckPasses, CheckFails,
                      Retry, Crash, LeasePasses
  <2> QED
    BY <1>2, <2>1, <2>2, <2>3, <2>4, <2>5 DEF Step
<1>3. CASE CloseTask \/ UNCHANGED vars
  BY <1>3, <1>1 DEF CloseTask, vars
<1> QED
  BY <1>2, <1>3 DEF Next

\* The command path implements CommandOnce: bound once, executed at most once,
\* answered at most once, whatever replicas crash, stall and take over.
THEOREM Refinement == Spec => ImplementsOnce
<1>1. Init => Once!Init
  <2> SUFFICES ASSUME Init PROVE Once!Init
    OBVIOUS
  <2>1. \A k \in Keys : ledger[k].hash = NoHash /\ ledger[k].result = NoAnswer
    BY DEF Init, NoRow
  <2>2. \A k \in Keys : (workflow[k] # NoHash) = FALSE
    BY DEF Init
  <2> QED
    BY <2>1, <2>2 DEF Once!Init
<1> QED
  BY <1>1, StepRefines, LedgerInvariant, PTL DEF Spec, Once!Spec, ImplementsOnce

=============================================================================
