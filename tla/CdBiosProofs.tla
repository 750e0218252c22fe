---------------------------- MODULE CdBiosProofs ----------------------------
(***************************************************************************)
(* Every step of the game, of the drive and of the disk task keeps the     *)
(* invariant IInv of CdBiosInv, for any disk, any lengths of files and     *)
(* stages, any number of requests and faults, and any cycle of retries.    *)
(* There is a lemma for each action, with a step for each part of IInv;    *)
(* the theorems are at the end.                                            *)
(***************************************************************************)
EXTENDS CdBiosInv, TLAPS

USE DEF vars, taskVars, flagVars, mainVars, diskVars, gameVars, unlessMain,
        Sector, Place, State, Kind, Endless, Request, At, Goto, Fault,
        CDBIOS_Stop, CDBIOS_Error, OnTrack, Heard, ReadN, Refuse, Wanted,
        Label, Waits, Starting, Unread, Blocked, BlockedLong, Finished, CallbackOf

\* The part of the types that is about truth values.
Switches == /\ start_flag \in BOOLEAN /\ stop_flag \in BOOLEAN
            /\ ready \in BOOLEAN /\ reading \in BOOLEAN
            /\ ended \in BOOLEAN /\ loose \in BOOLEAN /\ torn \in BOOLEAN

-----------------------------------------------------------------------------
(* Requests *)

LEMMA NoRequestFacts ==
  /\ NoRequest \in Request /\ NoRequest.kind = "file" /\ NoRequest.id = 0
  /\ NoRequest.first = 1 /\ NoRequest.length \in Length
<1>1. PICK n : n \in Length
  BY DiskAssumption
<1>2. (CHOOSE m \in Length : TRUE) \in Length
  BY <1>1
<1> QED BY <1>2, DiskAssumption DEF NoRequest

LEMMA LengthFacts == \A n \in Length : n \in Nat /\ n >= 1 /\ n <= Last
<1>1. SUFFICES ASSUME NEW n \in Length PROVE n \in 1 .. Last
  BY DiskAssumption
<1> QED BY DiskAssumption

LEMMA RequestFacts ==
  ASSUME NEW r \in Request
  PROVE  /\ r.id \in Nat /\ r.kind \in Kind
         /\ r.first \in Nat /\ r.first >= 1 /\ r.first <= Last
         /\ r.length \in Nat /\ r.length >= 1 /\ r.length <= Endless
<1>1. r.id \in 0 .. MaxRequests /\ r.kind \in Kind /\ r.first \in 1 .. Last
  OBVIOUS
<1>2. r.length \in Length \cup {Endless}
  OBVIOUS
<1>3. \A n \in Length \cup {Endless} : n \in Nat /\ n >= 1 /\ n <= Endless
  BY LengthFacts, DiskAssumption
<1>4. r.length \in Nat /\ r.length >= 1 /\ r.length <= Endless
  BY <1>2, <1>3, Zenon
<1>5. r.id \in Nat /\ r.first \in Nat /\ r.first >= 1 /\ r.first <= Last
  BY <1>1, DiskAssumption
<1> QED BY <1>1, <1>4, <1>5

LEMMA CallbackFacts ==
  ASSUME NEW r \in Request
  PROVE  /\ CallbackOf(r) \in Request /\ CallbackOf(r).kind = r.kind
         /\ r.kind # "file" => CallbackOf(r) = r
BY NoRequestFacts

-----------------------------------------------------------------------------
(* The initial state, and a step that changes nothing *)

LEMMA InitEstablishes == Init => IInv
<1> SUFFICES ASSUME Init PROVE IInv
  OBVIOUS
<1> USE NoRequestFacts, DiskAssumption DEF Init
<1>0. Switches BY Zenon DEF Switches
<1>1. Typed BY <1>0 DEF Typed, TypeOK, Switches
<1>2. Asked /\ Described BY DEF Asked, Described
<1>3. Seen BY DEF Seen
<1>4. Silent BY DEF Silent
<1>5. Erring BY DEF Erring
<1>6. Idling BY DEF Idling
<1>7. Finishing BY DEF Finishing
<1> QED BY <1>1, <1>2, <1>3, <1>4, <1>5, <1>6, <1>7 DEF IInv, Sound

LEMMA StutterKeeps == IInv /\ UNCHANGED vars => IInv'
<1> SUFFICES ASSUME IInv, UNCHANGED vars PROVE IInv'
  OBVIOUS
<1>1. Typed' BY DEF IInv, Typed, TypeOK
<1>2. Asked' /\ (torn \/ Described') BY DEF IInv, Asked, Sound, Described
<1>3. torn \/ Seen' BY DEF IInv, Sound, Seen
<1>4. Silent' BY DEF IInv, Silent
<1>5. torn \/ Erring' BY DEF IInv, Sound, Erring
<1>6. torn \/ Idling' BY DEF IInv, Sound, Idling
<1>7. torn \/ Finishing' BY DEF IInv, Sound, Finishing
<1> QED BY <1>1, <1>2, <1>3, <1>4, <1>5, <1>6, <1>7 DEF IInv, Sound

\* What a caller has stored is disturbed by the callers and by a sector alone.
LEMMA DescribedKept ==
  ASSUME IInv, UNCHANGED <<sector, buffer, remaining, sectors_delivered, callback, gameVars>>
  PROVE  Asked' /\ (torn \/ Described')
BY DEF IInv, Asked, Sound, Described

-----------------------------------------------------------------------------
(* The game *)

LEMMA RequestAsked ==
  ASSUME IInv, NEW k \in Kind, NEW first \in Sector, NEW n \in Length, Ask(k, first, n)
  PROVE  /\ req' \in Request /\ req'.kind = k /\ req'.id = req.id + 1
         /\ req'.length = IF k = "stream" THEN Endless ELSE n
BY DiskAssumption DEF Ask, IInv, Typed, TypeOK

LEMMA AskStep ==
  ASSUME IInv, NEW k \in Kind, NEW first \in Sector, NEW n \in Length, Ask(k, first, n)
  PROVE  IInv'
<1> USE DiskAssumption DEF Ask
<1>0. /\ req' \in Request /\ req'.kind = k /\ req'.id = req.id + 1
      /\ req'.length = IF k = "stream" THEN Endless ELSE n
  BY RequestAsked
<1>1. Typed'
  <2>1. Switches BY DEF IInv, Typed, TypeOK, Switches
  <2>2. loose' \in BOOLEAN BY Zenon
  <2>3. Switches' BY <2>1, <2>2, Zenon DEF Switches
  <2> QED BY <1>0, <2>3 DEF IInv, Typed, TypeOK, Switches
<1>2. Asked' /\ Described' BY <1>0 DEF IInv, Asked, Described, Typed, TypeOK
<1>3. Seen' /\ Silent' BY DEF IInv, Seen, Silent
<1>4. Erring' BY DEF Erring
<1>5. torn => loose' BY Zenon
<1>6. ASSUME ~loose' PROVE Finished /\ Finishing /\ ~torn
  <2>1. ~torn /\ ~(phase = "stopped" /\ ~ended)
    BY <1>6, Zenon
  <2>2. phase \in {"wanted", "over", "stopped"}
    BY DEF IInv, Typed, TypeOK
  <2>3. Finished
    BY <2>1, <2>2 DEF MayRequest
  <2> QED BY <2>1, <2>3 DEF IInv, Sound
<1>7. Idling'
  <2>1. state = "idle" => ~ready \/ loose'
    BY <1>6 DEF Finishing
  <2> QED BY <2>1 DEF Idling
<1>8. Finishing' BY <1>6 DEF Finishing
<1> QED BY <1>1, <1>2, <1>3, <1>4, <1>7, <1>8 DEF IInv, Sound

LEMMA ReadRequestStep == ASSUME IInv, ReadRequest PROVE IInv'
<1> USE DiskAssumption DEF ReadRequest
<1> USE DEF StoreBuffer, StoreRemaining, StoreSector, StoreCallback, StoreFlags
<1>3. torn \/ Seen' BY DEF IInv, Asked, Sound, Seen, Typed, TypeOK
<1>4. Silent' BY DEF IInv, Silent, Typed, TypeOK
<1>5. torn \/ Erring' BY DEF IInv, Asked, Sound, Erring, Typed, TypeOK
<1>6. torn \/ Idling' BY DEF IInv, Asked, Sound, Idling, Typed, TypeOK
<1>7. CASE StoreBuffer
  <2> USE <1>7
  <2>2. Typed' BY DEF IInv, Typed, TypeOK
  <2>3. Asked' /\ (torn \/ Described') BY DEF IInv, Asked, Sound, Described, Typed, TypeOK
  <2>4. torn \/ Finishing' BY DEF IInv, Asked, Sound, Finishing
  <2> QED BY <2>2, <2>3, <2>4, <1>3, <1>4, <1>5, <1>6 DEF IInv, Sound
<1>8. CASE StoreRemaining
  <2> USE <1>8
  <2>1. remaining' \in 0 .. Endless BY DEF IInv, Typed, TypeOK
  <2>2. Typed' BY <2>1 DEF IInv, Typed, TypeOK
  <2>3. Asked' /\ (torn \/ Described') BY DEF IInv, Asked, Sound, Described, Typed, TypeOK
  <2>4. torn \/ Finishing' BY DEF IInv, Asked, Sound, Finishing
  <2> QED BY <2>2, <2>3, <2>4, <1>3, <1>4, <1>5, <1>6 DEF IInv, Sound
<1>9. CASE StoreSector
  <2> USE <1>9
  <2>2. Typed' BY DEF IInv, Typed, TypeOK
  <2>3. Asked' /\ (torn \/ Described') BY DEF IInv, Asked, Sound, Described, Typed, TypeOK
  <2>4. torn \/ Finishing' BY DEF IInv, Asked, Sound, Finishing
  <2> QED BY <2>2, <2>3, <2>4, <1>3, <1>4, <1>5, <1>6 DEF IInv, Sound
<1>10. CASE StoreCallback
  <2> USE <1>10
  <2>2. Typed' BY NoRequestFacts DEF IInv, Typed, TypeOK
  <2>3. Asked' /\ (torn \/ Described') BY DEF IInv, Asked, Sound, Described, Typed, TypeOK
  <2>4. torn \/ Finishing' BY DEF IInv, Asked, Sound, Finishing
  <2> QED BY <2>2, <2>3, <2>4, <1>3, <1>4, <1>5, <1>6 DEF IInv, Sound
<1>11. CASE StoreFlags
  <2> USE <1>11
  <2>0. Switches BY DEF IInv, Typed, TypeOK, Switches
  <2>1. Switches' BY <2>0, Zenon DEF Switches
  <2>2. Typed' BY <2>1 DEF IInv, Typed, TypeOK, Switches
  <2>3. Asked' /\ (torn \/ Described') BY DEF IInv, Asked, Sound, Described, Typed, TypeOK
  <2>4. torn \/ Finishing' BY DEF IInv, Asked, Sound, Finishing, Described, Typed, TypeOK
  <2> QED BY <2>2, <2>3, <2>4, <1>3, <1>4, <1>5, <1>6 DEF IInv, Sound
<1> QED BY <1>7, <1>8, <1>9, <1>10, <1>11

LEMMA ForceStopStep == ASSUME IInv, ForceStop PROVE IInv'
<1> USE DiskAssumption DEF ForceStop
<1>1. Typed'
  <2>1. Switches BY DEF IInv, Typed, TypeOK, Switches
  <2>2. Switches' BY <2>1, Zenon DEF Switches
  <2> QED BY <2>2 DEF IInv, Typed, TypeOK, Switches
<1>2. Asked' /\ (torn \/ Described') BY DEF IInv, Asked, Sound, Described
<1>3. torn \/ Seen' BY DEF IInv, Asked, Sound, Seen, Typed, TypeOK
<1>4. Silent' BY DEF IInv, Silent, Typed, TypeOK
<1>5. torn \/ Erring' BY DEF IInv, Asked, Sound, Erring, Seen, Silent, Idling, Typed, TypeOK
<1>6. torn \/ Idling' BY DEF IInv, Asked, Sound, Idling, Erring, Seen, Silent, Typed, TypeOK
<1>7. torn \/ Finishing'
  BY DEF IInv, Asked, Sound, Finishing, Described, Erring, Idling, Seen, Silent, Typed, TypeOK
<1> QED BY <1>1, <1>2, <1>3, <1>4, <1>5, <1>6, <1>7 DEF IInv, Sound

-----------------------------------------------------------------------------
(* The drive *)

LEMMA UnheardStep == ASSUME IInv, Unheard PROVE IInv'
<1> USE DiskAssumption DEF Unheard
<1>1. Typed'
  <2>0. Switches BY DEF IInv, Typed, TypeOK, Switches
  <2>1. CASE ~(pos > Last)
    <3>1. pos' \in Place BY <2>1 DEF IInv, Typed, TypeOK
    <3>2. Switches' BY <2>0, <2>1, Zenon DEF Switches
    <3> QED BY <2>1, <3>1, <3>2 DEF IInv, Typed, TypeOK, Switches
  <2>2. CASE pos > Last
    <3>1. Switches' BY <2>0, <2>2, Zenon DEF Switches
    <3> QED BY <2>2, <3>1 DEF IInv, Typed, TypeOK, Switches
  <2> QED BY <2>1, <2>2
<1>2. Asked' /\ (torn \/ Described') BY DescribedKept
<1>3. torn \/ Seen' BY DEF IInv, Asked, Sound, Seen, Typed, TypeOK
<1>4. Silent' BY DEF IInv, Silent, Typed, TypeOK
<1>5. torn \/ Erring' BY DEF IInv, Asked, Sound, Erring, Seen, Silent, Idling, Typed, TypeOK
<1>6. torn \/ Idling' BY DEF IInv, Asked, Sound, Idling, Erring, Seen, Silent, Typed, TypeOK
<1>7. torn \/ Finishing'
  BY DEF IInv, Asked, Sound, Finishing, Described, Erring, Idling, Seen, Silent, Typed, TypeOK
<1> QED BY <1>1, <1>2, <1>3, <1>4, <1>5, <1>6, <1>7 DEF IInv, Sound

LEMMA StoppedStep == ASSUME IInv, Stopped PROVE IInv'
<1> USE DiskAssumption DEF Stopped
<1>1. Typed'
  <2>1. Switches BY DEF IInv, Typed, TypeOK, Switches
  <2>2. Switches' BY <2>1, Zenon DEF Switches
  <2> QED BY <2>2 DEF IInv, Typed, TypeOK, Switches
<1>2. Asked' /\ (torn \/ Described') BY DescribedKept
<1>3. torn \/ Seen' BY DEF IInv, Asked, Sound, Seen, Typed, TypeOK
<1>4. Silent' BY DEF IInv, Silent, Typed, TypeOK
<1>5. torn \/ Erring' BY DEF IInv, Asked, Sound, Erring, Seen, Silent, Idling, Typed, TypeOK
<1>6. torn \/ Idling' BY DEF IInv, Asked, Sound, Idling, Erring, Seen, Silent, Typed, TypeOK
<1>7. torn \/ Finishing'
  BY DEF IInv, Asked, Sound, Finishing, Described, Erring, Idling, Seen, Silent, Typed, TypeOK
<1> QED BY <1>1, <1>2, <1>3, <1>4, <1>5, <1>6, <1>7 DEF IInv, Sound

LEMMA EarlyStep == ASSUME IInv, Early PROVE IInv'
<1> USE DiskAssumption DEF Early
<1>1. Typed' BY DEF IInv, Typed, TypeOK
<1>2. Asked' /\ (torn \/ Described') BY DescribedKept
<1>3. torn \/ Seen' BY DEF IInv, Asked, Sound, Seen, Typed, TypeOK
<1>4. Silent' BY DEF IInv, Silent, Typed, TypeOK
<1>5. torn \/ Erring' BY DEF IInv, Asked, Sound, Erring, Seen, Silent, Idling, Typed, TypeOK
<1>6. torn \/ Idling' BY DEF IInv, Asked, Sound, Idling, Erring, Seen, Silent, Typed, TypeOK
<1>7. torn \/ Finishing'
  BY DEF IInv, Asked, Sound, Finishing, Described, Erring, Idling, Seen, Silent, Typed, TypeOK
<1> QED BY <1>1, <1>2, <1>3, <1>4, <1>5, <1>6, <1>7 DEF IInv, Sound

LEMMA SkippedStep == ASSUME IInv, Skipped PROVE IInv'
<1> USE DiskAssumption DEF Skipped
<1>1. Typed'
  <2>1. Switches BY DEF IInv, Typed, TypeOK, Switches
  <2>2. Switches' BY <2>1, Zenon DEF Switches
  <2> QED BY <2>2 DEF IInv, Typed, TypeOK, Switches
<1>2. Asked' /\ (torn \/ Described') BY DescribedKept
<1>3. torn \/ Seen' BY DEF IInv, Asked, Sound, Seen, Typed, TypeOK
<1>4. Silent' BY DEF IInv, Silent, Typed, TypeOK
<1>5. torn \/ Erring' BY DEF IInv, Asked, Sound, Erring, Seen, Silent, Idling, Typed, TypeOK
<1>6. torn \/ Idling' BY DEF IInv, Asked, Sound, Idling, Erring, Seen, Silent, Typed, TypeOK
<1>7. torn \/ Finishing'
  BY DEF IInv, Asked, Sound, Finishing, Described, Erring, Idling, Seen, Silent, Typed, TypeOK
<1> QED BY <1>1, <1>2, <1>3, <1>4, <1>5, <1>6, <1>7 DEF IInv, Sound

LEMMA LoseStep == ASSUME IInv, Lose PROVE IInv'
<1> USE DiskAssumption DEF Lose
<1>1. Typed'
  <2>0. Switches BY DEF IInv, Typed, TypeOK, Switches
  <2>1. CASE pos' = pos + 1 /\ UNCHANGED reading
    <3>1. pos' \in Place BY <2>1 DEF IInv, Typed, TypeOK
    <3>2. Switches' BY <2>0, <2>1, Zenon DEF Switches
    <3> QED BY <2>1, <3>1, <3>2 DEF IInv, Typed, TypeOK, Switches
  <2>2. CASE reading' = FALSE /\ UNCHANGED pos
    <3>1. Switches' BY <2>0, <2>2, Zenon DEF Switches
    <3> QED BY <2>2, <3>1 DEF IInv, Typed, TypeOK, Switches
  <2> QED BY <2>1, <2>2
<1>2. Asked' /\ (torn \/ Described') BY DescribedKept
<1>3. torn \/ Seen' BY DEF IInv, Asked, Sound, Seen, Typed, TypeOK
<1>4. Silent' BY DEF IInv, Silent, Typed, TypeOK
<1>5. torn \/ Erring' BY DEF IInv, Asked, Sound, Erring, Seen, Silent, Idling, Typed, TypeOK
<1>6. torn \/ Idling' BY DEF IInv, Asked, Sound, Idling, Erring, Seen, Silent, Typed, TypeOK
<1>7. torn \/ Finishing'
  BY DEF IInv, Asked, Sound, Finishing, Described, Erring, Idling, Seen, Silent, Typed, TypeOK
<1> QED BY <1>1, <1>2, <1>3, <1>4, <1>5, <1>6, <1>7 DEF IInv, Sound

\* What the interrupt finds when it is going to hand out a sector between two requests:
\* unless the request is torn, the description is complete, and the request is not over.
HandedOut ==
  /\ ~Finished /\ req.id > 0
  /\ buffer = [id |-> req.id, next |-> sectors_delivered]
  /\ callback = CallbackOf(req)
  /\ sector = req.first + sectors_delivered
  /\ remaining = IF req.kind = "stage" /\ sectors_delivered = 0 THEN 1
                 ELSE req.length - sectors_delivered
  /\ remaining > 0 /\ sectors_delivered + 1 <= Last

\* The types of the variables that the description is made of.
Counts == /\ req \in Request /\ callback \in Request
          /\ buffer \in [id : 0 .. MaxRequests, next : Nat]
          /\ sectors_delivered \in Nat /\ remaining \in 0 .. Endless
          /\ sector \in 1 .. Last + 1 /\ pos \in Int

LEMMA CountsFacts == ASSUME IInv PROVE Counts
<1> HIDE DEF Request
<1> QED BY DiskAssumption DEF IInv, Typed, TypeOK, Counts

LEMMA HandingOut ==
  ASSUME IInv, Heard, Wanted, pos <= Last, ~torn, call = "none" PROVE HandedOut
<1> HIDE DEF CallbackOf, Request
<1>1. Sound /\ Asked
  BY DEF IInv
<1>2. ~Finished
  BY <1>1 DEF Sound, Finishing
<1>3. Described /\ Counts
  BY <1>1, CountsFacts DEF Sound
<1>4. /\ req.id \in Nat /\ req.kind \in Kind /\ req.first \in Nat /\ req.first >= 1
      /\ req.length \in Nat
  BY <1>3, RequestFacts DEF Counts
<1>5. req.id > 0
  <2>1. ~(remaining = 0 /\ req.kind = "file")
    BY <1>2
  <2>2. req.id # 0
    BY <2>1, NoRequestFacts, <1>1 DEF Asked
  <2> QED BY <2>2, <1>4
<1>6. /\ buffer = [id |-> req.id, next |-> sectors_delivered]
      /\ callback = CallbackOf(req)
      /\ sector = req.first + sectors_delivered
      /\ remaining = IF req.kind = "stage" /\ sectors_delivered = 0 THEN 1
                     ELSE req.length - sectors_delivered
  BY <1>3, <1>5 DEF Described
<1>7. sectors_delivered + 1 <= Last
  BY <1>3, <1>4, <1>6, DiskAssumption DEF Counts
<1>8. remaining > 0
  <2>1. CASE req.kind = "stream"
    <3>1. req.length = Endless
      BY <2>1, <1>1 DEF Asked
    <3> QED BY <2>1, <3>1, <1>3, <1>6, <1>7, DiskAssumption DEF Counts
  <2>2. CASE req.kind # "stream"
    BY <2>2, <1>2, <1>3, DiskAssumption DEF Counts
  <2> QED BY <2>1, <2>2
<1> QED BY <1>2, <1>5, <1>6, <1>7, <1>8 DEF HandedOut

\* What Deliver does, whatever the description says.
Counted ==
  /\ Heard /\ ~stop_flag /\ Wanted /\ pos <= Last
  /\ sector' = sector + 1 /\ sectors_delivered' = sectors_delivered + 1 /\ pos' = pos + 1
  /\ ended' = (phase = "stopped")
  /\ UNCHANGED <<state, callback, start_flag, stop_flag, mainVars, seeking, call, req,
                 loose, faults>>
  /\ buffer' \in [id : 0 .. MaxRequests, next : Nat] /\ remaining' \in 0 .. Endless
  /\ ready' \in {ready, FALSE} /\ reading' \in {reading, FALSE}
  /\ next_state' \in {next_state, "idle"}
  /\ \/ phase' = phase
     \/ phase = "wanted" /\ phase' = "over" /\ req.kind = "stream"

LEMMA Remains ==
  ASSUME Counts, NEW left \in LengthsRead
  PROVE  /\ left \in 0 .. Endless
         /\ ~(callback.kind = "stage" /\ sectors_delivered = 0) =>
              left = IF remaining = 0 THEN 0 ELSE remaining - 1
         /\ callback.kind = "stage" /\ sectors_delivered = 0 /\ pos = callback.first
              /\ remaining > 0 => left = callback.length - 1
<1> HIDE DEF Request
<1>1. CASE callback.kind = "stage" /\ sectors_delivered = 0
  <2> DEFINE found == IF pos = callback.first /\ remaining > 0 THEN {callback.length} ELSE Length
  <2>1. PICK n \in found : left = n - 1
    BY <1>1 DEF LengthsRead
  <2>2. n \in Nat /\ n >= 1 /\ n <= Endless
    <3>1. CASE n \in Length
      BY <3>1, LengthFacts, DiskAssumption
    <3>2. CASE n = callback.length
      BY <3>2, RequestFacts DEF Counts
    <3> QED BY <2>1, <3>1, <3>2
  <2> QED BY <1>1, <2>1, <2>2, DiskAssumption
<1>2. CASE ~(callback.kind = "stage" /\ sectors_delivered = 0)
  <2>1. left = IF remaining = 0 THEN 0 ELSE remaining - 1
    BY <1>2 DEF LengthsRead
  <2> QED BY <1>2, <2>1, DiskAssumption DEF Counts
<1> QED BY <1>1, <1>2

LEMMA Placed ==
  ASSUME Counts, NEW r PROVE NextPlace(r) \in [id : 0 .. MaxRequests, next : Nat]
<1> HIDE DEF Request
<1>1. req.id \in 0 .. MaxRequests /\ callback.id \in 0 .. MaxRequests
  BY DEF Counts, Request
<1> QED BY <1>1 DEF NextPlace, Counts

\* After the sector the read goes on, or it has come to its end.
GoesOn == /\ UNCHANGED <<ready, reading, next_state, phase>>
          /\ remaining' > 0
          /\ req.kind = "stream" => phase # "stopped" /\ pos # Last

ComesToEnd == /\ CDBIOS_Stop /\ ~Unread /\ pc # "error"
              /\ IF req.kind = "stream"
                 THEN phase' = IF phase = "wanted" THEN "over" ELSE phase
                 ELSE remaining' = 0 /\ UNCHANGED phase

\* What it does when the request is not torn, nor by this very sector.
Delivered ==
  /\ call = "none" /\ ~torn
  /\ buffer' = [id |-> req.id, next |-> sectors_delivered + 1]
  /\ remaining' = req.length - (sectors_delivered + 1) /\ remaining' \in 0 .. Endless
  /\ GoesOn \/ ComesToEnd

LEMMA DeliverFacts ==
  ASSUME IInv, Deliver
  PROVE  Counted /\ (torn => torn') /\ torn' \in BOOLEAN /\ (torn' \/ (HandedOut /\ Delivered))
<1> USE DiskAssumption
<1> HIDE DEF CallbackOf, Request
<1>1. /\ Heard /\ ~stop_flag /\ Wanted /\ pos <= Last
      /\ sector' = sector + 1 /\ sectors_delivered' = sectors_delivered + 1 /\ pos' = pos + 1
      /\ ended' = (phase = "stopped")
      /\ UNCHANGED <<state, callback, start_flag, stop_flag, mainVars, seeking, call, req,
                     loose, faults>>
  BY DEF Deliver
<1>2. PICK left \in LengthsRead : \E r \in Answers(left) :
        /\ buffer' = NextPlace(r)
        /\ remaining' = left
        /\ IF EndsRead(r, left) THEN CDBIOS_Stop
                                ELSE UNCHANGED <<ready, reading, next_state>>
        /\ phase' = IF r = 0 /\ callback.kind = "stream" /\ req.kind = "stream"
                       /\ phase = "wanted"
                    THEN "over" ELSE phase
        /\ torn' = (torn \/ call # "none" \/ ((Unread \/ pc = "error") /\ EndsRead(r, left)))
  BY DEF Deliver
<1>3. PICK r \in Answers(left) :
        /\ buffer' = NextPlace(r)
        /\ remaining' = left
        /\ IF EndsRead(r, left) THEN CDBIOS_Stop
                                ELSE UNCHANGED <<ready, reading, next_state>>
        /\ phase' = IF r = 0 /\ callback.kind = "stream" /\ req.kind = "stream"
                       /\ phase = "wanted"
                    THEN "over" ELSE phase
        /\ torn' = (torn \/ call # "none" \/ ((Unread \/ pc = "error") /\ EndsRead(r, left)))
  BY <1>2
<1>4. Counts
  BY CountsFacts
<1>5. /\ left \in 0 .. Endless
      /\ ~(callback.kind = "stage" /\ sectors_delivered = 0) =>
           left = IF remaining = 0 THEN 0 ELSE remaining - 1
      /\ callback.kind = "stage" /\ sectors_delivered = 0 /\ pos = callback.first
           /\ remaining > 0 => left = callback.length - 1
  BY <1>2, <1>4, Remains
<1>6. Counted
  <2>1. buffer' \in [id : 0 .. MaxRequests, next : Nat] /\ remaining' \in 0 .. Endless
    BY <1>3, <1>4, <1>5, Placed
  <2>2. /\ ready' \in {ready, FALSE} /\ reading' \in {reading, FALSE}
        /\ next_state' \in {next_state, "idle"}
    BY <1>3, Zenon
  <2>3. phase' = phase \/ (phase = "wanted" /\ phase' = "over" /\ req.kind = "stream")
    BY <1>3, Zenon
  <2> QED BY <1>1, <2>1, <2>2, <2>3 DEF Counted
<1>7. (torn => torn') /\ torn' \in BOOLEAN
  BY <1>3, Zenon
<1>8. ASSUME ~torn' PROVE HandedOut /\ Delivered
  <2>1. ~torn /\ call = "none" /\ ~((Unread \/ pc = "error") /\ EndsRead(r, left))
    BY <1>3, <1>8, Zenon
  <2>2. HandedOut
    BY <1>1, <2>1, HandingOut
  <2>3. /\ req.id \in Nat /\ req.kind \in Kind /\ req.length \in Nat /\ req.length >= 1
        /\ req.first \in Nat /\ req.length <= Endless
        /\ callback.kind = req.kind /\ (callback.kind # "file" => callback = req)
    BY <1>4, <2>2, RequestFacts, CallbackFacts DEF Counts, HandedOut
  <2>4. left = req.length - (sectors_delivered + 1)
    <3>1. CASE req.kind = "stage" /\ sectors_delivered = 0
      <4>1. pos = req.first /\ remaining > 0
        BY <3>1, <2>2, <2>3, <1>1, <1>4 DEF HandedOut, Counts
      <4> QED BY <3>1, <4>1, <2>3, <1>5
    <3>2. CASE ~(req.kind = "stage" /\ sectors_delivered = 0)
      <4>1. left = remaining - 1
        BY <3>2, <2>2, <2>3, <1>4, <1>5 DEF HandedOut, Counts
      <4> QED BY <4>1, <3>2, <2>2, <2>3, <1>4 DEF HandedOut, Counts
    <3> QED BY <3>1, <3>2
  <2>5. /\ r \in 0 .. 2
        /\ r = 0 => req.kind = "stream" \/ (left = 0 /\ req.kind = "stage")
        /\ req.kind = "stream" /\ (phase = "stopped" \/ pos = Last) => r = 0
    <3>1. CASE req.kind = "stream" BY <3>1, <1>3, <2>3 DEF Answers
    <3>2. CASE req.kind = "stage" BY <3>2, <1>3, <2>3 DEF Answers
    <3>3. CASE req.kind = "file" BY <3>3, <1>3, <2>3 DEF Answers
    <3> QED BY <3>1, <3>2, <3>3, <2>3 DEF Kind
  <2>6. req.kind = "stream" => left > 0
    <3>1. req.kind = "stream" => req.length = Endless
      BY DEF IInv, Asked
    <3> QED BY <3>1, <2>2, <2>4, <1>4 DEF HandedOut, Counts
  <2>7. buffer' = [id |-> req.id, next |-> sectors_delivered + 1]
    <3>1. CASE r = 2
      <4>1. callback.kind # "file"
        BY <3>1, <1>3 DEF Answers
      <4>2. callback.id = req.id
        BY <4>1, <2>3
      <4> QED BY <4>2, <3>1, <1>3 DEF NextPlace
    <3>2. CASE r # 2
      BY <3>2, <1>3, <2>2, Zenon DEF NextPlace, HandedOut
    <3> QED BY <3>1, <3>2
  <2>8. CASE EndsRead(r, left)
    <3>1. CDBIOS_Stop /\ ~Unread /\ pc # "error"
      BY <2>8, <2>1, <1>3, Zenon
    <3>2. IF req.kind = "stream"
          THEN phase' = IF phase = "wanted" THEN "over" ELSE phase
          ELSE remaining' = 0 /\ UNCHANGED phase
      <4>1. CASE req.kind = "stream"
        <5>1. r = 0
          BY <4>1, <2>8, <2>6, <1>5 DEF EndsRead
        <5> QED BY <4>1, <5>1, <1>3, <2>3
      <4>2. CASE req.kind # "stream"
        <5>1. left = 0
          BY <4>2, <2>8, <2>5 DEF EndsRead
        <5> QED BY <4>2, <5>1, <1>3, <2>3
      <4> QED BY <4>1, <4>2
    <3>3. ComesToEnd
      <4> HIDE DEF CDBIOS_Stop, Unread
      <4> QED BY <3>1, <3>2 DEF ComesToEnd
    <3> QED BY <3>3, <2>1, <2>2, <2>4, <2>7, <1>3, <1>5 DEF Delivered
  <2>9. CASE ~EndsRead(r, left)
    <3>1. r # 0 /\ left # 0
      BY <2>9 DEF EndsRead
    <3>2. UNCHANGED <<ready, reading, next_state, phase>>
      BY <2>9, <3>1, <1>3
    <3>3. GoesOn
      BY <3>1, <3>2, <2>5, <1>3, <1>5 DEF GoesOn
    <3> QED BY <3>3, <2>1, <2>2, <2>4, <2>7, <1>3, <1>5 DEF Delivered
  <2> QED BY <2>8, <2>9
<1> QED BY <1>6, <1>7, <1>8, Zenon

\* No error is pending when a sector is handed out, but one of a read that is being given
\* up, and the last sector leaves the callback away and the end for the task to see.
LEMMA DeliverStep == ASSUME IInv, Deliver PROVE IInv'
<1> USE DiskAssumption
<1> HIDE DEF CallbackOf, Request
<1>1. Counted /\ Counts /\ torn' \in BOOLEAN /\ (torn => torn')
  BY DeliverFacts, CountsFacts
<1>2. Typed'
  <2>1. Switches
    BY DEF IInv, Typed, TypeOK, Switches
  <2>2. Switches'
    BY <2>1, <1>1, Zenon DEF Switches, Counted
  <2>3. TypeOK'
    BY <2>2, <1>1 DEF IInv, Typed, TypeOK, Switches, Counted, Counts
  <2> QED BY <2>3, <1>1 DEF IInv, Typed, Counted
<1>3. Silent'
  BY <1>1 DEF IInv, Silent, Counted
<1>4. Asked'
  <2>0. Asked
    BY DEF IInv
  <2>1. req.id # 0
    <3>1. CASE torn \/ call # "none"
      BY <3>1, <2>0 DEF Asked
    <3>2. CASE ~torn /\ call = "none"
      BY <3>2, <1>1, HandingOut DEF HandedOut, Counted
    <3> QED BY <3>1, <3>2
  <2>2. ended' => phase' = "stopped"
    BY <1>1 DEF Counted
  <2>3. call # "none" => torn'
    BY <1>1, DeliverFacts DEF Counted, Delivered
  <2> QED BY <2>0, <2>1, <2>2, <2>3, <1>1 DEF Asked, Counted
<1>5. ASSUME ~torn' PROVE Sound'
  <2>1. HandedOut /\ Delivered /\ ~torn /\ Sound
    BY <1>1, <1>5, DeliverFacts DEF IInv
  <2>2. /\ state # "idle" \/ Unread
        /\ pc \notin {"reset", "retry", "reinstall", "pause"}
        /\ next_state = "error" => Unread \/ pc = "silence"
        /\ state = "error" => pc \notin {"wait", "loop", "take", "taken", "test", "switch"} \/ Unread
    BY <2>1, <1>1 DEF IInv, Sound, Erring, Silent, Idling, HandedOut, Counted
  <2>3. Described'
    <3>1. req.id \in Nat /\ req.first \in Nat
      BY <1>1, RequestFacts DEF Counts
    <3> QED BY <3>1, <2>1, <1>1 DEF Described, Delivered, HandedOut, Counted, Counts
  <2>4. Seen'
    BY <2>1, <1>1 DEF IInv, Sound, Seen, Typed, TypeOK, Counted
  <2>5. Erring'
    BY <2>1, <2>2, <1>1 DEF Sound, Erring, Counted
  <2>6. Idling'
    BY <2>1, <2>2, <1>1 DEF Sound, Idling, Counted, Delivered, GoesOn, ComesToEnd
  <2>7. Finishing'
    <3> SUFFICES ASSUME Finished' PROVE Finishing'
      BY DEF Finishing
    <3>1. ended' => phase = "stopped"
      BY <1>1 DEF Counted
    <3>2. ComesToEnd
      <4>1. SUFFICES ASSUME GoesOn PROVE FALSE
        BY <2>1 DEF Delivered
      <4>2. call' = "none" /\ req' = req /\ phase' = phase /\ remaining' > 0
        BY <4>1, <1>1, <2>1 DEF Delivered, Counted, GoesOn
      <4>3. req.kind = "stream" => phase # "over" /\ phase # "stopped"
        BY <4>1, <2>1 DEF Delivered, HandedOut, GoesOn
      <4> QED BY <3>1, <4>2, <4>3
    <3>3. ~ready' /\ next_state' = "idle" /\ ~Unread /\ pc # "error"
      <4> HIDE DEF Unread
      <4> QED BY <3>2 DEF ComesToEnd
    <3>4. last_sector <= sector /\ last_sector \in Int
      BY <3>3, <2>1 DEF IInv, Sound, Seen, Typed, TypeOK
    <3>5. pc \in {"taken", "test", "switch"} => state = "read" /\ pc # "taken"
      BY <3>3, <2>2 DEF IInv, Typed, TypeOK
    <3> QED BY <3>3, <3>4, <3>5, <2>1, <2>2, <1>1 DEF Finishing, Counted, Counts
  <2> QED BY <2>3, <2>4, <2>5, <2>6, <2>7 DEF Sound
<1> QED BY <1>2, <1>3, <1>4, <1>5, Zenon DEF IInv

-----------------------------------------------------------------------------
(* The disk task *)

LEMMA SeeStopStep == ASSUME IInv, SeeStop PROVE IInv'
<1> USE DiskAssumption DEF SeeStop
<1>1. Typed'
  <2>1. Switches BY DEF IInv, Typed, TypeOK, Switches
  <2>2. Switches' BY <2>1, Zenon DEF Switches
  <2> QED BY <2>2 DEF IInv, Typed, TypeOK, Switches
<1>2. Asked' /\ (torn \/ Described') BY DescribedKept
<1>3. torn \/ Seen' BY DEF IInv, Asked, Sound, Seen, Typed, TypeOK
<1>4. Silent' BY DEF IInv, Silent, Typed, TypeOK
<1>5. torn \/ Erring' BY DEF IInv, Asked, Sound, Erring, Seen, Silent, Idling, Typed, TypeOK
<1>6. torn \/ Idling' BY DEF IInv, Asked, Sound, Idling, Erring, Seen, Silent, Typed, TypeOK
<1>7. torn \/ Finishing'
  BY DEF IInv, Asked, Sound, Finishing, Described, Erring, Idling, Seen, Silent, Typed, TypeOK
<1> QED BY <1>1, <1>2, <1>3, <1>4, <1>5, <1>6, <1>7 DEF IInv, Sound

LEMMA StopCallbackStep == ASSUME IInv, StopCallback PROVE IInv'
<1> USE DiskAssumption DEF StopCallback
<1>1. Typed'
  <2>1. Switches BY DEF IInv, Typed, TypeOK, Switches
  <2>2. Switches' BY <2>1, Zenon DEF Switches
  <2> QED BY <2>2 DEF IInv, Typed, TypeOK, Switches
<1>2. Asked' /\ (torn \/ Described') BY DescribedKept
<1>3. torn \/ Seen' BY DEF IInv, Asked, Sound, Seen, Typed, TypeOK
<1>4. Silent' BY DEF IInv, Silent, Typed, TypeOK
<1>5. torn \/ Erring' BY DEF IInv, Asked, Sound, Erring, Seen, Silent, Idling, Typed, TypeOK
<1>6. torn \/ Idling' BY DEF IInv, Asked, Sound, Idling, Erring, Seen, Silent, Typed, TypeOK
<1>7. torn \/ Finishing'
  BY DEF IInv, Asked, Sound, Finishing, Described, Erring, Idling, Seen, Silent, Typed, TypeOK
<1> QED BY <1>1, <1>2, <1>3, <1>4, <1>5, <1>6, <1>7 DEF IInv, Sound

LEMMA StopDriveStep == ASSUME IInv, StopDrive PROVE IInv'
<1> USE DiskAssumption DEF StopDrive
<1>1. Typed'
  <2>1. Switches BY DEF IInv, Typed, TypeOK, Switches
  <2>2. Switches' BY <2>1, Zenon DEF Switches
  <2> QED BY <2>2 DEF IInv, Typed, TypeOK, Switches
<1>2. Asked' /\ (torn \/ Described') BY DescribedKept
<1>3. torn \/ Seen' BY DEF IInv, Asked, Sound, Seen, Typed, TypeOK
<1>4. Silent' BY DEF IInv, Silent, Typed, TypeOK
<1>5. torn \/ Erring' BY DEF IInv, Asked, Sound, Erring, Seen, Silent, Idling, Typed, TypeOK
<1>6. torn \/ Idling' BY DEF IInv, Asked, Sound, Idling, Erring, Seen, Silent, Typed, TypeOK
<1>7. torn \/ Finishing'
  BY DEF IInv, Asked, Sound, Finishing, Described, Erring, Idling, Seen, Silent, Typed, TypeOK
<1> QED BY <1>1, <1>2, <1>3, <1>4, <1>5, <1>6, <1>7 DEF IInv, Sound

\* An error is taken over only when no interrupt can come.
LEMMA TakeNextStateStep == ASSUME IInv, TakeNextState PROVE IInv'
<1> USE DiskAssumption DEF TakeNextState
<1>1. Typed' BY DEF IInv, Typed, TypeOK
<1>2. Asked' /\ (torn \/ Described') BY DescribedKept
<1>3. torn \/ Seen' BY DEF IInv, Asked, Sound, Seen, Typed, TypeOK
<1>4. Silent' BY DEF IInv, Silent, Typed, TypeOK
<1>5. torn \/ Erring' BY DEF IInv, Asked, Sound, Erring, Seen, Silent, Idling, Typed, TypeOK
<1>6. torn \/ Idling' BY DEF IInv, Asked, Sound, Idling, Erring, Seen, Silent, Typed, TypeOK
<1>7. torn \/ Finishing'
  BY DEF IInv, Asked, Sound, Finishing, Described, Erring, Idling, Seen, Silent, Typed, TypeOK
<1> QED BY <1>1, <1>2, <1>3, <1>4, <1>5, <1>6, <1>7 DEF IInv, Sound

LEMMA ClearNextStateStep == ASSUME IInv, ClearNextState PROVE IInv'
<1> USE DiskAssumption DEF ClearNextState
<1>1. Typed' BY DEF IInv, Typed, TypeOK
<1>2. Asked' /\ (torn \/ Described') BY DescribedKept
<1>3. torn \/ Seen' BY DEF IInv, Asked, Sound, Seen, Typed, TypeOK
<1>4. Silent' BY DEF IInv, Silent, Typed, TypeOK
<1>5. torn \/ Erring' BY DEF IInv, Asked, Sound, Erring, Seen, Silent, Idling, Typed, TypeOK
<1>6. torn \/ Idling' BY DEF IInv, Asked, Sound, Idling, Erring, Seen, Silent, Typed, TypeOK
<1>7. ASSUME ~torn, Finished' PROVE Finishing'
  <2>1. Finished /\ Finishing /\ call = "none"
    BY <1>7 DEF IInv, Sound
  <2> HIDE DEF Finished
  <2>2. ~ready /\ ~stop_flag /\ state = "idle"
    BY <2>1 DEF Finishing
  <2> QED BY <2>1, <2>2 DEF Finishing
<1>8. torn \/ Finishing'
  <2> HIDE DEF Finished
  <2> QED BY <1>7 DEF Finishing
<1> QED BY <1>1, <1>2, <1>3, <1>4, <1>5, <1>6, <1>8 DEF IInv, Sound

LEMMA SeeStartStep == ASSUME IInv, SeeStart PROVE IInv'
<1> USE DiskAssumption DEF SeeStart
<1>1. Typed' BY DEF IInv, Typed, TypeOK
<1>2. Asked' /\ (torn \/ Described') BY DescribedKept
<1>3. torn \/ Seen' BY DEF IInv, Asked, Sound, Seen, Typed, TypeOK
<1>4. Silent' BY DEF IInv, Silent, Typed, TypeOK
<1>5. torn \/ Erring' BY DEF IInv, Asked, Sound, Erring, Seen, Silent, Idling, Typed, TypeOK
<1>6. torn \/ Idling' BY DEF IInv, Asked, Sound, Idling, Erring, Seen, Silent, Typed, TypeOK
<1>7. ASSUME ~torn, Finished' PROVE Finishing'
  <2>1. Finished /\ Finishing /\ call = "none"
    BY <1>7 DEF IInv, Sound
  <2> HIDE DEF Finished
  <2> QED BY <2>1 DEF Finishing
<1>8. torn \/ Finishing'
  <2> HIDE DEF Finished
  <2> QED BY <1>7 DEF Finishing
<1> QED BY <1>1, <1>2, <1>3, <1>4, <1>5, <1>6, <1>8 DEF IInv, Sound

LEMMA ClearFlagsStep == ASSUME IInv, ClearFlags PROVE IInv'
<1> USE DiskAssumption DEF ClearFlags
<1>1. Typed'
  <2>1. Switches BY DEF IInv, Typed, TypeOK, Switches
  <2>2. Switches' BY <2>1, Zenon DEF Switches
  <2> QED BY <2>2 DEF IInv, Typed, TypeOK, Switches
<1>2. Asked' /\ (torn \/ Described') BY DescribedKept
<1>3. torn \/ Seen' BY DEF IInv, Asked, Sound, Seen, Typed, TypeOK
<1>4. Silent' BY DEF IInv, Silent, Typed, TypeOK
<1>5. torn \/ Erring' BY DEF IInv, Asked, Sound, Erring, Seen, Silent, Idling, Typed, TypeOK
<1>6. torn \/ Idling' BY DEF IInv, Asked, Sound, Idling, Erring, Seen, Silent, Typed, TypeOK
<1>7. torn \/ Finishing'
  BY DEF IInv, Asked, Sound, Finishing, Described, Erring, Idling, Seen, Silent, Typed, TypeOK
<1> QED BY <1>1, <1>2, <1>3, <1>4, <1>5, <1>6, <1>7 DEF IInv, Sound

LEMMA ClearNextState2Step == ASSUME IInv, ClearNextState2 PROVE IInv'
<1> USE DiskAssumption DEF ClearNextState2
<1>1. Typed' BY DEF IInv, Typed, TypeOK
<1>2. Asked' /\ (torn \/ Described') BY DescribedKept
<1>3. torn \/ Seen' BY DEF IInv, Asked, Sound, Seen, Typed, TypeOK
<1>4. Silent' BY DEF IInv, Silent, Typed, TypeOK
<1>5. torn \/ Erring' BY DEF IInv, Asked, Sound, Erring, Seen, Silent, Idling, Typed, TypeOK
<1>6. torn \/ Idling' BY DEF IInv, Asked, Sound, Idling, Erring, Seen, Silent, Typed, TypeOK
<1>7. torn \/ Finishing'
  BY DEF IInv, Asked, Sound, Finishing, Described, Erring, Idling, Seen, Silent, Typed, TypeOK
<1> QED BY <1>1, <1>2, <1>3, <1>4, <1>5, <1>6, <1>7 DEF IInv, Sound

LEMMA CaseIdleStep == ASSUME IInv, CaseIdle PROVE IInv'
<1> USE DiskAssumption DEF CaseIdle
<1>1. Typed' BY DEF IInv, Typed, TypeOK
<1>2. Asked' /\ (torn \/ Described') BY DescribedKept
<1>3. torn \/ Seen' BY DEF IInv, Asked, Sound, Seen, Typed, TypeOK
<1>4. Silent' BY DEF IInv, Silent, Typed, TypeOK
<1>5. torn \/ Erring' BY DEF IInv, Asked, Sound, Erring, Seen, Silent, Idling, Typed, TypeOK
<1>6. torn \/ Idling' BY DEF IInv, Asked, Sound, Idling, Erring, Seen, Silent, Typed, TypeOK
<1>7. torn \/ Finishing'
  BY DEF IInv, Asked, Sound, Finishing, Described, Erring, Idling, Seen, Silent, Typed, TypeOK
<1> QED BY <1>1, <1>2, <1>3, <1>4, <1>5, <1>6, <1>7 DEF IInv, Sound

LEMMA CaseStartStep == ASSUME IInv, CaseStart PROVE IInv'
<1> USE DiskAssumption DEF CaseStart
<1>1. Typed' BY DEF IInv, Typed, TypeOK
<1>2. Asked' /\ (torn \/ Described') BY DescribedKept
<1>3. torn \/ Seen' BY DEF IInv, Asked, Sound, Seen, Typed, TypeOK
<1>4. Silent' BY DEF IInv, Silent, Typed, TypeOK
<1>5. torn \/ Erring' BY DEF IInv, Asked, Sound, Erring, Seen, Silent, Idling, Typed, TypeOK
<1>6. torn \/ Idling' BY DEF IInv, Asked, Sound, Idling, Erring, Seen, Silent, Typed, TypeOK
<1>7. torn \/ Finishing'
  BY DEF IInv, Asked, Sound, Finishing, Described, Erring, Idling, Seen, Silent, Typed, TypeOK
<1> QED BY <1>1, <1>2, <1>3, <1>4, <1>5, <1>6, <1>7 DEF IInv, Sound

LEMMA InstallCallbackStep == ASSUME IInv, InstallCallback PROVE IInv'
<1> USE DiskAssumption DEF InstallCallback
<1>1. Typed'
  <2>1. Switches BY DEF IInv, Typed, TypeOK, Switches
  <2>2. Switches' BY <2>1, Zenon DEF Switches
  <2> QED BY <2>2 DEF IInv, Typed, TypeOK, Switches
<1>2. Asked' /\ (torn \/ Described') BY DescribedKept
<1>3. torn \/ Seen' BY DEF IInv, Asked, Sound, Seen, Typed, TypeOK
<1>4. Silent' BY DEF IInv, Silent, Typed, TypeOK
<1>5. torn \/ Erring' BY DEF IInv, Asked, Sound, Erring, Seen, Silent, Idling, Typed, TypeOK
<1>6. torn \/ Idling' BY DEF IInv, Asked, Sound, Idling, Erring, Seen, Silent, Typed, TypeOK
<1>7. torn \/ Finishing'
  BY DEF IInv, Asked, Sound, Finishing, Described, Erring, Idling, Seen, Silent, Typed, TypeOK
<1> QED BY <1>1, <1>2, <1>3, <1>4, <1>5, <1>6, <1>7 DEF IInv, Sound

LEMMA SetReadStep == ASSUME IInv, SetRead PROVE IInv'
<1> USE DiskAssumption DEF SetRead
<1>1. Typed' BY DEF IInv, Typed, TypeOK
<1>2. Asked' /\ (torn \/ Described') BY DescribedKept
<1>3. torn \/ Seen' BY DEF IInv, Asked, Sound, Seen, Typed, TypeOK
<1>4. Silent' BY DEF IInv, Silent, Typed, TypeOK
<1>5. torn \/ Erring' BY DEF IInv, Asked, Sound, Erring, Seen, Silent, Idling, Typed, TypeOK
<1>6. torn \/ Idling' BY DEF IInv, Asked, Sound, Idling, Erring, Seen, Silent, Typed, TypeOK
<1>7. torn \/ Finishing'
  BY DEF IInv, Asked, Sound, Finishing, Described, Erring, Idling, Seen, Silent, Typed, TypeOK
<1> QED BY <1>1, <1>2, <1>3, <1>4, <1>5, <1>6, <1>7 DEF IInv, Sound

\* The drive leaves an old read for good when the drive is sent to the latest request.
LEMMA SeekStep == ASSUME IInv, Seek PROVE IInv'
<1> USE DiskAssumption DEF Seek
<1>1. Typed'
  <2>1. Switches BY DEF IInv, Typed, TypeOK, Switches
  <2>2. Switches' BY <2>1, Zenon DEF Switches
  <2> QED BY <2>2 DEF IInv, Typed, TypeOK, Switches
<1>2. Asked' /\ (torn \/ Described') BY DescribedKept
<1>3. torn \/ Seen' BY DEF IInv, Sound, Seen, Typed, TypeOK
<1>5. torn \/ Erring'
  <2>0. Switches BY DEF IInv, Typed, TypeOK, Switches
  <2>1. CASE ReadN /\ UNCHANGED faults /\ Goto("wait")
    BY <2>0, <2>1 DEF IInv, Sound, Erring, Seen, Silent, Idling, Typed, TypeOK, Switches
  <2>2. CASE Refuse /\ Goto("error")
    BY <2>0, <2>2 DEF IInv, Sound, Erring, Seen, Silent, Idling, Typed, TypeOK, Switches
  <2> QED BY <2>1, <2>2
<1>4. Silent' BY DEF IInv, Silent, Typed, TypeOK
<1>6. torn \/ Idling' BY DEF IInv, Asked, Sound, Idling, Erring, Seen, Silent, Typed, TypeOK
<1>7. torn \/ Finishing'
  BY DEF IInv, Asked, Sound, Finishing, Described, Erring, Idling, Seen, Silent, Typed, TypeOK
<1> QED BY <1>1, <1>2, <1>3, <1>4, <1>5, <1>6, <1>7 DEF IInv, Sound

LEMMA CaseReadGoesOnStep == ASSUME IInv, CaseReadGoesOn PROVE IInv'
<1> USE DiskAssumption DEF CaseReadGoesOn
<1>1. Typed' BY DEF IInv, Typed, TypeOK
<1>2. Asked' /\ (torn \/ Described') BY DescribedKept
<1>3. torn \/ Seen' BY DEF IInv, Asked, Sound, Seen, Typed, TypeOK
<1>4. Silent' BY DEF IInv, Silent, Typed, TypeOK
<1>5. torn \/ Erring' BY DEF IInv, Asked, Sound, Erring, Seen, Silent, Idling, Typed, TypeOK
<1>6. torn \/ Idling' BY DEF IInv, Asked, Sound, Idling, Erring, Seen, Silent, Typed, TypeOK
<1>7. torn \/ Finishing'
  BY DEF IInv, Asked, Sound, Finishing, Described, Erring, Idling, Seen, Silent, Typed, TypeOK
<1> QED BY <1>1, <1>2, <1>3, <1>4, <1>5, <1>6, <1>7 DEF IInv, Sound

LEMMA CaseReadTimeoutStep == ASSUME IInv, CaseReadTimeout PROVE IInv'
<1> USE DiskAssumption DEF CaseReadTimeout
<1>1. Typed' BY DEF IInv, Typed, TypeOK
<1>2. Asked' /\ (torn \/ Described') BY DescribedKept
<1>3. torn \/ Seen' BY DEF IInv, Asked, Sound, Seen, Typed, TypeOK
<1>4. Silent' BY DEF IInv, Silent, Typed, TypeOK
<1>5. torn \/ Erring' BY DEF IInv, Asked, Sound, Erring, Seen, Silent, Idling, Typed, TypeOK
<1>6. torn \/ Idling' BY DEF IInv, Asked, Sound, Idling, Erring, Seen, Silent, Typed, TypeOK
<1>7. ASSUME ~torn, Finished' PROVE Finishing'
  <2>1. Finished /\ Finishing /\ call = "none"
    BY <1>7 DEF IInv, Sound
  <2> HIDE DEF Finished
  <2>2. last_sector < sector
    BY <2>1 DEF Finishing
  <2> QED BY <2>2 DEF IInv, Typed, TypeOK
<1>8. torn \/ Finishing'
  <2> HIDE DEF Finished
  <2> QED BY <1>7 DEF Finishing
<1> QED BY <1>1, <1>2, <1>3, <1>4, <1>5, <1>6, <1>8 DEF IInv, Sound

LEMMA SetErrorStep == ASSUME IInv, SetError PROVE IInv'
<1> USE DiskAssumption DEF SetError
<1>1. Typed' BY DEF IInv, Typed, TypeOK
<1>2. Asked' /\ (torn \/ Described') BY DescribedKept
<1>3. torn \/ Seen' BY DEF IInv, Asked, Sound, Seen, Typed, TypeOK
<1>4. Silent' BY DEF IInv, Silent, Typed, TypeOK
<1>5. torn \/ Erring' BY DEF IInv, Asked, Sound, Erring, Seen, Silent, Idling, Typed, TypeOK
<1>6. torn \/ Idling' BY DEF IInv, Asked, Sound, Idling, Erring, Seen, Silent, Typed, TypeOK
<1>7. torn \/ Finishing'
  BY DEF IInv, Asked, Sound, Finishing, Described, Erring, Idling, Seen, Silent, Typed, TypeOK
<1> QED BY <1>1, <1>2, <1>3, <1>4, <1>5, <1>6, <1>7 DEF IInv, Sound

LEMMA SilenceStep == ASSUME IInv, Silence PROVE IInv'
<1> USE DiskAssumption DEF Silence
<1>1. Typed'
  <2>1. Switches BY DEF IInv, Typed, TypeOK, Switches
  <2>2. Switches' BY <2>1, Zenon DEF Switches
  <2> QED BY <2>2 DEF IInv, Typed, TypeOK, Switches
<1>2. Asked' /\ (torn \/ Described') BY DescribedKept
<1>3. torn \/ Seen' BY DEF IInv, Asked, Sound, Seen, Typed, TypeOK
<1>4. Silent' BY DEF IInv, Silent, Typed, TypeOK
<1>5. torn \/ Erring' BY DEF IInv, Asked, Sound, Erring, Seen, Silent, Idling, Typed, TypeOK
<1>6. torn \/ Idling' BY DEF IInv, Asked, Sound, Idling, Erring, Seen, Silent, Typed, TypeOK
<1>7. torn \/ Finishing'
  BY DEF IInv, Asked, Sound, Finishing, Described, Erring, Idling, Seen, Silent, Typed, TypeOK
<1> QED BY <1>1, <1>2, <1>3, <1>4, <1>5, <1>6, <1>7 DEF IInv, Sound

LEMMA CaseErrorStep == ASSUME IInv, CaseError PROVE IInv'
<1> USE DiskAssumption DEF CaseError
<1>1. Typed'
  <2>1. Switches BY DEF IInv, Typed, TypeOK, Switches
  <2>2. Switches' BY <2>1, Zenon DEF Switches
  <2> QED BY <2>2 DEF IInv, Typed, TypeOK, Switches
<1>2. Asked' /\ (torn \/ Described') BY DescribedKept
<1>3. torn \/ Seen' BY DEF IInv, Asked, Sound, Seen, Typed, TypeOK
<1>4. Silent' BY DEF IInv, Silent, Typed, TypeOK
<1>5. torn \/ Erring' BY DEF IInv, Asked, Sound, Erring, Seen, Silent, Idling, Typed, TypeOK
<1>6. torn \/ Idling' BY DEF IInv, Asked, Sound, Idling, Erring, Seen, Silent, Typed, TypeOK
<1>7. torn \/ Finishing'
  BY DEF IInv, Asked, Sound, Finishing, Described, Erring, Idling, Seen, Silent, Typed, TypeOK
<1> QED BY <1>1, <1>2, <1>3, <1>4, <1>5, <1>6, <1>7 DEF IInv, Sound

LEMMA ResetStep == ASSUME IInv, Reset PROVE IInv'
<1> USE DiskAssumption DEF Reset
<1>1. Typed'
  <2>1. Switches BY DEF IInv, Typed, TypeOK, Switches
  <2>2. Switches' BY <2>1, Zenon DEF Switches
  <2> QED BY <2>2 DEF IInv, Typed, TypeOK, Switches
<1>2. Asked' /\ (torn \/ Described') BY DescribedKept
<1>3. torn \/ Seen' BY DEF IInv, Asked, Sound, Seen, Typed, TypeOK
<1>4. Silent' BY DEF IInv, Silent, Typed, TypeOK
<1>5. torn \/ Erring' BY DEF IInv, Asked, Sound, Erring, Seen, Silent, Idling, Typed, TypeOK
<1>6. torn \/ Idling' BY DEF IInv, Asked, Sound, Idling, Erring, Seen, Silent, Typed, TypeOK
<1>7. torn \/ Finishing'
  BY DEF IInv, Asked, Sound, Finishing, Described, Erring, Idling, Seen, Silent, Typed, TypeOK
<1> QED BY <1>1, <1>2, <1>3, <1>4, <1>5, <1>6, <1>7 DEF IInv, Sound

LEMMA RetryStep == ASSUME IInv, Retry PROVE IInv'
<1> USE DiskAssumption DEF Retry
<1>1. Typed' BY DEF IInv, Typed, TypeOK
<1>2. Asked' /\ (torn \/ Described') BY DescribedKept
<1>3. torn \/ Seen' BY DEF IInv, Asked, Sound, Seen, Typed, TypeOK
<1>4. Silent' BY DEF IInv, Silent, Typed, TypeOK
<1>5. torn \/ Erring' BY DEF IInv, Asked, Sound, Erring, Seen, Silent, Idling, Typed, TypeOK
<1>6. torn \/ Idling' BY DEF IInv, Asked, Sound, Idling, Erring, Seen, Silent, Typed, TypeOK
<1>7. torn \/ Finishing'
  BY DEF IInv, Asked, Sound, Finishing, Described, Erring, Idling, Seen, Silent, Typed, TypeOK
<1> QED BY <1>1, <1>2, <1>3, <1>4, <1>5, <1>6, <1>7 DEF IInv, Sound

LEMMA SetRereadStep == ASSUME IInv, SetReread PROVE IInv'
<1> USE DiskAssumption DEF SetReread
<1>1. Typed' BY DEF IInv, Typed, TypeOK
<1>2. Asked' /\ (torn \/ Described') BY DescribedKept
<1>3. torn \/ Seen' BY DEF IInv, Asked, Sound, Seen, Typed, TypeOK
<1>4. Silent' BY DEF IInv, Silent, Typed, TypeOK
<1>5. torn \/ Erring' BY DEF IInv, Asked, Sound, Erring, Seen, Silent, Idling, Typed, TypeOK
<1>6. torn \/ Idling' BY DEF IInv, Asked, Sound, Idling, Erring, Seen, Silent, Typed, TypeOK
<1>7. torn \/ Finishing'
  BY DEF IInv, Asked, Sound, Finishing, Described, Erring, Idling, Seen, Silent, Typed, TypeOK
<1> QED BY <1>1, <1>2, <1>3, <1>4, <1>5, <1>6, <1>7 DEF IInv, Sound

LEMMA ReseekStep == ASSUME IInv, Reseek PROVE IInv'
<1> USE DiskAssumption DEF Reseek
<1>1. Typed'
  <2>1. Switches BY DEF IInv, Typed, TypeOK, Switches
  <2>2. Switches' BY <2>1, Zenon DEF Switches
  <2> QED BY <2>2 DEF IInv, Typed, TypeOK, Switches
<1>2. Asked' /\ (torn \/ Described') BY DescribedKept
<1>3. torn \/ Seen' BY DEF IInv, Asked, Sound, Seen, Typed, TypeOK
<1>4. Silent' BY DEF IInv, Silent, Typed, TypeOK
<1>5. torn \/ Erring' BY DEF IInv, Asked, Sound, Erring, Seen, Silent, Idling, Typed, TypeOK
<1>6. torn \/ Idling' BY DEF IInv, Asked, Sound, Idling, Erring, Seen, Silent, Typed, TypeOK
<1>7. torn \/ Finishing'
  BY DEF IInv, Asked, Sound, Finishing, Described, Erring, Idling, Seen, Silent, Typed, TypeOK
<1> QED BY <1>1, <1>2, <1>3, <1>4, <1>5, <1>6, <1>7 DEF IInv, Sound

LEMMA WaitVblStep == ASSUME IInv, WaitVbl PROVE IInv'
<1> USE DiskAssumption DEF WaitVbl
<1>1. Typed' BY DEF IInv, Typed, TypeOK
<1>2. Asked' /\ (torn \/ Described') BY DescribedKept
<1>3. torn \/ Seen' BY DEF IInv, Asked, Sound, Seen, Typed, TypeOK
<1>4. Silent' BY DEF IInv, Silent, Typed, TypeOK
<1>5. torn \/ Erring' BY DEF IInv, Asked, Sound, Erring, Seen, Silent, Idling, Typed, TypeOK
<1>6. torn \/ Idling' BY DEF IInv, Asked, Sound, Idling, Erring, Seen, Silent, Typed, TypeOK
<1>7. torn \/ Finishing'
  BY DEF IInv, Asked, Sound, Finishing, Described, Erring, Idling, Seen, Silent, Typed, TypeOK
<1> QED BY <1>1, <1>2, <1>3, <1>4, <1>5, <1>6, <1>7 DEF IInv, Sound

-----------------------------------------------------------------------------
(* Theorems *)

\* A whole turn of the game, the drive or the task keeps the invariant.
LEMMA StepKeeps == ASSUME IInv, Next PROVE IInv'
<1>1. ASSUME CDBIOS_Main PROVE IInv'
  BY <1>1,
     SeeStopStep, StopCallbackStep, StopDriveStep, TakeNextStateStep,
     ClearNextStateStep, SeeStartStep, ClearFlagsStep, ClearNextState2Step,
     CaseIdleStep, CaseStartStep, InstallCallbackStep, SetReadStep, SeekStep,
     CaseReadGoesOnStep, CaseReadTimeoutStep, SetErrorStep, SilenceStep,
     CaseErrorStep, ResetStep, RetryStep, SetRereadStep, ReseekStep, WaitVblStep
     DEF CDBIOS_Main
<1>2. ASSUME Interrupt PROVE IInv'
  BY <1>2, UnheardStep, StoppedStep, EarlyStep, SkippedStep, DeliverStep DEF Interrupt
<1>3. ASSUME NEW k \in Kind, NEW first \in Sector, NEW n \in Length, Ask(k, first, n)
      PROVE  IInv'
  BY <1>3, AskStep
<1> QED BY <1>1, <1>2, <1>3, ReadRequestStep, ForceStopStep, LoseStep DEF Next

\* The inductive invariant: every party leaves the shared description such that the
\* others may go on from it.
THEOREM Invariant == Spec => []IInv
<1>1. IInv /\ [Next]_vars => IInv'
  BY StepKeeps, StutterKeeps
<1> QED BY <1>1, InitEstablishes, PTL DEF Spec

\* Whatever was stopped, refused, lost or late before, the sector that the interrupt is
\* going to hand out is the next one of the latest request, completely described, unless
\* the read of a stopped stream goes on into it or the request is torn.
THEOREM DeliversRightHolds == Spec => []DeliversRight
<1>1. IInv => DeliversRight
  <2> SUFFICES ASSUME IInv PROVE DeliversRight
    OBVIOUS
  <2>1. TypeOK
    BY DEF IInv, Typed
  <2> SUFFICES ASSUME Heard, ~stop_flag, Wanted, pos <= Last, ~torn, ~(loose /\ call # "none")
               PROVE  /\ buffer = [id |-> req.id, next |-> pos - req.first]
                      /\ callback = CallbackOf(req)
                      /\ sectors_delivered = pos - req.first
                      /\ remaining = IF req.kind = "stage" /\ sectors_delivered = 0 THEN 1
                                     ELSE req.length - sectors_delivered
                      /\ remaining > 0
    BY <2>1 DEF DeliversRight
  <2>2. call = "none"
    BY DEF IInv, Sound, Finishing
  <2> HIDE DEF CallbackOf, Request
  <2>3. HandedOut /\ Counts
    BY <2>2, HandingOut, CountsFacts
  <2>4. req.first \in Nat
    BY <2>3, RequestFacts DEF Counts
  <2>5. sectors_delivered = pos - req.first
    BY <2>3, <2>4 DEF HandedOut, Counts
  <2> QED BY <2>3, <2>5 DEF HandedOut
<1> QED BY <1>1, Invariant, PTL

\* CDBIOS_ForceStop may do nothing in the state IDLE: no sector can be handed out any
\* more when the task waits in it, unless a torn read goes on.
THEOREM IdleIsQuietHolds == Spec => []IdleIsQuiet
<1>1. IInv => IdleIsQuiet
  BY DEF IInv, Sound, Idling, IdleIsQuiet
<1> QED BY <1>1, Invariant, PTL

\* What a reader's caller sees changes in no step of the task, and in none of the drive
\* but the one that hands out a sector.
LEMMA OthersStutter ==
  ASSUME UNCHANGED <<call, req, phase, ended, loose, torn, remaining, sectors_delivered>>
  PROVE  UNCHANGED <<req, Given, Course, loose>>
BY DEF Given, Course, Stored

LEMMA AskMakes ==
  ASSUME IInv, NEW k \in Kind, NEW first \in Sector, NEW n \in Length, Ask(k, first, n)
  PROVE  Reader!Make
<1>1. /\ req' \in Request /\ req'.id = req.id + 1 /\ req'.kind = k
  BY RequestAsked
<1>2. phase \in {"wanted", "over", "stopped"} /\ torn \in BOOLEAN /\ ended \in BOOLEAN
  BY DEF IInv, Typed, TypeOK
<1>3. ended => phase = "stopped"
  BY DEF IInv, Asked
<1>4. req.kind # "stream" => phase # "stopped"
  BY DEF IInv, Asked
<1>5. Course # "wanted" /\ (Course \in {"stopped", "torn"} <=> torn \/ (phase = "stopped" /\ ~ended))
  <2>1. CASE torn
    BY <2>1 DEF Course
  <2>2. CASE ~torn /\ req.kind = "stream"
    BY <2>2, <1>2, <1>3 DEF Ask, MayRequest, Course
  <2>3. CASE ~torn /\ req.kind # "stream"
    BY <2>3, <1>4 DEF Ask, MayRequest, Course
  <2> QED BY <1>2, <2>1, <2>2, <2>3
<1>6. Given' = 0 /\ Course' = "wanted"
  BY DEF Ask, Given, Course, Stored
<1>7. loose' = (Course \in {"stopped", "torn"})
  <2>1. loose' = (torn \/ (phase = "stopped" /\ ~ended))
    BY DEF Ask
  <2>2. CASE torn \/ (phase = "stopped" /\ ~ended)
    <3>1. loose' = TRUE BY <2>1, <2>2, Zenon
    <3> QED BY <3>1, <2>2, <1>5
  <2>3. CASE ~(torn \/ (phase = "stopped" /\ ~ended))
    <3>1. loose' = FALSE BY <2>1, <2>3, Zenon
    <3>2. Course # "stopped" /\ Course # "torn" BY <2>3, <1>5, Zenon
    <3> HIDE DEF Course
    <3>3. (Course \in {"stopped", "torn"}) = FALSE BY <3>2
    <3> QED BY <3>1, <3>3
  <2> QED BY <2>2, <2>3
<1> QED BY <1>1, <1>5, <1>6, <1>7 DEF Reader!Make

LEMMA StoresStutter ==
  ASSUME IInv, ReadRequest PROVE UNCHANGED <<req, Given, Course, loose>>
<1> HIDE DEF Request, CallbackOf
<1>1. (torn \/ Described) /\ req.length > 0 /\ req.length \in Nat
  BY CountsFacts, RequestFacts DEF IInv, Sound, Counts
<1> QED BY <1>1 DEF ReadRequest, StoreBuffer, StoreRemaining, StoreSector, StoreCallback,
                    StoreFlags, Given, Course, Stored, Described

LEMMA ForceStopStops == ASSUME IInv, ForceStop PROVE Reader!Stop \/ UNCHANGED <<req, Given, Course, loose>>
<1>1. ~ended
  BY DEF IInv, Asked, ForceStop
<1> QED BY <1>1 DEF ForceStop, Reader!Stop, Given, Course, Stored

LEMMA DeliverGives ==
  ASSUME IInv, Deliver, ~torn' PROVE Reader!Give
<1> HIDE DEF Request, CallbackOf
<1>1. HandedOut /\ Delivered /\ Counts /\ Counted
  BY DeliverFacts, CountsFacts
<1>2. req.length \in Nat /\ (req.kind = "stream" => req.length = Endless)
  BY <1>1, RequestFacts DEF IInv, Asked, Counts
<1>3. Given = sectors_delivered /\ Given' = Given + 1
  BY <1>1 DEF Given, Stored, Delivered, Counted
<1>4. Course # "over"
  BY <1>1 DEF Course, HandedOut, Delivered
<1>5. Given < req.length /\ (Given' = req.length <=> remaining' = 0)
  BY <1>1, <1>2, <1>3 DEF Delivered, Counts
<1>6. CASE req.kind = "stream"
  <2>1. Given' # req.length
    BY <1>6, <1>1, <1>2, <1>3, DiskAssumption DEF HandedOut, Counts
  <2>2. Course = phase /\ Course' = IF phase = "stopped" THEN "over" ELSE phase'
    BY <1>6, <1>1, <1>4 DEF Course, Delivered, Counted
  <2>3. phase = "wanted" => phase' \in {"wanted", "over"}
    BY <1>6, <1>1 DEF Counted
  <2>4. phase \in {"wanted", "stopped"}
    BY <1>4, <2>2 DEF IInv, Typed, TypeOK
  <2> QED BY <1>1, <1>3, <1>4, <1>5, <1>6, <2>1, <2>2, <2>3, <2>4
          DEF Reader!Give, Reader!Full, Counted
<1>7. CASE req.kind # "stream"
  <2>1. Course = "wanted" /\ Course' = IF remaining' = 0 THEN "over" ELSE "wanted"
    BY <1>7, <1>1, <1>4 DEF Course, Delivered, Counted, HandedOut
  <2> QED BY <1>1, <1>3, <1>4, <1>5, <1>7, <2>1 DEF Reader!Give, Reader!Full, Counted
<1> QED BY <1>6, <1>7

\* A sector tears the request only before the drive was sent to it, or in a read that
\* is being given up.
LEMMA DeliverTears ==
  ASSUME IInv, Deliver, torn'
  PROVE  Reader!Tear \/ UNCHANGED <<req, Given, Course, loose>>
<1> HIDE DEF Request, CallbackOf
<1>1. Counted /\ Counts
  BY DeliverFacts, CountsFacts
<1>2. CASE torn
  BY <1>2, <1>1 DEF Counted, Given, Course
<1>3. CASE ~torn
  <2>1. Given' = 0 /\ Course' = "torn"
    BY DEF Given, Course
  <2>2. Sound /\ ~Finished
    BY <1>3, <1>1 DEF IInv, Sound, Finishing, Counted
  <2>3. CASE call # "none"
    <3>1. loose
      BY <2>2, <2>3
    <3>2. Given = 0
      BY <1>3, <2>2, <2>3 DEF Given, Stored, Sound, Described, IInv, Typed, TypeOK
    <3>3. Course = "wanted"
      <4>1. phase = "wanted" /\ ~ended
        BY <1>3, <2>3 DEF IInv, Asked
      <4>2. req.kind # "stream" => call \in {"buffer", "remaining"} \/ remaining # 0
        BY <2>2, <2>3, <1>1, RequestFacts DEF Sound, Described, Counts, IInv, Typed, TypeOK
      <4> QED BY <1>3, <4>1, <4>2 DEF Course
    <3> QED BY <2>1, <3>1, <3>2, <3>3, <1>1 DEF Reader!Tear, Counted
  <2>4. CASE call = "none"
    <3>1. HandedOut
      BY <1>1, <1>3, <2>4, HandingOut DEF Counted
    <3>2. Unread \/ pc = "error"
      <4> HIDE DEF Unread
      <4> QED BY <1>3, <2>4 DEF Deliver
    <3>3. Given = sectors_delivered
      BY <1>3, <2>4 DEF Given, Stored
    <3>4. Astray
      <4> HIDE DEF Unread
      <4> QED BY <3>1, <3>2, <3>3, <1>1 DEF Astray, HandedOut, Counted
    <3>5. Course \in {"wanted", "stopped"}
      BY <1>3, <2>4, <3>1 DEF Course, HandedOut, IInv, Typed, TypeOK, Asked
    <3> QED BY <2>1, <3>4, <3>5, <1>1 DEF Reader!Tear, Counted
  <2> QED BY <2>3, <2>4
<1> QED BY <1>2, <1>3

\* The three parties together implement DiskReader: each request's sectors come once and
\* in order, none is handed out after the end, and none of a request that was replaced,
\* unless the request is torn, which happens in the ways that Tear names.
THEOREM ImplementsReader == Spec => IsReader
<1>1. Init => Reader!Init
  BY NoRequestFacts DEF Init, Reader!Init, Given, Course, Stored
<1>2. IInv /\ [Next]_vars => [Reader!Next]_<<req, Given, Course, loose>>
  <2> SUFFICES ASSUME IInv, [Next]_vars
               PROVE  Reader!Next \/ UNCHANGED <<req, Given, Course, loose>>
    OBVIOUS
  <2>1. CASE UNCHANGED vars
    BY <2>1, OthersStutter
  <2>2. ASSUME NEW k \in Kind, NEW first \in Sector, NEW n \in Length, Ask(k, first, n)
        PROVE  Reader!Next
    BY <2>2, AskMakes DEF Reader!Next
  <2>3. CASE ReadRequest
    BY <2>3, StoresStutter
  <2>4. CASE ForceStop
    BY <2>4, ForceStopStops DEF Reader!Next
  <2>5. CASE Deliver
    <3>1. CASE torn'
      BY <2>5, <3>1, DeliverTears DEF Reader!Next
    <3>2. CASE ~torn'
      BY <2>5, <3>2, DeliverGives DEF Reader!Next
    <3> QED BY <3>1, <3>2
  <2>6. CASE Unheard \/ Stopped \/ Early \/ Skipped \/ Lose
    BY <2>6, OthersStutter DEF Unheard, Stopped, Early, Skipped, Lose
  <2>7. CASE CDBIOS_Main
    BY <2>7, OthersStutter
       DEF CDBIOS_Main, SeeStop, StopCallback, StopDrive, TakeNextState, ClearNextState,
           SeeStart, ClearFlags, ClearNextState2, CaseIdle, CaseStart, InstallCallback,
           SetRead, Seek, CaseReadGoesOn, CaseReadTimeout, SetError, Silence, CaseError,
           Reset, Retry, SetReread, Reseek, WaitVbl
  <2> QED BY <2>1, <2>2, <2>3, <2>4, <2>5, <2>6, <2>7 DEF Next, Interrupt
<1> QED BY <1>1, <1>2, Invariant, PTL DEF Spec, IsReader, Reader!Spec
=============================================================================
