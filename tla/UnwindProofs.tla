---------------------------- MODULE UnwindProofs ----------------------------
(* What an unwinder in the signal handler may rely on when validate says   *)
(* yes, for any number of threads, descriptors and addresses.              *)
EXTENDS Unwind, TLAPS

Labels == {"idle", "ret", "stuck"} \cup Calling

(* The types that the argument needs. *)
CallTypes ==
    /\ pc \in [Callers -> Labels]
    /\ addr \in [Callers -> Addrs]
    /\ ok \in [Callers -> BOOLEAN]
    /\ touched \in BOOLEAN
    /\ frame_pointer \in Addrs /\ memory \in [Addrs -> Addrs]

(* No answer is given before write has returned. *)
NoEarlyYes == \A c \in Callers : pc[c] \in Calling => ~ok[c]

(* What the walk dereferences is what validate was asked about. *)
WalkValidated ==
    /\ walk \in {"yield", "read_stack"} => unwinder = "framehop"
    /\ walk = "validate" => addr[h] = frame_pointer
    /\ walk = "next" /\ unwinder = "frame_pointer" =>
          pc[h] = "ret" /\ ok[h] /\ addr[h] = frame_pointer

ReadInv == CallTypes /\ NoEarlyYes /\ YesMeansReadable

(* No call has answered yet. *)
LEMMA ReadInvInit == Init => ReadInv
<1> SUFFICES ASSUME Init PROVE ReadInv
  OBVIOUS
<1>1. CallTypes
  BY ValidateAssumption DEF Init, ValidateInit, CallTypes, Labels, NoMemory
<1>2. \A c \in Callers : pc[c] = "idle" /\ ok[c] = FALSE
  BY DEF Init, ValidateInit
<1> QED
  BY <1>1, <1>2 DEF ReadInv, NoEarlyYes, YesMeansReadable

-----------------------------------------------------------------------------
(* The steps of validate *)

(* A caller that moves on inside validate, without an answer. *)
LEMMA InsideStep ==
    ASSUME ReadInv, NEW c \in Callers, NEW label \in Calling,
           pc[c] \in Calling, pc' = [pc EXCEPT ![c] = label],
           touched' \in BOOLEAN, touched => touched',
           UNCHANGED <<addr, ok, mapped, torn, frame_pointer, memory>>
    PROVE  ReadInv'
<1>1. CallTypes'
  BY DEF ReadInv, CallTypes, Labels
<1>2. \A d \in Callers : pc'[d] \in Calling => pc[d] \in Calling
  BY DEF ReadInv, CallTypes
<1>3. \A d \in Callers : pc'[d] = "ret" => pc[d] = "ret"
  BY DEF ReadInv, CallTypes, Calling, Opening
<1> QED
  BY <1>1, <1>2, <1>3 DEF ReadInv, NoEarlyYes, YesMeansReadable

(* A call starts without an answer of "readable". *)
LEMMA ValidatePreserves ==
    ASSUME ReadInv, NEW c \in Callers, NEW a \in Addrs, Validate(c, a),
           UNCHANGED <<frame_pointer, memory>>
    PROVE  ReadInv'
<1> USE DEF Validate, Goto, kernelVars
<1>1. pc'[c] \in {"ret", "load_read"} /\ ok'[c] = FALSE /\ addr'[c] = a
  BY DEF ReadInv, CallTypes
<1>2. \A d \in Callers \ {c} :
         pc'[d] = pc[d] /\ ok'[d] = ok[d] /\ addr'[d] = addr[d]
         /\ (d \in torn' <=> d \in torn)
  BY DEF ReadInv, CallTypes
<1>3. CallTypes'
  BY DEF ReadInv, CallTypes, Labels, Calling
<1>4. UNCHANGED <<mapped, touched>>
  OBVIOUS
<1> QED
  BY <1>1, <1>2, <1>3, <1>4 DEF ReadInv, NoEarlyYes, YesMeansReadable

(* The caller that takes its answer leaves the other calls as they are. *)
LEMMA ReturnPreserves ==
    ASSUME ReadInv, NEW c \in Callers, Return(c),
           frame_pointer' \in Addrs, memory' \in [Addrs -> Addrs]
    PROVE  ReadInv'
<1> USE DEF Return, Goto, kernelVars
<1>1. pc'[c] = "idle" /\ ok'[c] = FALSE
  BY DEF ReadInv, CallTypes
<1>2. \A d \in Callers \ {c} :
         pc'[d] = pc[d] /\ ok'[d] = ok[d] /\ addr'[d] = addr[d]
         /\ (d \in torn' <=> d \in torn)
  BY DEF ReadInv, CallTypes
<1>3. CallTypes'
  BY ValidateAssumption DEF ReadInv, CallTypes, Labels
<1>4. UNCHANGED <<mapped, touched>>
  OBVIOUS
<1> QED
  BY <1>1, <1>2, <1>3, <1>4 DEF ReadInv, NoEarlyYes, YesMeansReadable

(* The step that answers: whatever descriptor it writes to. *)
LEMMA WritePreserves ==
    ASSUME ReadInv, NEW c \in Callers, Write(c), UNCHANGED <<frame_pointer, memory>>
    PROVE  ReadInv'
<1>1. PICK answer \in Answer(fd[c], addr[c]) : ok' = [ok EXCEPT ![c] = answer]
  BY DEF Write
<1>2. answer \in BOOLEAN
  BY <1>1, Zenon DEF Answer, Copies
<1>3. /\ pc[c] = "write" /\ pc' = [pc EXCEPT ![c] = "ret"]
      /\ touched' = (touched \/ KindOf(fd[c]) = "app")
      /\ UNCHANGED <<addr, mapped, torn>>
  BY DEF Write, Goto, Touch
<1>4. touched' \in BOOLEAN
  BY <1>3
<1>5. answer => addr[c] \in mapped \/ touched'
  <2>1. CASE KindOf(fd[c]) = "app"
    BY <1>3, <2>1
  <2>2. CASE KindOf(fd[c]) # "app"
    BY <1>1, <2>2 DEF Answer, Copies
  <2> QED
    BY <2>1, <2>2
<1>6. CallTypes'
  BY <1>1, <1>2, <1>3, <1>4 DEF ReadInv, CallTypes, Labels
<1>7. \A d \in Callers \ {c} : pc'[d] = pc[d] /\ ok'[d] = ok[d]
  BY <1>1, <1>3 DEF ReadInv, CallTypes
<1>8. pc'[c] = "ret" /\ ok'[c] = answer
  BY <1>1, <1>3 DEF ReadInv, CallTypes
<1>9. NoEarlyYes'
  BY <1>7, <1>8 DEF ReadInv, NoEarlyYes, Calling, Opening
<1>10. YesMeansReadable'
  BY <1>3, <1>5, <1>7, <1>8 DEF ReadInv, YesMeansReadable
<1> QED
  BY <1>6, <1>9, <1>10 DEF ReadInv

(* A caller that is refused a pipe answers no. *)
LEMMA CreatePreserves ==
    ASSUME ReadInv, NEW c \in Callers, CreatePipe(c), UNCHANGED <<frame_pointer, memory>>
    PROVE  ReadInv'
<1>1. pc[c] = "create" /\ UNCHANGED <<addr, ok, mapped, torn, touched>>
  BY DEF CreatePipe
<1>2. pc[c] \in Calling
  BY <1>1 DEF Calling, Opening
<1>3. CASE pc' = [pc EXCEPT ![c] = "store_read"]
  <2>1. "store_read" \in Calling
    BY DEF Calling, Opening
  <2> QED
    BY <1>1, <1>2, <1>3, <2>1, InsideStep DEF ReadInv, CallTypes
<1>4. CASE pc' = [pc EXCEPT ![c] = "ret"]
  <2>1. ~ok[c]
    BY <1>2 DEF ReadInv, NoEarlyYes
  <2>2. pc'[c] = "ret" /\ \A d \in Callers \ {c} : pc'[d] = pc[d]
    BY <1>4 DEF ReadInv, CallTypes
  <2>3. CallTypes'
    BY <1>1, <1>4 DEF ReadInv, CallTypes, Labels
  <2>4. NoEarlyYes' /\ YesMeansReadable'
    BY <1>1, <2>1, <2>2
    DEF ReadInv, NoEarlyYes, YesMeansReadable, Calling, Opening
  <2> QED
    BY <2>3, <2>4 DEF ReadInv
<1> QED
  BY <1>3, <1>4 DEF CreatePipe, Goto

(* Each step of validate() preserves what its answers mean: "readable" is only *)
(* answered by a write that copied the bytes.                                  *)
LEMMA ValidateStepPreserves ==
    ASSUME ReadInv, NEW c \in Callers, ValidateStep(c), UNCHANGED <<frame_pointer, memory>>
    PROVE  ReadInv'
<1>1. touched \in BOOLEAN
  BY DEF ReadInv, CallTypes
<1> USE DEF Goto, kernelVars, historyVars, Touch
<1>2. CASE LoadRead(c) \/ LoadWrite(c) \/ OpenLoadRead(c) \/ OpenLoadWrite(c)
  <2>1. PICK label \in Calling :
           pc[c] \in Calling /\ pc' = [pc EXCEPT ![c] = label]
    BY <1>2
    DEF LoadRead, LoadWrite, OpenLoadRead, OpenLoadWrite, Load, Calling, Opening
  <2>2. UNCHANGED <<addr, ok, mapped, torn, touched>>
    BY <1>2 DEF LoadRead, LoadWrite, OpenLoadRead, OpenLoadWrite, Load
  <2> QED
    BY <1>1, <2>1, <2>2, InsideStep
<1>3. CASE Read(c)
  <2>1. PICK label \in Calling :
           pc[c] \in Calling /\ pc' = [pc EXCEPT ![c] = label]
    BY <1>3 DEF Read, Calling, Opening
  <2>2. UNCHANGED <<addr, ok, mapped, torn>>
    BY <1>3 DEF Read
  <2>3. touched' = (touched \/ KindOf(fd[c]) = "app")
    BY <1>3 DEF Read
  <2> QED
    BY <1>1, <2>1, <2>2, <2>3, InsideStep
<1>4. CASE CloseEnd(c)
  <2>1. PICK label \in Calling :
           pc[c] \in Calling /\ pc' = [pc EXCEPT ![c] = label]
    BY <1>4 DEF CloseEnd, Calling, Opening
  <2>2. UNCHANGED <<addr, ok, mapped, torn>>
    BY <1>4 DEF CloseEnd
  <2>3. touched' = (touched \/ KindOf(fd[c]) = "app")
    BY <1>4 DEF CloseEnd
  <2> QED
    BY <1>1, <2>1, <2>2, <2>3, InsideStep
<1>5. CASE StoreRead(c) \/ StoreWrite(c)
  <2>1. PICK label \in Calling :
           pc[c] \in Calling /\ pc' = [pc EXCEPT ![c] = label]
    BY <1>5 DEF StoreRead, StoreWrite, Calling, Opening
  <2>2. UNCHANGED <<addr, ok, mapped, torn, touched>>
    BY <1>5 DEF StoreRead, StoreWrite
  <2> QED
    BY <1>1, <2>1, <2>2, InsideStep
<1>6. CASE Hang(c)
  <2>1. pc' = [pc EXCEPT ![c] = "stuck"] /\ touched'
    BY <1>6 DEF Hang
  <2>2. UNCHANGED <<addr, ok, mapped, torn>>
    BY <1>6 DEF Hang
  <2>3. \A d \in Callers : pc'[d] \in Calling \cup {"ret"} => pc'[d] = pc[d]
    BY <2>1 DEF ReadInv, CallTypes, Calling, Opening
  <2>4. CallTypes'
    BY <2>1, <2>2 DEF ReadInv, CallTypes, Labels
  <2> QED
    BY <2>1, <2>2, <2>3, <2>4 DEF ReadInv, NoEarlyYes, YesMeansReadable
<1> QED
  BY <1>2, <1>3, <1>4, <1>5, <1>6, CreatePreserves, WritePreserves DEF ValidateStep

-----------------------------------------------------------------------------
(* The application, and the whole *)

(* The application may take mappings away: the answers it makes stale are torn. *)
LEMMA AppPreserves ==
    ASSUME ReadInv, AppStep, UNCHANGED <<frame_pointer, memory>>
    PROVE  ReadInv'
<1> USE DEF localVars, historyVars
<1>1. UNCHANGED <<pc, addr, ok, touched>>
  BY DEF AppStep, AppOpen, AppClose, CloseFrom, Unmap
<1>2. CASE UNCHANGED <<mapped, torn>>
  BY <1>1, <1>2 DEF ReadInv, CallTypes, NoEarlyYes, YesMeansReadable
<1>3. ASSUME NEW a \in Unmappable, Unmap(a) PROVE ReadInv'
  <2>1. \A c \in Callers : c \in torn => c \in torn'
    BY <1>3 DEF Unmap
  <2>2. \A c \in Callers : pc[c] = "ret" /\ addr[c] \in mapped =>
           addr[c] \in mapped' \/ c \in torn'
    BY <1>3 DEF Unmap
  <2> QED
    BY <1>1, <2>1, <2>2 DEF ReadInv, CallTypes, NoEarlyYes, YesMeansReadable
<1> QED
  BY <1>2, <1>3 DEF AppStep, AppOpen, AppClose, CloseFrom

(* A step inside validate leaves the other callers, and every argument, as *)
(* they are.                                                               *)
LEMMA ValidateStepLocal ==
    ASSUME ReadInv, NEW c \in Callers, ValidateStep(c)
    PROVE  /\ UNCHANGED addr /\ pc[c] \in Calling
           /\ \A d \in Callers \ {c} : pc'[d] = pc[d] /\ ok'[d] = ok[d]
<1> USE DEF Goto
<1>1. UNCHANGED addr
  BY DEF ValidateStep, LoadRead, LoadWrite, OpenLoadRead, OpenLoadWrite, Load,
         Read, CloseEnd, CreatePipe, StoreRead, StoreWrite, Write, Hang
<1>2. pc[c] \in Calling
  BY DEF ValidateStep, LoadRead, LoadWrite, OpenLoadRead, OpenLoadWrite,
         Read, CloseEnd, CreatePipe, StoreRead, StoreWrite, Write, Hang, Calling,
         Opening
<1>3. \E label : pc' = [pc EXCEPT ![c] = label]
  BY DEF ValidateStep, LoadRead, LoadWrite, OpenLoadRead, OpenLoadWrite, Load,
         Read, CloseEnd, CreatePipe, StoreRead, StoreWrite, Write, Hang
<1>4. ok' = ok \/ \E answer : ok' = [ok EXCEPT ![c] = answer]
  BY DEF ValidateStep, LoadRead, LoadWrite, OpenLoadRead, OpenLoadWrite, Load,
         Read, CloseEnd, CreatePipe, StoreRead, StoreWrite, Write, Hang
<1>5. \A d \in Callers \ {c} : pc'[d] = pc[d]
  BY <1>3 DEF ReadInv, CallTypes
<1>6. \A d \in Callers \ {c} : ok'[d] = ok[d]
  BY <1>4 DEF ReadInv, CallTypes
<1> QED
  BY <1>1, <1>2, <1>5, <1>6

DerefInv == ReadInv /\ WalkValidated /\ DerefsMapped

(* Nothing has been dereferenced yet. *)
LEMMA DerefInvInit == Init => DerefInv
BY ReadInvInit DEF Init, DerefInv, WalkValidated, DerefsMapped

(* Every step of the handler, of another caller and of the application keeps *)
(* the frame pointer behind a validation.                                    *)
LEMMA DerefInvStep == DerefInv /\ ~faulted /\ Step => DerefInv'
<1> SUFFICES ASSUME DerefInv, ~faulted, Step PROVE DerefInv'
  OBVIOUS
<1> USE DEF h, WalkGoto
<1>1. h \in Callers
  BY UnwindAssumption
<1>2. ReadInv /\ WalkValidated /\ frame_pointer \in Addrs
      /\ memory \in [Addrs -> Addrs]
  BY DEF DerefInv, ReadInv, CallTypes
<1>3. UNCHANGED <<validateVars, frame_pointer, memory>> => ReadInv'
  BY <1>2 DEF validateVars, kernelVars, localVars, historyVars, ReadInv,
              CallTypes, NoEarlyYes, YesMeansReadable
<1>4. ASSUME NEW a \in Addrs, NEW m \in Memories, TraceStart(a, m)
      PROVE  DerefInv'
  <2>1. memory' \in [Addrs -> Addrs] /\ frame_pointer' \in Addrs
    BY <1>4, UnwindAssumption DEF TraceStart
  <2>2. ReadInv'
    BY <1>2, <1>4, <2>1
    DEF TraceStart, validateVars, kernelVars, localVars, historyVars, ReadInv,
        CallTypes, NoEarlyYes, YesMeansReadable
  <2> QED
    BY <1>4, <2>2 DEF TraceStart, DerefInv, WalkValidated, DerefsMapped
<1>5. CASE FramehopStart
  <2>1. ReadInv'
    BY <1>3, <1>5 DEF FramehopStart, traceVars
  <2> QED
    BY <1>5, <2>1
    DEF FramehopStart, DerefInv, WalkValidated, DerefsMapped, traceVars
<1>6. CASE TraceReturn
  <2>1. memory' \in [Addrs -> Addrs] /\ frame_pointer' \in Addrs
    BY <1>6, ValidateAssumption DEF TraceReturn, NoMemory
  <2>2. ReadInv'
    BY <1>1, <1>2, <1>6, <2>1, ReturnPreserves DEF TraceReturn
  <2> QED
    BY <1>6, <2>2 DEF TraceReturn, DerefInv, WalkValidated, DerefsMapped
<1>7. CASE WalkCheck
  <2>1. CASE Backwards
    <3>1. ReadInv'
      BY <1>3, <1>7, <2>1 DEF WalkCheck, traceVars
    <3> QED
      BY <1>7, <2>1, <3>1 DEF WalkCheck, DerefInv, WalkValidated, DerefsMapped
  <2>2. CASE ~Backwards
    <3>1. Validate(h, frame_pointer) /\ walk' = "validate"
          /\ UNCHANGED <<frame_pointer, memory, faulted>>
      BY <1>7, <2>2 DEF WalkCheck, traceVars
    <3>2. ReadInv'
      BY <1>1, <1>2, <3>1, ValidatePreserves
    <3>3. addr'[h] = frame_pointer'
      BY <1>1, <1>2, <3>1 DEF Validate, ReadInv, CallTypes
    <3> QED
      BY <3>1, <3>2, <3>3 DEF DerefInv, WalkValidated, DerefsMapped
  <2> QED
    BY <2>1, <2>2
<1>8. CASE WalkFrame
  <2>1. ReadInv'
    BY <1>3, <1>8 DEF WalkFrame, traceVars
  <2>2. UNCHANGED <<pc, ok, addr, torn, touched, frame_pointer, unwinder>>
    BY <1>8 DEF WalkFrame, traceVars, validateVars, localVars, historyVars
  <2>3. pc[h] = "ret" /\ addr[h] = frame_pointer
    BY <1>2, <1>8 DEF WalkFrame, WalkValidated
  <2>4. CASE ok[h]
    <3>1. walk' \in {"next", "done"}
      BY <1>8, <2>4 DEF WalkFrame, Collect
    <3>2. frame_pointer \in mapped \/ h \in torn \/ touched
      BY <1>1, <1>2, <2>3, <2>4 DEF ReadInv, YesMeansReadable
    <3>3. faulted' => h \in torn' \/ touched'
      BY <1>8, <2>2, <2>4, <3>2 DEF WalkFrame, Deref
    <3> QED
      BY <2>1, <2>2, <2>3, <2>4, <3>1, <3>3
      DEF DerefInv, WalkValidated, DerefsMapped
  <2>5. CASE ~ok[h]
    BY <1>8, <2>1, <2>5 DEF WalkFrame, DerefInv, WalkValidated, DerefsMapped
  <2> QED
    BY <2>4, <2>5
<1>9. CASE WalkNext
  <2>1. pc[h] = "ret" /\ ok[h] /\ addr[h] = frame_pointer
    BY <1>2, <1>9 DEF WalkNext, WalkValidated
  <2>2. frame_pointer \in mapped \/ h \in torn \/ touched
    BY <1>1, <1>2, <2>1 DEF ReadInv, YesMeansReadable
  <2>3. frame_pointer' \in Addrs /\ UNCHANGED memory
    BY <1>2, <1>9 DEF WalkNext, traceVars
  <2>4. ReadInv'
    BY <1>2, <1>9, <2>3
    DEF WalkNext, validateVars, kernelVars, localVars, historyVars, ReadInv,
        CallTypes, NoEarlyYes, YesMeansReadable
  <2>5. DerefsMapped'
    BY <1>9, <2>2
    DEF WalkNext, Deref, DerefsMapped, validateVars, historyVars
  <2> QED
    BY <1>9, <2>4, <2>5 DEF WalkNext, DerefInv, WalkValidated
<1>10. CASE FramehopYield
  <2>1. ReadInv'
    BY <1>3, <1>10 DEF FramehopYield, traceVars
  <2>2. walk' \in {"next", "done"} /\ UNCHANGED faulted
    BY <1>10 DEF FramehopYield, Collect
  <2> QED
    BY <1>2, <1>10, <2>1, <2>2
    DEF FramehopYield, DerefInv, WalkValidated, DerefsMapped, traceVars
<1>11. CASE FramehopEnd
  <2>1. ReadInv'
    BY <1>3, <1>11 DEF FramehopEnd, traceVars
  <2> QED
    BY <1>11, <2>1 DEF FramehopEnd, DerefInv, WalkValidated, DerefsMapped
<1>12. CASE ReadStack
  <2>1. ReadInv'
    BY <1>3, <1>12 DEF ReadStack, traceVars
  <2>2. ok[h] => addr[h] \in mapped \/ h \in torn \/ touched
    BY <1>1, <1>2, <1>12 DEF ReadStack, ReadInv, YesMeansReadable
  <2>3. DerefsMapped'
    BY <1>12, <2>2
    DEF ReadStack, Deref, DerefsMapped, validateVars, historyVars
  <2> QED
    BY <1>2, <1>12, <2>1, <2>3
    DEF ReadStack, DerefInv, WalkValidated, traceVars
<1>13. ASSUME NEW a \in Addrs, FramehopRead(a) PROVE DerefInv'
  <2>1. ReadInv'
    BY <1>1, <1>2, <1>13, ValidatePreserves DEF FramehopRead, traceVars
  <2> QED
    BY <1>13, <2>1
    DEF FramehopRead, DerefInv, WalkValidated, DerefsMapped, traceVars
<1>14. ASSUME NEW c \in Callers, CallStep(c) PROVE DerefInv'
  <2>1. ValidateStep(c)
        /\ UNCHANGED <<walk, unwinder, frame_pointer, memory, faulted>>
    BY <1>14 DEF CallStep, traceVars, walkVars
  <2>2. ReadInv'
    BY <1>2, <2>1, ValidateStepPreserves
  <2>3. /\ UNCHANGED addr /\ pc[c] \in Calling
        /\ \A d \in Callers \ {c} : pc'[d] = pc[d] /\ ok'[d] = ok[d]
    BY <1>2, <2>1, ValidateStepLocal
  <2>4. pc[h] = "ret" => h # c
    BY <2>3 DEF Calling, Opening
  <2>5. WalkValidated'
    BY <1>1, <1>2, <2>1, <2>3, <2>4 DEF WalkValidated
  <2> QED
    BY <2>1, <2>2, <2>5 DEF DerefInv, DerefsMapped
<1>15. ASSUME NEW c \in Callers, NEW a \in AppAddrs, AppValidate(c, a)
       PROVE  DerefInv'
  <2>1. c # h /\ Validate(c, a) /\ a \in Addrs
        /\ UNCHANGED <<walk, unwinder, frame_pointer, memory, faulted>>
    BY <1>15, UnwindAssumption DEF AppValidate, traceVars, walkVars
  <2>2. ReadInv'
    BY <1>2, <2>1, ValidatePreserves
  <2>3. pc'[h] = pc[h] /\ ok'[h] = ok[h] /\ addr'[h] = addr[h]
    BY <1>1, <1>2, <2>1 DEF Validate, Goto, ReadInv, CallTypes
  <2> QED
    BY <1>2, <2>1, <2>2, <2>3 DEF DerefInv, WalkValidated, DerefsMapped
<1>16. ASSUME NEW c \in Callers, AppReturn(c) PROVE DerefInv'
  <2>1. c # h /\ Return(c)
        /\ UNCHANGED <<walk, unwinder, frame_pointer, memory, faulted>>
    BY <1>16 DEF AppReturn, traceVars, walkVars
  <2>2. ReadInv'
    BY <1>2, <2>1, ReturnPreserves
  <2>3. pc'[h] = pc[h] /\ ok'[h] = ok[h] /\ addr'[h] = addr[h]
    BY <1>1, <1>2, <2>1 DEF Return, Goto, ReadInv, CallTypes
  <2> QED
    BY <1>2, <2>1, <2>2, <2>3 DEF DerefInv, WalkValidated, DerefsMapped
<1>17. CASE AppStep /\ Observe
  <2>1. UNCHANGED <<walk, unwinder, frame_pointer, memory, faulted>>
    BY <1>17 DEF Observe, walkVars
  <2>2. ReadInv'
    BY <1>2, <1>17, <2>1, AppPreserves
  <2>3. UNCHANGED <<pc, addr, ok>>
    BY <1>17 DEF AppStep, AppOpen, AppClose, CloseFrom, Unmap, localVars
  <2> QED
    BY <1>2, <2>1, <2>2, <2>3 DEF DerefInv, WalkValidated, DerefsMapped
<1> QED
  BY <1>4, <1>5, <1>6, <1>7, <1>8, <1>9, <1>10, <1>11, <1>12, <1>13, <1>14,
     <1>15, <1>16, <1>17
  DEF Step, WalkStep

(* The same for the whole next-state relation: once faulted nothing runs. *)
LEMMA DerefInvNext == DerefInv /\ [Next]_vars => DerefInv'
<1> SUFFICES ASSUME DerefInv, [Next]_vars PROVE DerefInv'
  OBVIOUS
<1>1. CASE UNCHANGED vars
  BY <1>1
  DEF vars, validateVars, kernelVars, localVars, historyVars, traceVars,
      walkVars, DerefInv, ReadInv, CallTypes, NoEarlyYes, YesMeansReadable,
      WalkValidated, DerefsMapped
<1>2. CASE ~faulted /\ Step
  BY <1>2, DerefInvStep
<1> QED
  BY <1>1, <1>2 DEF Next

(* However many threads validate, re-create the pipe and lose descriptors  *)
(* at once, validate says yes to nothing but a readable address: see       *)
(* YesMeansReadable.                                                       *)
THEOREM YesIsTrue == Spec => []YesMeansReadable
<1>1. DerefInv => YesMeansReadable
  BY DEF DerefInv, ReadInv
<1> QED
  BY <1>1, DerefInvInit, DerefInvNext, PTL DEF Spec

(* The unwinders in the handler dereference nothing that is not mapped,    *)
(* except memory unmapped since it was validated: see DerefsMapped.        *)
THEOREM HandlerDoesNotFault == Spec => []DerefsMapped
<1>1. DerefInv => DerefsMapped
  BY DEF DerefInv
<1> QED
  BY <1>1, DerefInvInit, DerefInvNext, PTL DEF Spec
=============================================================================
