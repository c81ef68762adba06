-------------------------- MODULE GdbSessionProofs --------------------------
(***************************************************************************)
(* Proofs about the GDB session, for all addresses and bounds.             *)
(***************************************************************************)
EXTENDS GdbSession, TLAPS

\* What the parts of a command are.
LEMMA CommandParts ==
  /\ Commands \subseteq Queued /\ HaltReason \in Queued /\ None \in Queued
  /\ Commands \subseteq Sent /\ CtrlC \in Sent /\ Nack \in Sent
  /\ \A c \in Commands : c[1] \in {"Z", "z"} => c[2] \in Addrs
  /\ \A c \in Commands : c[1] \in {"Zw", "zw"} => c[2] \in Watches
  /\ \A c \in Queued : c[1] # "None" => c \in Commands
<1>1. HaltReason \in Commands
  BY DEF Commands, HaltReason
<1>2. \A c \in Commands : c[1] \in {"Z", "z"} => c[2] \in Addrs
  BY DEF Commands
<1>3. \A c \in Commands : c[1] \in {"Zw", "zw"} => c[2] \in Watches
  BY SessionAssumption DEF Commands, Watches
<1>4. \A c \in Queued : c[1] # "None" => c \in Commands
  BY DEF None, Queued
<1> QED BY <1>1, <1>2, <1>3, <1>4 DEF Queued, Sent

\* The sequence operators keep the elements in their set.
LEMMA EmptyType == \A S : <<>> \in Seq(S)
OBVIOUS

LEMMA AppendType == \A S : \A q \in Seq(S), e \in S : Append(q, e) \in Seq(S)
OBVIOUS

LEMMA HeadTailType ==
  \A S : \A q \in Seq(S) : q # <<>> => Head(q) \in S /\ Tail(q) \in Seq(S)
OBVIOUS

-----------------------------------------------------------------------------
(* Types. *)

\* Every step keeps the types.
LEMMA TypeStep == TypeOK /\ [Next]_vars => TypeOK'
<1> SUFFICES ASSUME TypeOK, [Next]_vars
             PROVE  TypeOK'
  OBVIOUS
<1>a. ClientTypes /\ QueueTypes /\ SessionTypes /\ FlowTypes /\ GuestTypes /\ CountTypes
  BY DEF TypeOK
<1>b. MaxSends \in Nat /\ MaxNacks \in Nat /\ MaxRuns \in Nat
  BY SessionAssumption
<1>c. UNCHANGED <<client, owed, asked>> => ClientTypes'
  BY <1>a DEF ClientTypes
<1>d. UNCHANGED <<wire, commands, replies, last_packet>> => QueueTypes'
  BY <1>a DEF QueueTypes
<1>e. UNCHANGED <<reader, closed, sessionVars, pointVars>> => SessionTypes'
  BY <1>a DEF SessionTypes, sessionVars, pointVars
<1>f. UNCHANGED flowVars => FlowTypes'
  BY <1>a DEF FlowTypes, flowVars
<1>g. UNCHANGED <<pc, fresh, native_exit, uc_stop, fault, is_emu_complete, exhausted, changed,
                  missed>> => GuestTypes'
  BY <1>a DEF GuestTypes
<1>h. UNCHANGED <<sends, nacks, runs>> => CountTypes'
  BY <1>a DEF CountTypes
<1>w. wire \in Seq(Sent) /\ commands \in Seq(Queued) /\ replies \in Seq(Replies)
  BY <1>a DEF QueueTypes
<1>x. /\ \A e \in Sent : Append(wire, e) \in Seq(Sent)
      /\ \A e \in Queued : Append(commands, e) \in Seq(Queued)
      /\ \A r \in Replies : Append(replies, r) \in Seq(Replies)
  BY <1>w, AppendType
<1>y. /\ wire # <<>> => Head(wire) \in Sent /\ Tail(wire) \in Seq(Sent)
      /\ commands # <<>> => Head(commands) \in Queued /\ Tail(commands) \in Seq(Queued)
      /\ replies # <<>> => Head(replies) \in Replies /\ Tail(replies) \in Seq(Replies)
  BY <1>w, HeadTailType
<1>z. /\ FinishReason \in Reasons /\ "exit" \in Reasons
  BY <1>a DEF FinishReason, Reasons, Faults, SessionTypes
<1>1. ASSUME NEW c \in Commands, ClientSend(c)
      PROVE  TypeOK'
  <2>1. SessionTypes' /\ FlowTypes' /\ GuestTypes'
    BY <1>1, <1>e, <1>f, <1>g DEF ClientSend, transportVars, guestVars
  <2>2. ClientTypes'
    BY <1>1, <1>a DEF ClientSend, ClientTypes, clientVars
  <2>3. QueueTypes'
    BY <1>1, <1>a, <1>x, <1>y, CommandParts DEF ClientSend, QueueTypes, clientVars,
       transportVars
  <2>4. CountTypes'
    BY <1>1, <1>a, <1>b DEF ClientSend, CountTypes, clientVars, guestVars
  <2> QED BY <2>1, <2>2, <2>3, <2>4 DEF TypeOK
<1>2. CASE ClientInterrupt
  <2>1. SessionTypes' /\ FlowTypes' /\ GuestTypes'
    BY <1>2, <1>e, <1>f, <1>g DEF ClientInterrupt, transportVars, guestVars
  <2>2. ClientTypes'
    BY <1>2, <1>a DEF ClientInterrupt, ClientTypes, clientVars
  <2>3. QueueTypes'
    BY <1>2, <1>a, <1>x, <1>y, CommandParts DEF ClientInterrupt, QueueTypes, clientVars,
       transportVars
  <2>4. CountTypes'
    BY <1>2, <1>a, <1>b DEF ClientInterrupt, CountTypes, clientVars, guestVars
  <2> QED BY <2>1, <2>2, <2>3, <2>4 DEF TypeOK
<1>3. CASE ClientDisconnect
  <2>1. SessionTypes' /\ FlowTypes' /\ GuestTypes' /\ CountTypes'
    BY <1>3, <1>e, <1>f, <1>g, <1>h DEF ClientDisconnect, transportVars, guestVars, clientVars
  <2>2. ClientTypes'
    BY <1>3, <1>a DEF ClientDisconnect, ClientTypes, clientVars
  <2>3. QueueTypes'
    BY <1>3, <1>a, EmptyType DEF ClientDisconnect, QueueTypes, clientVars, transportVars
  <2> QED BY <2>1, <2>2, <2>3 DEF TypeOK
<1>4. CASE ClientReceive
  <2>1. SessionTypes' /\ FlowTypes' /\ GuestTypes'
    BY <1>4, <1>e, <1>f, <1>g DEF ClientReceive, transportVars, guestVars
  <2>2. ClientTypes'
    BY <1>4, <1>a DEF ClientReceive, ClientTypes, clientVars
  <2>3. QueueTypes'
    BY <1>4, <1>a, <1>x, <1>y, CommandParts DEF ClientReceive, QueueTypes, clientVars,
       transportVars
  <2>4. CountTypes'
    BY <1>4, <1>a, <1>b DEF ClientReceive, CountTypes, clientVars, guestVars
  <2> QED BY <2>1, <2>2, <2>3, <2>4 DEF TypeOK
<1>5. CASE ClientSeesClose
  <2>1. QueueTypes' /\ SessionTypes' /\ FlowTypes' /\ GuestTypes' /\ CountTypes'
    BY <1>5, <1>d, <1>e, <1>f, <1>g, <1>h DEF ClientSeesClose, clientVars, transportVars,
       guestVars
  <2>2. ClientTypes'
    BY <1>5, <1>a DEF ClientSeesClose, ClientTypes, clientVars
  <2> QED BY <2>1, <2>2 DEF TypeOK
<1>6. CASE ReaderPacket
  <2>1. ClientTypes' /\ SessionTypes' /\ FlowTypes' /\ GuestTypes' /\ CountTypes'
    BY <1>6, <1>c, <1>e, <1>f, <1>g, <1>h DEF ReaderPacket, clientVars, transportVars, guestVars
  <2>2. QueueTypes'
    BY <1>6, <1>a, <1>x, <1>y, CommandParts DEF ReaderPacket, QueueTypes, clientVars,
       transportVars
  <2> QED BY <2>1, <2>2 DEF TypeOK
<1>7. CASE ReaderNack
  <2>1. ClientTypes' /\ SessionTypes' /\ FlowTypes' /\ GuestTypes' /\ CountTypes'
    BY <1>7, <1>c, <1>e, <1>f, <1>g, <1>h DEF ReaderNack, clientVars, transportVars, guestVars
  <2>2. QueueTypes'
    BY <1>7, <1>a, <1>x, <1>y, CommandParts DEF ReaderNack, QueueTypes, clientVars,
       transportVars
  <2> QED BY <2>1, <2>2 DEF TypeOK
<1>8. CASE ReaderInterrupt
  <2>1. ClientTypes' /\ FlowTypes' /\ GuestTypes' /\ CountTypes'
    BY <1>8, <1>c, <1>f, <1>g, <1>h DEF ReaderInterrupt, clientVars, guestVars
  <2>2. QueueTypes'
    BY <1>8, <1>a, <1>x, <1>y, CommandParts DEF ReaderInterrupt, QueueTypes, clientVars,
       transportVars
  <2>3. SessionTypes'
    BY <1>8, <1>a DEF ReaderInterrupt, SessionTypes, transportVars, sessionVars, pointVars
  <2> QED BY <2>1, <2>2, <2>3 DEF TypeOK
<1>9. CASE ReaderEnd
  <2>1. ClientTypes' /\ FlowTypes' /\ GuestTypes' /\ CountTypes'
    BY <1>9, <1>c, <1>f, <1>g, <1>h DEF ReaderEnd, clientVars, guestVars
  <2>2. QueueTypes'
    BY <1>9, <1>a, <1>x, <1>y, CommandParts DEF ReaderEnd, QueueTypes, clientVars, transportVars
  <2>3. SessionTypes'
    BY <1>9, <1>a DEF ReaderEnd, SessionTypes, transportVars, sessionVars, pointVars
  <2> QED BY <2>1, <2>2, <2>3 DEF TypeOK
<1>10. CASE ReaderRequest
  <2>1. ClientTypes' /\ QueueTypes' /\ FlowTypes' /\ GuestTypes' /\ CountTypes'
    BY <1>10, <1>c, <1>d, <1>f, <1>g, <1>h DEF ReaderRequest, clientVars, transportVars,
       guestVars
  <2>2. SessionTypes'
    BY <1>10, <1>a DEF ReaderRequest, RequestStop, Reasons, SessionTypes, transportVars,
       sessionVars, pointVars
  <2> QED BY <2>1, <2>2 DEF TypeOK
<1>11. CASE ReaderStop
  <2>1. ClientTypes' /\ QueueTypes' /\ FlowTypes' /\ CountTypes'
    BY <1>11, <1>c, <1>d, <1>f, <1>h DEF ReaderStop, clientVars, transportVars, guestVars
  <2>2. SessionTypes'
    BY <1>11, <1>a DEF ReaderStop, SessionTypes, transportVars, sessionVars, pointVars
  <2>3. GuestTypes'
    BY <1>11, <1>a DEF ReaderStop, GuestTypes, guestVars
  <2> QED BY <2>1, <2>2, <2>3 DEF TypeOK
<1>12. CASE EmuCommand
  <2> DEFINE c == Head(commands)
  <2>1. c \in Queued /\ commands' \in Seq(Queued)
    BY <1>12, <1>y DEF EmuCommand
  <2>2. UNCHANGED <<clientVars, reader>>
    BY <1>12 DEF EmuCommand
  <2>3. ClientTypes'
    BY <1>a, <2>2 DEF ClientTypes, clientVars
  <2>4. CASE Resume(c)
    <3>1. QueueTypes'
      BY <1>a, <1>x, <2>1, <2>2, <2>4 DEF Resume, Notify, Sends, Vanishes, SendFails,
         QueueTypes, Replies, clientVars
    <3>2. SessionTypes'
      BY <1>a, <2>2, <2>4 DEF Resume, SessionTypes, GuestTypes, pointVars
    <3>3. FlowTypes'
      BY <1>a, <2>4 DEF Resume, FlowTypes
    <3>4. GuestTypes'
      BY <1>a, <2>4 DEF Resume, GoOn, GuestTypes
    <3>5. CountTypes'
      BY <1>a, <1>b, <2>2, <2>4 DEF Resume, GoOn, CountTypes, clientVars
    <3> QED BY <2>3, <3>1, <3>2, <3>3, <3>4, <3>5 DEF TypeOK
  <2>5. CASE Leave(c)
    <3>1. QueueTypes'
      BY <1>a, <1>x, <2>1, <2>2, <2>5 DEF Leave, Sends, Vanishes, SendFails, QueueTypes,
         Replies, clientVars
    <3>2. SessionTypes'
      BY <1>a, <2>2, <2>5 DEF Leave, SessionTypes, sessionVars, pointVars
    <3>3. FlowTypes' /\ GuestTypes'
      BY <1>a, <2>5 DEF Leave, FlowTypes, GuestTypes, guestVars
    <3>4. CountTypes'
      BY <1>a, <2>2, <2>5 DEF Leave, CountTypes, clientVars, guestVars
    <3> QED BY <2>3, <3>1, <3>2, <3>3, <3>4 DEF TypeOK
  <2>6. CASE c[1] # "None" /\ HandleCommand(c)
    <3>1. QueueTypes'
      BY <1>a, <1>x, <2>1, <2>2, <2>6 DEF HandleCommand, Answer, Sends, Vanishes, SendFails,
         QueueTypes, Replies, clientVars
    <3>2. exec_breakpoints' \subseteq Addrs /\ watchpoints' \subseteq Watches
      <4>1. c[1] \in {"Z", "z"} => c[2] \in Addrs
        BY <2>1, <2>6, CommandParts
      <4>2. c[1] \in {"Zw", "zw"} => c[2] \in Watches
        BY <2>1, <2>6, CommandParts
      <4>3. exec_breakpoints \subseteq Addrs /\ watchpoints \subseteq Watches
        BY <1>a DEF SessionTypes
      <4> HIDE DEF c
      <4> QED BY <2>6, <4>1, <4>2, <4>3 DEF HandleCommand, ChangePoints, pointVars
    <3>3. SessionTypes'
      BY <1>a, <2>2, <2>6, <3>2 DEF HandleCommand, SessionTypes
    <3>4. FlowTypes' /\ GuestTypes'
      BY <1>a, <2>6 DEF HandleCommand, FlowTypes, GuestTypes
    <3>5. CountTypes'
      BY <1>a, <2>2, <2>6 DEF HandleCommand, CountTypes, clientVars
    <3> QED BY <2>3, <3>1, <3>3, <3>4, <3>5 DEF TypeOK
  <2> QED BY <1>12, <2>4, <2>5, <2>6 DEF EmuCommand
<1>13. CASE BeginRun
  <2>1. ClientTypes' /\ QueueTypes' /\ CountTypes'
    BY <1>13, <1>c, <1>d, <1>h DEF BeginRun, clientVars, transportVars, guestVars
  <2>2. SessionTypes'
    BY <1>13, <1>a DEF BeginRun, Reasons, GuestTypes, SessionTypes, transportVars, sessionVars,
       pointVars
  <2>3. FlowTypes'
    BY <1>13, <1>a DEF BeginRun, FlowTypes, flowVars
  <2>4. GuestTypes'
    BY <1>13, <1>a DEF BeginRun, GuestTypes, guestVars
  <2> QED BY <2>1, <2>2, <2>3, <2>4 DEF TypeOK
<1>14. CASE Prepare
  <2>1. ClientTypes' /\ QueueTypes' /\ SessionTypes' /\ CountTypes'
    BY <1>14, <1>c, <1>d, <1>e, <1>h DEF Prepare, clientVars, transportVars, guestVars
  <2>2. FlowTypes'
    BY <1>14, <1>a DEF Prepare, FlowTypes, flowVars
  <2>3. GuestTypes'
    BY <1>14, <1>a DEF Prepare, GuestTypes, guestVars
  <2> QED BY <2>1, <2>2, <2>3 DEF TypeOK
<1>15. CASE UcReturn
  <2>1. ClientTypes' /\ QueueTypes' /\ SessionTypes' /\ GuestTypes' /\ CountTypes'
    BY <1>15, <1>c, <1>d, <1>e, <1>g, <1>h DEF UcReturn, clientVars, transportVars, guestVars
  <2>2. FlowTypes'
    BY <1>15, <1>a DEF UcReturn, FlowTypes, flowVars
  <2> QED BY <2>1, <2>2 DEF TypeOK
<1>16. CASE HandleExit
  <2>1. ClientTypes' /\ QueueTypes'
    BY <1>16, <1>c, <1>d DEF HandleExit, clientVars, transportVars
  <2>2. SessionTypes'
    BY <1>16, <1>a DEF HandleExit, HandleApi, RequestStop, Reasons, SessionTypes, transportVars,
       sessionVars, pointVars
  <2>3. FlowTypes'
    BY <1>16, <1>a DEF HandleExit, HandleApi, FlowTypes, flowVars
  <2>4. GuestTypes'
    BY <1>16, <1>a DEF HandleExit, HandleApi, CompleteRun, GuestTypes, guestVars
  <2>5. CountTypes'
    BY <1>16, <1>a, <1>b DEF HandleExit, HandleApi, CompleteRun, CountTypes, clientVars,
       guestVars
  <2> QED BY <2>1, <2>2, <2>3, <2>4, <2>5 DEF TypeOK
<1>17. CASE FinishRun
  <2>1. ClientTypes' /\ CountTypes'
    BY <1>17, <1>c, <1>h DEF FinishRun, clientVars, guestVars
  <2>2. QueueTypes'
    BY <1>17, <1>a, <1>x, <1>y, CommandParts DEF FinishRun, Report, Sends, Vanishes, SendFails,
       Replies, QueueTypes, clientVars, transportVars
  <2>3. SessionTypes'
    BY <1>17, <1>a, <1>z DEF FinishRun, Report, SessionTypes, transportVars, sessionVars,
       pointVars
  <2>4. FlowTypes'
    BY <1>17, <1>a DEF FinishRun, Report, FlowTypes, flowVars
  <2>5. GuestTypes'
    BY <1>17, <1>a DEF FinishRun, GuestTypes, guestVars
  <2> QED BY <2>1, <2>2, <2>3, <2>4, <2>5 DEF TypeOK
<1>18. CASE ReportException
  <2>1. ClientTypes' /\ CountTypes'
    BY <1>18, <1>c, <1>h DEF ReportException, clientVars, guestVars
  <2>2. QueueTypes'
    BY <1>18, <1>a, <1>x, <1>y, CommandParts DEF ReportException, Report, Sends, Vanishes,
       SendFails, Replies, QueueTypes, clientVars, transportVars
  <2>3. SessionTypes'
    BY <1>18, <1>a DEF ReportException, Report, Reasons, Faults, SessionTypes, transportVars,
       sessionVars, pointVars
  <2>4. FlowTypes'
    BY <1>18, <1>a DEF ReportException, Report, FlowTypes, flowVars
  <2>5. GuestTypes'
    BY <1>18, <1>a DEF ReportException, GuestTypes, guestVars
  <2> QED BY <2>1, <2>2, <2>3, <2>4, <2>5 DEF TypeOK
<1>19. CASE Close
  <2>1. ClientTypes' /\ QueueTypes' /\ FlowTypes' /\ GuestTypes' /\ CountTypes'
    BY <1>19, <1>c, <1>d, <1>f, <1>g, <1>h DEF Close, clientVars, transportVars, guestVars
  <2>2. SessionTypes'
    BY <1>19, <1>a DEF Close, SessionTypes, transportVars, sessionVars, pointVars
  <2> QED BY <2>1, <2>2 DEF TypeOK
<1>20. CASE UcInstruction
  <2>1. ClientTypes' /\ QueueTypes' /\ FlowTypes' /\ CountTypes'
    BY <1>20, <1>a DEF UcInstruction, ClientTypes, QueueTypes, FlowTypes, CountTypes,
       clientVars, transportVars, flowVars
  <2>2. UNCHANGED <<running, library, is_emu_complete, exhausted, changed, pointVars, transportVars>>
    BY <1>20 DEF UcInstruction
  <2>3. CASE OnCodeStops
    <3>1. SessionTypes'
      BY <1>20, <1>a, <2>2, <2>3 DEF UcInstruction, RequestStop, Reasons, SessionTypes,
         pointVars, transportVars
    <3>2. GuestTypes'
      BY <1>20, <1>a, <2>2, <2>3 DEF UcInstruction, GuestTypes
    <3> QED BY <2>1, <3>1, <3>2 DEF TypeOK
  <2>4. CASE ~OnCodeStops
    <3>1. PICK access \in {"none", "read", "write"}, outcome \in {"next", "api", "return", "fault"} :
            Execute(access, outcome)
      BY <1>20, <2>4 DEF UcInstruction
    <3>2. WatchOf(access) \in Watches \cup {"none"}
      BY DEF WatchOf, Watches
    <3>3. SessionTypes'
      BY <1>a, <2>2, <3>1, <3>2 DEF Execute, RequestStop, Reasons, SessionTypes, pointVars,
         transportVars
    <3>4. GuestTypes'
      BY <1>a, <2>2, <3>1 DEF Execute, GuestTypes
    <3> QED BY <2>1, <3>3, <3>4 DEF TypeOK
  <2> QED BY <2>3, <2>4
<1>21. ASSUME NEW kind \in {"timeout", "max_total_time"}, UcLimit(kind)
       PROVE  TypeOK'
  <2>1. ClientTypes' /\ QueueTypes'
    BY <1>21, <1>c, <1>d DEF UcLimit, clientVars, transportVars
  <2>2. SessionTypes'
    BY <1>21, <1>a DEF UcLimit, RequestStop, Reasons, SessionTypes, transportVars, sessionVars,
       pointVars
  <2>3. FlowTypes'
    BY <1>21, <1>a DEF UcLimit, FlowTypes, flowVars
  <2>4. GuestTypes'
    BY <1>21, <1>a DEF UcLimit, GuestTypes, guestVars
  <2>5. CountTypes'
    BY <1>21, <1>a, <1>b DEF UcLimit, CountTypes, clientVars, guestVars
  <2> QED BY <2>1, <2>2, <2>3, <2>4, <2>5 DEF TypeOK
<1>22. CASE UNCHANGED vars
  <2>1. ClientTypes' /\ QueueTypes' /\ SessionTypes' /\ FlowTypes' /\ GuestTypes' /\ CountTypes'
    BY <1>22, <1>c, <1>d, <1>e, <1>f, <1>g, <1>h DEF vars, clientVars, transportVars, guestVars
  <2> QED BY <2>1 DEF TypeOK
<1> QED
  BY <1>1, <1>2, <1>3, <1>4, <1>5, <1>6, <1>7, <1>8, <1>9, <1>10, <1>11, <1>12, <1>13, <1>14,
     <1>15, <1>16, <1>17, <1>18, <1>19, <1>20, <1>21, <1>22 DEF Next, Reader, Emulator, Limit,
     Terminated

\* All the variables have their types: the queues between the threads hold what
\* their readers expect, and the counts stay in their bounds.
THEOREM TypeCorrect == Spec => []TypeOK
<1>1. Init => TypeOK
  <2> SUFFICES ASSUME Init
               PROVE  TypeOK
    OBVIOUS
  <2>1. ClientTypes
    BY DEF Init, ClientTypes
  <2>2. QueueTypes
    BY EmptyType DEF Init, QueueTypes
  <2>3. SessionTypes
    BY DEF Init, SessionTypes, Reasons
  <2>4. FlowTypes /\ GuestTypes
    BY DEF Init, FlowTypes, GuestTypes
  <2>5. CountTypes
    BY SessionAssumption DEF Init, CountTypes
  <2> QED BY <2>1, <2>2, <2>3, <2>4, <2>5 DEF TypeOK
<1> QED BY <1>1, TypeStep, PTL DEF Spec

-----------------------------------------------------------------------------
(* Breakpoints. *)

\* Where a run executes.
InRun == {"prepare", "unicorn", "exit"}

\* _resume_pc hides a breakpoint only from the instruction that the client
\* resumed at, before it ran; and a recorded exit is at a stub or a hook.
PointInv ==
  /\ ~missed
  /\ epc = "wait" => resume_pc = NoAddr
  /\ epc = "begin" /\ resume_pc \in exec_breakpoints => fresh = resume_pc
  /\ epc \in InRun /\ resume_pc \in exec_breakpoints => fresh = resume_pc /\ pc = resume_pc
  /\ native_exit # "none" => pc = Trap
  /\ epc = "exit" => native_exit # "none"

\* Every step keeps PointInv.
LEMMA PointStep == TypeOK /\ PointInv /\ [Next]_vars => PointInv'
<1> SUFFICES ASSUME TypeOK, PointInv, [Next]_vars
             PROVE  PointInv'
  OBVIOUS
<1>a. /\ exec_breakpoints \subseteq Addrs
      /\ Trap \notin exec_breakpoints /\ NoAddr \notin exec_breakpoints
      /\ stop_pending \in BOOLEAN /\ fault \in BOOLEAN /\ missed \in BOOLEAN
      /\ native_exit \in {"none", "api", "return"}
  BY SessionAssumption DEF TypeOK, SessionTypes, GuestTypes
<1>1. ASSUME NEW c \in Commands, ClientSend(c)
      PROVE  PointInv'
  BY <1>1, <1>a DEF ClientSend, PointInv, InRun, vars, clientVars, sessionVars, pointVars,
     guestVars, flowVars, transportVars
<1>2. CASE ClientInterrupt
  BY <1>2, <1>a DEF ClientInterrupt, PointInv, InRun, vars, clientVars, sessionVars, pointVars,
     guestVars, flowVars, transportVars
<1>3. CASE ClientDisconnect
  BY <1>3, <1>a DEF ClientDisconnect, PointInv, InRun, vars, clientVars, sessionVars, pointVars,
     guestVars, flowVars, transportVars
<1>4. CASE ClientReceive
  BY <1>4, <1>a DEF ClientReceive, PointInv, InRun, vars, clientVars, sessionVars, pointVars,
     guestVars, flowVars, transportVars
<1>5. CASE ClientSeesClose
  BY <1>5, <1>a DEF ClientSeesClose, PointInv, InRun, vars, clientVars, sessionVars, pointVars,
     guestVars, flowVars, transportVars
<1>6. CASE ReaderPacket
  BY <1>6, <1>a DEF ReaderPacket, PointInv, InRun, vars, clientVars, sessionVars, pointVars,
     guestVars, flowVars, transportVars
<1>7. CASE ReaderNack
  BY <1>7, <1>a DEF ReaderNack, PointInv, InRun, vars, clientVars, sessionVars, pointVars,
     guestVars, flowVars, transportVars
<1>8. CASE ReaderInterrupt
  BY <1>8, <1>a DEF ReaderInterrupt, PointInv, InRun, vars, clientVars, sessionVars, pointVars,
     guestVars, flowVars, transportVars
<1>9. CASE ReaderEnd
  BY <1>9, <1>a DEF ReaderEnd, PointInv, InRun, vars, clientVars, sessionVars, pointVars,
     guestVars, flowVars, transportVars
<1>10. CASE ReaderRequest
  BY <1>10, <1>a DEF ReaderRequest, PointInv, InRun, vars, clientVars, sessionVars, pointVars,
     guestVars, flowVars, transportVars
<1>11. CASE ReaderStop
  BY <1>11, <1>a DEF ReaderStop, PointInv, InRun, vars, clientVars, sessionVars, pointVars,
     guestVars, flowVars, transportVars
<1>12. CASE EmuCommand
  <2> DEFINE c == Head(commands)
  <2>1. epc = "wait" /\ resume_pc = NoAddr
    BY <1>12 DEF EmuCommand, PointInv
  <2>2. CASE Resume(c)
    BY <1>a, <2>1, <2>2 DEF Resume, GoOn, Faults, PointInv, InRun, vars, clientVars,
       sessionVars, pointVars, guestVars, flowVars, transportVars
  <2>3. CASE Leave(c)
    BY <1>a, <2>1, <2>3 DEF Leave, PointInv, InRun, vars, clientVars, sessionVars, pointVars,
       guestVars, flowVars, transportVars
  <2>4. CASE HandleCommand(c)
    BY <1>a, <2>1, <2>4 DEF HandleCommand, PointInv, InRun, vars, clientVars, sessionVars,
       pointVars, guestVars, flowVars, transportVars
  <2> QED BY <1>12, <2>2, <2>3, <2>4 DEF EmuCommand
<1>13. CASE BeginRun
  BY <1>13, <1>a DEF BeginRun, PointInv, InRun, vars, clientVars, sessionVars, pointVars,
     guestVars, flowVars, transportVars
<1>14. CASE Prepare
  BY <1>14, <1>a DEF Prepare, PointInv, InRun, vars, clientVars, sessionVars, pointVars,
     guestVars, flowVars, transportVars
<1>15. CASE UcReturn
  BY <1>15, <1>a DEF UcReturn, PointInv, InRun, vars, clientVars, sessionVars, pointVars,
     guestVars, flowVars, transportVars
<1>16. CASE HandleExit
  BY <1>16, <1>a DEF HandleExit, HandleApi, CompleteRun, PointInv, InRun, vars, clientVars,
     sessionVars, pointVars, guestVars, flowVars, transportVars
<1>17. CASE FinishRun
  BY <1>17, <1>a DEF FinishRun, Report, PointInv, InRun, vars, clientVars, sessionVars,
     pointVars, guestVars, flowVars, transportVars
<1>18. CASE ReportException
  BY <1>18, <1>a DEF ReportException, Report, PointInv, InRun, vars, clientVars, sessionVars,
     pointVars, guestVars, flowVars, transportVars
<1>19. CASE Close
  BY <1>19, <1>a DEF Close, PointInv, InRun, vars, clientVars, sessionVars, pointVars,
     guestVars, flowVars, transportVars
<1>20. CASE UcInstruction
  <2>1. UNCHANGED <<exec_breakpoints, epc>> /\ epc = "unicorn"
    BY <1>20 DEF UcInstruction, pointVars, flowVars
  <2>2. CASE OnCodeStops
    BY <1>20, <2>1, <2>2 DEF UcInstruction, PointInv, InRun
  <2>3. CASE ~OnCodeStops
    <3>1. PICK access \in {"none", "read", "write"}, outcome \in {"next", "api", "return", "fault"} :
            Execute(access, outcome)
      BY <1>20, <2>3 DEF UcInstruction
    <3>2. pc \in exec_breakpoints /\ ~stop_pending => fresh = pc
      BY <2>1, <2>3 DEF OnCodeStops, PointInv, InRun
    <3>3. ~missed'
      BY <3>1, <3>2 DEF Execute, PointInv
    <3>4. resume_pc' \notin exec_breakpoints'
      BY <1>a, <2>1, <3>1 DEF Execute, PointInv, InRun
    <3>5. native_exit' # "none" => pc' = Trap
      BY <3>1, <2>1 DEF Execute, PointInv
    <3> QED BY <2>1, <3>3, <3>4, <3>5 DEF PointInv, InRun
  <2> QED BY <2>2, <2>3
<1>21. ASSUME NEW kind \in {"timeout", "max_total_time"}, UcLimit(kind)
       PROVE  PointInv'
  BY <1>21, <1>a DEF UcLimit, PointInv, InRun, vars, clientVars, sessionVars, pointVars,
     guestVars, flowVars, transportVars
<1>22. CASE UNCHANGED vars
  BY <1>22, <1>a DEF vars, PointInv, InRun, vars, clientVars, sessionVars, pointVars, guestVars,
     flowVars, transportVars
<1> QED
  BY <1>1, <1>2, <1>3, <1>4, <1>5, <1>6, <1>7, <1>8, <1>9, <1>10, <1>11, <1>12, <1>13, <1>14,
     <1>15, <1>16, <1>17, <1>18, <1>19, <1>20, <1>21, <1>22 DEF Next, Reader, Emulator, Limit,
     Terminated

\* No instruction runs over its breakpoint: _resume_pc never hides one from a
\* later pass, from a later run or after the breakpoints changed.
THEOREM BreakpointsStop == Spec => []BreakpointStops
<1>1. Init => PointInv
  BY SessionAssumption DEF Init, PointInv, InRun
<1>2. PointInv => BreakpointStops
  BY DEF PointInv, BreakpointStops
<1> QED BY <1>1, <1>2, PointStep, TypeCorrect, PTL DEF Spec
=============================================================================
