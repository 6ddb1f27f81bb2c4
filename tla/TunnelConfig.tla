----------------------------- MODULE TunnelConfig -----------------------------
(***************************************************************************)
(* mm_exec_wireguard_setconf (src/unnamed/part_007): fork a child that      *)
(* execs "wg setconf wg0 ...", wait for it with waitpid and decode its wait *)
(* status.  The main thread runs the function; the child and the SIGINT    *)
(* handler (handle_signal, src/src/netlink.c) are the other actors.  The   *)
(* handler is installed by sigaction with sa_flags 0, so a SIGINT taken     *)
(* while the main thread blocks in waitpid makes the call fail with EINTR. *)
(*                                                                         *)
(* The wait status is an integer encoded as the kernel encodes it: a child *)
(* that exits with code c gives c * 256, one killed by signal s gives s.   *)
(***************************************************************************)
EXTENDS Integers, TLAPS

CONSTANTS
    ExitCodes,   \* codes the child may exit with (255: execl failed)
    Signals      \* signals that may kill the child

\* What the constants mean: exit codes are bytes, and a signal number
\* fits the low seven bits of the wait status.
ConstantsOK ==
    /\ ExitCodes \subseteq 0 .. 255
    /\ Signals \subseteq 1 .. 127

VARIABLES
    pc,        \* main thread: "fork", "wait" or "returned"
    child,     \* "none", "running", "zombie" (exited, not waited) or "reaped"
    wstatus,   \* the child's wait status once it has ended
    ret,       \* the value returned to run_up_ipv4
    exitReq    \* exit_requested, set by handle_signal

vars == <<pc, child, wstatus, ret, exitReq>>

TypeOK ==
    /\ pc \in {"fork", "wait", "returned"}
    /\ child \in {"none", "running", "zombie", "reaped"}
    /\ wstatus \in 0 .. 255 * 256
    /\ ret \in -1 .. 255
    /\ exitReq \in BOOLEAN

\* The <sys/wait.h> decoding of a wait status.
WIFEXITED(st) == st % 128 = 0
WEXITSTATUS(st) == (st \div 256) % 256

Init ==
    /\ pc = "fork" /\ child = "none"
    /\ wstatus = 0 /\ ret = 0
    /\ exitReq = FALSE

\* fork(): the child is started, or fork fails and the function returns 1.
Fork ==
    /\ pc = "fork"
    /\ \/ /\ child' = "running" /\ pc' = "wait"
          /\ UNCHANGED ret
       \/ /\ ret' = 1 /\ pc' = "returned"
          /\ UNCHANGED child
    /\ UNCHANGED <<wstatus, exitReq>>

\* The child ends: wg exits with a code (or execl fails and it exits 255),
\* or a signal kills it.
ChildEnds ==
    /\ child = "running"
    /\ \/ \E c \in ExitCodes : wstatus' = c * 256
       \/ \E s \in Signals : wstatus' = s
    /\ child' = "zombie"
    /\ UNCHANGED <<pc, ret, exitReq>>

\* Mutant: the !WIFEXITED test dropped, WEXITSTATUS returned for any status.
WaitReturnsNoExitCheck ==
    /\ pc = "wait" /\ child = "zombie"
    /\ child' = "reaped"
    /\ ret' = WEXITSTATUS(wstatus)
    /\ pc' = "returned"
    /\ UNCHANGED <<wstatus, exitReq>>

\* waitpid reaps the ended child; an abnormal end returns -1, otherwise
\* the exit code is returned.
WaitReturns ==
    /\ pc = "wait" /\ child = "zombie"
    /\ child' = "reaped"
    /\ ret' = IF WIFEXITED(wstatus) THEN WEXITSTATUS(wstatus) ELSE -1
    /\ pc' = "returned"
    /\ UNCHANGED <<wstatus, exitReq>>

\* SIGINT: handle_signal sets exit_requested; if the main thread is blocked
\* in waitpid on a running child, the call fails with EINTR and the
\* function returns -1.  A child that has already exited is reaped before
\* the kernel looks for a pending signal, so waitpid then returns it.
HandleSignal ==
    /\ ~exitReq
    /\ exitReq' = TRUE
    /\ IF pc = "wait" /\ child = "running"
         THEN ret' = -1 /\ pc' = "returned"
         ELSE UNCHANGED <<ret, pc>>
    /\ UNCHANGED <<child, wstatus>>

\* The function has returned; the caller continues without this model.
Returned ==
    /\ pc = "returned"
    /\ UNCHANGED vars

Next == Fork \/ ChildEnds \/ WaitReturns \/ HandleSignal \/ Returned

Spec == Init /\ [][Next]_vars

-----------------------------------------------------------------------------
(* Properties.                                                             *)

\* run_up_ipv4 goes on to bring wg0 up only on a return of 0: the function
\* returns 0 only after it has reaped a child that exited normally with
\* code 0 (a child killed by a signal, or one that failed to exec, is never
\* taken for a successful wg setconf).
SuccessOnlyForCleanExit ==
    pc = "returned" /\ ret = 0 => child = "reaped" /\ wstatus = 0

\* spec.md (RunTunnelConfig): the function waits for the child to exit and
\* returns its exit code, so no child it started is still running or
\* unreaped when it returns.
ChildReapedOnReturn ==
    pc = "returned" /\ child # "none" => child = "reaped"

-----------------------------------------------------------------------------
(* Proof of SuccessOnlyForCleanExit for every set of exit codes and        *)
(* signals.  The wait status of an ended child is always one the kernel    *)
(* can produce; that is what makes the decoding in WaitReturns exact.      *)

\* The wait statuses of an ended child.
WaitStatuses == {c * 256 : c \in ExitCodes} \cup Signals

IInv ==
    /\ pc \in {"fork", "wait", "returned"}
    /\ child \in {"none", "running", "zombie", "reaped"}
    /\ ret \in Int
    /\ child \in {"zombie", "reaped"} => wstatus \in WaitStatuses
    /\ SuccessOnlyForCleanExit

\* The decoding of WaitReturns yields 0 only for the status of a clean
\* exit with code 0.
LEMMA DecodeZero ==
    ASSUME ConstantsOK, NEW w \in WaitStatuses,
           (IF WIFEXITED(w) THEN WEXITSTATUS(w) ELSE -1) = 0
    PROVE  w = 0
<1>1. CASE w \in Signals
      BY <1>1, ConstantsOK DEF ConstantsOK, WIFEXITED
<1>2. CASE w \in {c * 256 : c \in ExitCodes}
      BY <1>2 DEF ConstantsOK, WIFEXITED, WEXITSTATUS
<1>3. QED BY <1>1, <1>2 DEF WaitStatuses

LEMMA IInvInductive ==
    ASSUME ConstantsOK
    PROVE  IInv /\ [Next]_vars => IInv'
<1> SUFFICES ASSUME IInv, [Next]_vars PROVE IInv' OBVIOUS
<1>1. CASE Fork
      BY <1>1 DEF IInv, Fork, SuccessOnlyForCleanExit
<1>2. CASE ChildEnds
      BY <1>2 DEF IInv, ChildEnds, SuccessOnlyForCleanExit, WaitStatuses
<1>3. CASE WaitReturns
      <2>1. wstatus \in WaitStatuses
            BY <1>3 DEF IInv, WaitReturns
      <2>2. ret' = 0 => wstatus = 0
            BY <1>3, <2>1, DecodeZero DEF WaitReturns
      <2>3. wstatus \in Int
            <3>1. CASE wstatus \in Signals
                  BY <3>1, ConstantsOK DEF ConstantsOK
            <3>2. CASE \E c \in ExitCodes : wstatus = c * 256
                  BY <3>2, ConstantsOK DEF ConstantsOK
            <3>3. QED BY <2>1, <3>1, <3>2 DEF WaitStatuses
      <2>4. ret' \in Int
            BY <1>3, <2>3 DEF WaitReturns, WEXITSTATUS
      <2>5. QED BY <1>3, <2>1, <2>2, <2>4 DEF IInv, WaitReturns, SuccessOnlyForCleanExit
<1>4. CASE HandleSignal
      BY <1>4 DEF IInv, HandleSignal, SuccessOnlyForCleanExit
<1>5. CASE Returned \/ UNCHANGED vars
      BY <1>5 DEF IInv, Returned, vars, SuccessOnlyForCleanExit
<1>6. QED BY <1>1, <1>2, <1>3, <1>4, <1>5 DEF Next

\* mm_exec_wireguard_setconf reports success (0) only for a reaped child
\* that exited with code 0, whichever exit codes and killing signals are
\* possible and whenever SIGINT arrives.
THEOREM SuccessOnlyForCleanExitHolds ==
    ASSUME ConstantsOK
    PROVE  Spec => []SuccessOnlyForCleanExit
<1>1. Init => IInv
      BY DEF Init, IInv, SuccessOnlyForCleanExit
<1>2. IInv => SuccessOnlyForCleanExit
      BY DEF IInv
<1>3. QED BY <1>1, <1>2, IInvInductive, PTL DEF Spec

====
