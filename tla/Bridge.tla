------------------------------- MODULE Bridge -------------------------------
(***************************************************************************)
(* Calls into a WSL distribution, one after the other within the time of a *)
(* round.  The host starts wsl.exe, writes a script to its input, closes   *)
(* it, and polls until the child has exited or the call's time is over,    *)
(* while two threads read what the child prints (one of them is modelled). *)
(*                                                                         *)
(* The two pipes hold Pipe units; what is written to a full one waits.     *)
(* bash reads its script a command at a time, and runs each before it      *)
(* reads the next.                                                         *)
(*                                                                         *)
(* The names of the specification are those of the calls, so that what is  *)
(* said of a round (Sources) and of its calls can stand in one module.     *)
(***************************************************************************)
EXTENDS Integers, Sequences

CONSTANTS
  Calls,          \* the calls of a round: [script, prints], commands and output of each
  Pipe,           \* what a pipe holds
  Cap, Budget,    \* the time a call may take, and the round
  MaxLate,        \* bound: how long the host is watched in one place
  MaxTroubles

ASSUME BridgeAssumption ==
  /\ Calls \in Seq([script : Nat, prints : Nat])
  /\ Pipe \in Nat \ {0} /\ Cap \in Nat \ {0} /\ Budget \in Nat
  /\ MaxLate \in Nat /\ MaxTroubles \in Nat

VARIABLES
  left,      \* time left of the round; negative when it is over
  done,      \* calls that are answered
  call,      \* the call the host is in
  child,     \* wsl.exe: none, alive, wedged, exited or failed
  stdin, stdout, pending,   \* in the pipes; output of the running command
  troubles

pipes == <<stdin, stdout, pending>>
callVars == <<left, done, call, child, pipes, troubles>>

-----------------------------------------------------------------------------
Off == [step |-> "off", limit |-> 0, unsent |-> 0, wait |-> 0, polled |-> FALSE, spent |-> 0]
CurrentCall == Calls[done + 1]
At(step) == call.step = step
Ok == UNCHANGED troubles
Fault == troubles < MaxTroubles /\ troubles' = troubles + 1

Least(a, b) == IF a < b THEN a ELSE b

Limit_CapOnly == Cap

(* Deadline::budget_for: what is left of the round, the call's cap at most.*)
Limit == Least(left, Cap)

(* The call is over; whatever it was answered, the host goes on.  A child  *)
(* that was not waited for is not heard of again.                          *)
Answer ==
  /\ done' = done + 1 /\ call' = Off /\ child' = "none"
  /\ stdin' = 0 /\ stdout' = 0 /\ pending' = 0

Start ==
  /\ At("off") /\ done < Len(Calls)
  /\ IF left <= 0 THEN Ok /\ Answer
     ELSE \/ Fault /\ Answer
          \/ /\ Ok /\ child' = "alive"
             /\ call' = [Off EXCEPT !.step = "writing", !.limit = Limit, !.unsent = CurrentCall.script]
             /\ UNCHANGED <<done, pipes>>
  /\ UNCHANGED left

(* write_all: waits for room, however long.                                *)
WriteScript ==
  /\ At("writing") /\ call.unsent > 0 /\ child \in {"alive", "wedged"} /\ stdin < Pipe
  /\ call' = [call EXCEPT !.unsent = @ - 1] /\ stdin' = stdin + 1
  /\ UNCHANGED <<left, done, child, stdout, pending, troubles>>

WriteFails ==
  /\ At("writing") /\ call.unsent > 0 /\ child \in {"exited", "failed"}
  /\ Answer /\ UNCHANGED <<left, troubles>>

(* Only now the input is closed, and the time of the call begins.          *)
Close ==
  /\ At("writing") /\ call.unsent = 0
  /\ call' = [call EXCEPT !.step = "waiting", !.wait = call.limit]
  /\ UNCHANGED <<left, done, child, pipes, troubles>>

Draining_AfterExit == At("joining")

(* The reader threads read all along.                                      *)
Draining == At("waiting") \/ At("joining")

Drain ==
  /\ Draining /\ stdout > 0
  /\ stdout' = stdout - 1
  /\ UNCHANGED <<left, done, call, child, stdin, pending, troubles>>

Expired_Never == FALSE

Expired == call.wait = 0

(* try_wait; a child that takes too long is killed and waited for.         *)
Poll ==
  /\ At("waiting") /\ ~call.polled
  /\ \/ /\ child \in {"exited", "failed"}
        /\ call' = [call EXCEPT !.step = "joining"]
        /\ Ok /\ UNCHANGED <<done, child, pipes>>
     \/ child \in {"alive", "wedged"} /\ Expired /\ Ok /\ Answer
     \/ /\ child \in {"alive", "wedged"} /\ ~Expired
        /\ call' = [call EXCEPT !.polled = TRUE]
        /\ Ok /\ UNCHANGED <<done, child, pipes>>
     \/ Fault /\ Answer
  /\ UNCHANGED left

Join ==
  /\ At("joining") /\ stdout = 0
  /\ Answer /\ UNCHANGED <<left, troubles>>

-----------------------------------------------------------------------------
(* The child sees the end of its input once the host has closed it.        *)
InputClosed == At("waiting") \/ At("joining")

CanRead == pending = 0 /\ stdin > 0
CanPrint == pending > 0 /\ stdout < Pipe
CanExit == pending = 0 /\ stdin = 0 /\ InputClosed

ReadCommand ==
  /\ child = "alive" /\ CanRead
  /\ stdin' = stdin - 1 /\ pending' = CurrentCall.prints
  /\ UNCHANGED <<left, done, call, child, stdout, troubles>>

PrintOut ==
  /\ child = "alive" /\ CanPrint
  /\ pending' = pending - 1 /\ stdout' = stdout + 1
  /\ UNCHANGED <<left, done, call, child, stdin, troubles>>

Exit ==
  /\ child = "alive" /\ CanExit
  /\ child' = "exited"
  /\ UNCHANGED <<left, done, call, pipes, troubles>>

(* The distribution fails, or hangs.                                       *)
Trouble ==
  /\ child = "alive" /\ Fault
  /\ child' \in {"failed", "wedged"}
  /\ UNCHANGED <<left, done, call, pipes>>

(* Time passes between two polls, and while the host is writing or between *)
(* calls.                                                                  *)
Tick ==
  /\ At("off") \/ (At("writing") /\ call.spent < MaxLate) \/ (At("waiting") /\ call.polled)
  /\ left > -MaxLate
  /\ left' = left - 1
  /\ call' = [call EXCEPT !.polled = FALSE,
                          !.wait = IF At("waiting") THEN @ - 1 ELSE @,
                          !.spent = IF At("writing") THEN @ + 1 ELSE @]
  /\ UNCHANGED <<done, child, pipes, troubles>>

-----------------------------------------------------------------------------
CallsInit ==
  /\ left = Budget /\ done = 0 /\ call = Off /\ child = "none"
  /\ stdin = 0 /\ stdout = 0 /\ pending = 0 /\ troubles = 0

Host == Start \/ WriteScript \/ WriteFails \/ Close \/ Poll \/ Join
Child == ReadCommand \/ PrintOut \/ Exit \/ Trouble

CallsNext == Host \/ Drain \/ Child \/ Tick

CallsSpec == CallsInit /\ [][CallsNext]_callVars

(* The host and its reader thread run, and time passes.  Nothing is        *)
(* assumed of the child.                                                   *)
CallsFairSpec == CallsSpec /\ WF_callVars(Host) /\ WF_callVars(Drain) /\ WF_callVars(Tick)

-----------------------------------------------------------------------------
Times ==
  /\ left \in Int
  /\ call \in [step : {"off", "writing", "waiting", "joining"}, limit : Int, unsent : Nat,
               wait : Int, polled : BOOLEAN, spent : Nat]
Pipes ==
  /\ child \in {"none", "alive", "wedged", "exited", "failed"}
  /\ stdin \in 0..Pipe /\ stdout \in 0..Pipe /\ pending \in Nat
CallsTypeOK == Times /\ Pipes /\ done \in 0..Len(Calls) /\ troubles \in 0..MaxTroubles

(* Commands that print more than a pipe holds before all but a pipeful of  *)
(* the script, and the command that is being written, have been read.      *)
Overlong(c) == c.script > Pipe + 1 /\ c.prints * (c.script - Pipe - 1) > Pipe

(* wsl.rs, run_wsl and wait_with_deadline: host and child do not wait on   *)
(* each other.  As long as the child is well, it can go on, or the host    *)
(* can write or read what it needs to; the script is written before        *)
(* anything is read, so only one that is longer than the pipe and says     *)
(* more than the other pipe holds meanwhile can hang both.                 *)
NoSelfMadeDeadlock ==
  child = "alive" =>
    \/ CanRead \/ CanPrint \/ CanExit
    \/ Draining /\ stdout > 0
    \/ At("writing") /\ (call.unsent = 0 \/ stdin < Pipe \/ Overlong(CurrentCall))

(* deadline.rs: no call outlives the round.  In the code it does so by the *)
(* time it took to write the script, which is not part of its own.         *)
OutlivesByItsWriting ==
  At("waiting") => call.wait <= left + call.spent

(* Whatever the child does, the round's calls are all answered; unless the *)
(* host hangs in writing a script, for which there is no limit.            *)
CallsEnd == <>(done = Len(Calls)) \/ <>[](At("writing") /\ stdin = Pipe)
=============================================================================
