------------------------------- MODULE CexTicker --------------------------------
(***************************************************************************)
(* The ticker stream of the exchange connector                             *)
(* (connectors/cex/internal/binance/binance.go, SubscribeTickers) and the  *)
(* program that prints it (connectors/cex/cmd/binance/main.go).  The       *)
(* goroutine looks at ctx between two messages only: neither reading the   *)
(* socket nor sending on the unbuffered channel minds it.  The program     *)
(* does not look at it at all: it prints what it took from the channel,    *)
(* while the goroutine goes on, and takes the next one.                    *)
(*                                                                         *)
(* The exchange and the network are external: messages arrive in order,    *)
(* for as long as the exchange likes, until the socket fails.              *)
(***************************************************************************)
EXTENDS Naturals

CONSTANTS
  MaxInbox,  \* bound: messages that wait unread
  MaxLate    \* bound: late ticks counted

VARIABLES
  ctx,       \* live, or done: its 5 s are over
  loop,      \* the goroutine: none, checking, reading, sending, ended
  program,   \* main: subscribing, ranging, printing, ended
  socket,    \* open or failed
  inbox,     \* how many messages arrived and were not read
  late       \* ticks printed once ctx was done (history)

vars == <<ctx, loop, program, socket, inbox, late>>

Init ==
  /\ ctx = "live" /\ loop = "none" /\ program = "subscribing"
  /\ socket = "open" /\ inbox = 0 /\ late = 0

Deadline ==
  /\ ctx = "live"
  /\ ctx' = "done"
  /\ UNCHANGED <<loop, program, socket, inbox, late>>

(* DialContext succeeds and the goroutine starts, or the program ends. *)
Dial ==
  /\ program = "subscribing"
  /\ \/ ctx = "live" /\ program' = "ranging" /\ loop' = "checking"
     \/ program' = "ended" /\ UNCHANGED loop
  /\ UNCHANGED <<ctx, socket, inbox, late>>

Connected == loop \notin {"none", "ended"} /\ socket = "open"

Arrive ==
  /\ Connected /\ inbox < MaxInbox
  /\ inbox' = inbox + 1
  /\ UNCHANGED <<ctx, loop, program, socket, late>>

SocketFails ==
  /\ Connected
  /\ socket' = "failed"
  /\ UNCHANGED <<ctx, loop, program, inbox, late>>

(* Mutant: ctx is not looked at. *)
CheckNothing ==
  /\ loop = "checking"
  /\ loop' = "reading"
  /\ UNCHANGED <<ctx, program, socket, inbox, late>>

(* The select: it returns, and closes socket and channel, once ctx is done. *)
Check ==
  /\ loop = "checking"
  /\ loop' = IF ctx = "done" THEN "ended" ELSE "reading"
  /\ UNCHANGED <<ctx, program, socket, inbox, late>>

(* ReadMessage, with the messages that arrived before the socket failed.  A *)
(* message that does not decode is dropped.                                 *)
Read ==
  /\ loop = "reading"
  /\ \/ inbox > 0 /\ inbox' = inbox - 1 /\ loop' \in {"checking", "sending"}
     \/ inbox = 0 /\ socket = "failed" /\ loop' = "ended" /\ UNCHANGED inbox
  /\ UNCHANGED <<ctx, program, socket, late>>

(* The channel is not buffered: the tick changes hands when main is back at *)
(* the head of its loop, and the goroutine goes on.                         *)
HandOff ==
  /\ loop = "sending" /\ program = "ranging"
  /\ program' = "printing" /\ loop' = "checking"
  /\ UNCHANGED <<ctx, socket, inbox, late>>

PrintTick ==
  /\ program = "printing"
  /\ program' = "ranging"
  /\ late' = IF ctx = "done" /\ late < MaxLate THEN late + 1 ELSE late
  /\ UNCHANGED <<ctx, loop, socket, inbox>>

(* The channel is closed: the loop over it is through. *)
Return ==
  /\ program = "ranging" /\ loop = "ended"
  /\ program' = "ended"
  /\ UNCHANGED <<ctx, loop, socket, inbox, late>>

Next ==
  \/ Deadline \/ Dial \/ Arrive \/ SocketFails
  \/ Check \/ Read \/ HandOff \/ PrintTick \/ Return

Spec == Init /\ [][Next]_vars

(* The deadline comes; the goroutine and the program run. *)
Fairness ==
  /\ WF_vars(Deadline) /\ WF_vars(Dial) /\ WF_vars(Check) /\ WF_vars(Read)
  /\ WF_vars(HandOff) /\ WF_vars(PrintTick) /\ WF_vars(Return)

FairSpec == Spec /\ Fairness
-------------------------------------------------------------------------------
(* SubscribeTickers, main: the check between two messages and the channel   *)
(* without a buffer let at most two ticks through once ctx is done: one     *)
(* that main holds unprinted, and one the goroutine was reading or sending. *)
TwoLateTicksAtMost == late <= 2

Quiet == loop = "reading" /\ inbox = 0 /\ socket = "open"

(* main: the program ends after its deadline, however long the exchange     *)
(* goes on sending, unless it waits for a message on an open socket that    *)
(* stays quiet forever.                                                     *)
EndsUnlessQuiet == <>(program = "ended") \/ <>[]Quiet
===============================================================================
