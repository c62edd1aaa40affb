------------------------- MODULE ConcurrencyLimiter --------------------------
(***************************************************************************)
(* middleware.ConcurrencyLimiter (internal/middleware/concurrency.go): a   *)
(* server-wide semaphore, a channel with room for Max slots. A caller over *)
(* the cap waits for a slot until maxWait has passed or its client is      *)
(* gone. When a slot is free and the wait is over, select takes either.    *)
(***************************************************************************)
EXTENDS Integers, FiniteSets

CONSTANTS Worker,    \* requests that call Acquire: /file and, through Middleware, /probe
          MaxSlots   \* the capacity of the channel

ASSUME WorkerAssumption == IsFiniteSet(Worker)
ASSUME MaxSlotsAssumption == MaxSlots \in Nat

VARIABLES slots,    \* len(c.slots)
          place     \* where each caller is

clVars == <<slots, place>>

Place == {"outside", "waiting", "inside"}

CLTypeOK ==
    /\ slots \in Int
    /\ place \in [Worker -> Place]

\* Wrong: the channel is one larger than the limit.
TakeExtraSlot == slots <= MaxSlots /\ slots' = slots + 1

\* c.slots <- struct{}{}
TakeSlot == slots < MaxSlots /\ slots' = slots + 1

\* Wrong: a release that takes nothing out.
KeepSlot == UNCHANGED slots

\* <-c.slots blocks on an empty channel.
GiveSlot == slots > 0 /\ slots' = slots - 1

CLInit ==
    /\ slots = 0
    /\ place = [c \in Worker |-> "outside"]

Move(c, from, to) == place[c] = from /\ place' = [place EXCEPT ![c] = to]

\* The call of Acquire starts its timer.
Wait(c) == Move(c, "outside", "waiting") /\ UNCHANGED slots

EnterSlot(c) == Move(c, "waiting", "inside") /\ TakeSlot

\* Wrong: waits without a timeout.
NeverGiveUp(c) == FALSE

\* ctx.Done: the wait timed out or the client has gone.
GiveUp(c) == Move(c, "waiting", "outside") /\ UNCHANGED slots

LeaveSlot(c) == Move(c, "inside", "outside") /\ GiveSlot

CLNext == \E c \in Worker : Wait(c) \/ EnterSlot(c) \/ GiveUp(c) \/ LeaveSlot(c)

CLSpec == CLInit /\ [][CLNext]_clVars

\* The timer of Acquire fires. Nothing obliges a caller inside to leave: /file
\* keeps its slot for as long as it streams.
CLFairSpec == CLSpec /\ \A c \in Worker : WF_clVars(GiveUp(c))

-----------------------------------------------------------------------------
(* Properties. *)

Inside == { c \in Worker : place[c] = "inside" }

\* The channel holds one element for each caller inside.
SlotsAreHolders == slots = Cardinality(Inside)

\* The cap: at most Max callers inside ("bounds how many requests are inside
\* the wrapped handler at once", concurrency.go:9).
AtMostMaxSlots == Cardinality(Inside) <= MaxSlots

\* A release never blocks: it would stall the handler's other deferred calls.
ReleaseNeverBlocks == Inside # {} => slots > 0

\* A caller over the cap does not wait forever, even if those inside never
\* leave ("waits briefly for a slot", concurrency.go:11).
EveryWaitEnds == \A c \in Worker : place[c] = "waiting" ~> place[c] # "waiting"
=============================================================================
