------------------------------ MODULE PageRegion ------------------------------
(***************************************************************************)
(* What the page allocator of a region promises its callers, after the     *)
(* comments of synos/mm.h: a block of 2^order pages is taken from the free *)
(* pages and given to nobody else until it is freed, and a request is      *)
(* refused only when no such block is free.  Nothing here knows of orders' *)
(* lists, of splitting or of merging.                                      *)
(***************************************************************************)
EXTENDS FreeArea

CONSTANTS
    Procs,       \* the callers
    NPages,      \* the pages of the region
    NoBlock      \* what a refused caller gets

VARIABLES
    free,        \* the free pages
    held,        \* the blocks that callers hold
    call         \* what each caller is waiting for, or has been answered

regionVars == <<free, held, call>>

Idle == [state |-> "idle"]
AskFor(W)   == [state |-> "ask", wanted |-> W]    \* any one of the blocks W
FreeCall(b) == [state |-> "free", block |-> b]
Answered(b) == [state |-> "answered", block |-> b]

(* The blocks of an order in the region: aligned, whole and inside. *)
BlocksOf(o) ==
    IF o \in Orders THEN {o} \X (0 .. free_area_length(NPages, o) - 1) ELSE {}

Pages(b) == BlockPages(b[1], b[2])

RInit ==
    /\ free = 0 .. NPages - 1
    /\ held = {}
    /\ call = [p \in Procs |-> Idle]

(* A caller asks for some block of an order, or for one block. *)
Ask(p) ==
    /\ call[p] = Idle
    /\ \/ \E o \in 0 .. MAX_ORDER : call' = [call EXCEPT ![p] = AskFor(BlocksOf(o))]
       \/ \E b \in UNION {BlocksOf(o) : o \in Orders} :
            call' = [call EXCEPT ![p] = AskFor({b})]
    /\ UNCHANGED <<free, held>>

GiveBack(p) ==
    /\ call[p] = Idle
    /\ \E b \in held : /\ held' = held \ {b}
                       /\ call' = [call EXCEPT ![p] = FreeCall(b)]
    /\ UNCHANGED free

Grant(p) ==
    /\ call[p].state = "ask"
    /\ \E b \in call[p].wanted :
         /\ Pages(b) \subseteq free
         /\ free' = free \ Pages(b)
         /\ call' = [call EXCEPT ![p] = Answered(b)]
    /\ UNCHANGED held

Refuse(p) ==
    /\ call[p].state = "ask"
    /\ \A b \in call[p].wanted : ~ (Pages(b) \subseteq free)
    /\ call' = [call EXCEPT ![p] = Answered(NoBlock)]
    /\ UNCHANGED <<free, held>>

(* No block is as large as what was asked for. *)
Decline(p) ==
    /\ call[p] = AskFor({})
    /\ call' = [call EXCEPT ![p] = Idle]
    /\ UNCHANGED <<free, held>>

Release(p) ==
    /\ call[p].state = "free"
    /\ free' = free \cup Pages(call[p].block)
    /\ call' = [call EXCEPT ![p] = Answered(NoBlock)]
    /\ UNCHANGED held

Answer(p) ==
    /\ call[p].state = "answered"
    /\ held' = held \cup ({call[p].block} \ {NoBlock})
    /\ call' = [call EXCEPT ![p] = Idle]
    /\ UNCHANGED free

RNext == \E p \in Procs :
    \/ Ask(p) \/ Grant(p) \/ Refuse(p) \/ Decline(p)
    \/ GiveBack(p) \/ Release(p) \/ Answer(p)

RSpec == RInit /\ [][RNext]_regionVars
=============================================================================
