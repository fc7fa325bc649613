------------------------------ MODULE ElwCore ------------------------------
(***************************************************************************)
(* A RI5KY core as the event unit sees it: the p.elw event load of its LSU *)
(* (cpu/iss_v2/src/cores/ri5ky/lsu.cpp) and the interrupt entry of the     *)
(* instruction-set simulator (external; modelled from how the LSU hooks    *)
(* and the irq_req/irq_ack wires of the event unit use it).                *)
(*                                                                         *)
(* The program counter is abstracted to what matters here: the core runs   *)
(* or is held by a parked p.elw (elw_entry); it is in an interrupt handler *)
(* or not; and the p.elw an interrupt made it abandon is still to be       *)
(* replayed or not.                                                        *)
(***************************************************************************)
EXTENDS CoreEventUnit

CONSTANT Elw,            \* what a p.elw can read: the event-unit registers
         ResumeCycles    \* fewest cycles from an answer to the next access

ASSUME ResumeAssumption == ResumeCycles \in Nat \ {0}

NoInsn == "none"

ElwCoreState == [ parked : BOOLEAN, elw_insn : Elw \cup {NoInsn},
                  replay : BOOLEAN, handler : BOOLEAN, mie : BOOLEAN,
                  stall : 0 .. ResumeCycles ]

ElwCoreReset == [ parked |-> FALSE, elw_insn |-> NoInsn, replay |-> FALSE,
                  handler |-> FALSE, mie |-> TRUE, stall |-> 0 ]

irq_enabled(p) == p.mie /\ ~p.handler

\* An interrupt is taken before the next instruction.
TakesIrq(p, e) ==
    ~p.parked /\ p.stall = 0 /\ irq_enabled(p) /\ e.irq_req # NoIrq

\* The core can execute an instruction; outside a handler an abandoned p.elw
\* is the next one.
CanIssue(p, e) == ~p.parked /\ p.stall = 0 /\ ~TakesIrq(p, e)
CanIssueElw(p, e, insn) ==
    CanIssue(p, e) /\ ~p.handler /\ (p.replay => p.elw_insn = insn)
CanIssueOther(p, e) == CanIssue(p, e) /\ (p.handler \/ ~p.replay)

\* elw(): the event unit parked the request, or answered it at once (the core
\* is held for a cycle at least; the configured refill can only add to it).
elw_parked(p, insn) == [p EXCEPT !.parked = TRUE, !.elw_insn = insn,
                                 !.replay = FALSE]
elw_done(p) == [p EXCEPT !.elw_insn = NoInsn, !.replay = FALSE, !.stall = 1]

\* req_retire_hook() and elw_wake(): the answer of the parked request.
elw_wake(p) == [p EXCEPT !.parked = FALSE, !.elw_insn = NoInsn,
                         !.stall = ResumeCycles]

\* irq_req_hook() and elw_irq_unstall(): the parked request is abandoned and
\* its entry freed, the p.elw is the next instruction.
elw_irq_unstall(p) == [p EXCEPT !.parked = FALSE, !.replay = TRUE, !.stall = 1]

\* Any other instruction takes a cycle.
issued(p) == [p EXCEPT !.stall = 1]

take_irq(p) == [p EXCEPT !.handler = TRUE, !.stall = 1]
mret(p)     == [p EXCEPT !.handler = FALSE, !.stall = 1]

step_cycle(p) == [p EXCEPT !.stall = IF @ > 0 THEN @ - 1 ELSE 0]

-----------------------------------------------------------------------------
(***************************************************************************)
(* The irq_req wire reaches the core in the call that changes it.  Given   *)
(* the units E and the cores P after a call, the units and the cores once  *)
(* the irq_req hooks have run.                                             *)
(***************************************************************************)
irq_req_hook(P, E, c) == P[c].parked /\ irq_enabled(P[c]) /\ E[c].irq_req # NoIrq

SettledUnits(E, P) ==
    [c \in Core |-> IF irq_req_hook(P, E, c)
                    THEN [E[c] EXCEPT !.pending_req = "freed"] ELSE E[c]]

SettledCores(E, P) ==
    [c \in Core |-> IF irq_req_hook(P, E, c)
                    THEN elw_irq_unstall(P[c]) ELSE P[c]]

(***************************************************************************)
(* Taking an interrupt clears the request the core has latched and         *)
(* acknowledges it to the event unit.                                      *)
(***************************************************************************)
acknowledged(e) == irq_ack_sync([e EXCEPT !.irq_req = NoIrq], e.irq_req)

(***************************************************************************)
(* The wake-up event of a unit is due: the unit answers the request it     *)
(* holds.  The core only reacts to the answer of the p.elw it is parked    *)
(* on; the answer of a request it has abandoned reaches nobody.            *)
(***************************************************************************)
answered(e) == [wakeup_handler(e) EXCEPT !.pending_req = "freed"]
retired(p, e) == IF p.parked /\ e.pending_req = "live" THEN elw_wake(p) ELSE p

=============================================================================
