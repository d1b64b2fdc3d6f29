------------------------------ MODULE MCCalls -------------------------------
(* Calls over connections that are lost, and the signals that end calls, on *)
(* an instance small enough for TLC.  A behaviour is of the part that       *)
(* `focus` names, with the fairness of its module, and leaves the other as  *)
(* it was.                                                                  *)
EXTENDS CallProtocol

CONSTANTS Req, Threads

VARIABLES
  focus,
  enabled, kind, req, latch, own, shared, work, irq, counted, owed

irqVars == <<enabled, kind, req, latch, own, shared, work, irq, counted, owed>>

P == INSTANCE Interrupts

(* A part that is not looked at starts in one of its states.                *)
MCInit ==
  /\ focus \in {"calls", "interrupts"} /\ Init /\ P!Init
  /\ focus # "interrupts" => ~enabled /\ kind = [r \in Req |-> CHOOSE k \in Threads : TRUE]

MCNext ==
  \/ focus = "calls" /\ Next /\ UNCHANGED <<focus, irqVars>>
  \/ focus = "interrupts" /\ P!Next /\ UNCHANGED <<focus, vars>>

MCSpec ==
  /\ MCInit /\ [][MCNext]_<<focus, vars, irqVars>>
  /\ WF_vars(focus = "calls" /\ \E x \in Exchange : GoesOn(x))
  /\ \A r \in Req : /\ WF_irqVars(focus = "interrupts" /\ P!Queue(r))
                    /\ WF_irqVars(focus = "interrupts" /\ P!Run(r))
                    /\ WF_irqVars(focus = "interrupts" /\ P!GiveUp(r))
                    /\ WF_irqVars(focus = "interrupts" /\ P!Interrupt(r))
                    /\ WF_irqVars(focus = "interrupts" /\ P!Judge(r))
                    /\ WF_irqVars(focus = "interrupts" /\ P!Honour(r))
                    /\ WF_irqVars(focus = "interrupts" /\ P!Ignore(r))
                    /\ WF_irqVars(focus = "interrupts" /\ P!Watch(r))

(* A call fails with EINTR only for a signal that was there, or when it     *)
(* could not be told, and its interrupt is counted by then (fuse.rs,        *)
(* interrupt; signals.rs).                                                  *)
EintrIsOwed == P!EintrIsOwed

(* No thread stays blocked in a request with a signal pending for it        *)
(* (fuse.rs, interrupt's watcher).                                          *)
SignalEnds == P!SignalEnds
=============================================================================
