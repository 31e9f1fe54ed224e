------------------------- MODULE MCCeremonyInstance -------------------------
(***************************************************************************)
(* Three small definitions to run the aggregate under, each chosen for     *)
(* what it makes happen, and the sets common to them.                      *)
(*                                                                         *)
(*  Pipe: one sequential state of two steps.  The first has a timeout and  *)
(*        may be tried twice, the second repeats until its output is ok.   *)
(*  Fan:  one concurrent state of three steps, two of which may run at     *)
(*        once, under roles that may serve more than one of them.          *)
(*  Loop: two states that may follow each other repeatedly, the first      *)
(*        repeating as a whole, the second left on a person's word.        *)
(***************************************************************************)
EXTENDS CeremonyInstance, TLC

CONSTANTS k1, k2, k3

SomeKeys == {k1, k2, k3}
SomeSymmetry == Permutations(SomeKeys)

(* Keys are interchangeable, so nothing is lost if they are used in order. *)
(* It stands for a symmetry set where liveness is checked, which allows    *)
(* none.                                                                   *)
InOrder(keys) == \A k \in keys : 1..k \subseteq keys
OrderedNext == Next /\ InOrder(idempotencyKeys')
OrderedLiveSpec == Init /\ [][OrderedNext]_vars /\ Fairness

MCConditions == {"ok"}
Result(status, output) == [status |-> status, output |-> output]
SureResults == { Result("completed", {"ok"}), Result("failed", {}) }
OpenResults == { Result("completed", {"ok"}), Result("completed", {}) }
AllResults  == { Result("completed", {"ok"}), Result("completed", {}),
                 Result("failed", {}), Result("waiting_for_human", {}) }

Edge(from, trigger, to, guards) ==
    [from |-> from, trigger |-> trigger, to |-> to, guards |-> guards]
Kind(kind) == [kind |-> kind]
None == {}
One  == {1}
Two  == {2}
Three == {3}
Four == {4}

-----------------------------------------------------------------------------
PipeStates  == {"draft", "done"}
PipeSteps   == {"write", "check"}
PipeRoles   == {"author"}
PipeGuards  == {"worked"}
PipeTerminal == {"done"}
PipeStepsForState == [st \in PipeStates |->
    IF st = "draft" THEN <<"write", "check">> ELSE <<>>]
PipeTransitions == { Edge("draft", "finish", "done", {"worked"}) }
PipeGuardCondition == [g \in PipeGuards |-> Kind("all_steps_completed")]
PipeMaxAttempts == [s \in PipeSteps |-> 2]
PipeStepRepeat == [s \in PipeSteps |->
    IF s = "check" THEN {[until |-> "ok", max |-> 2]} ELSE {}]
PipeStateRepeat == [st \in PipeStates |-> {}]
PipeRolesForStep == [s \in PipeSteps |-> {"author"}]
PipeRoleIdForStep == [s \in PipeSteps |-> "author"]
PipeStepTimeout == [s \in PipeSteps |-> IF s = "write" THEN {2} ELSE {}]

-----------------------------------------------------------------------------
FanStates  == {"build", "done"}
FanSteps   == {"left", "right", "extra"}
FanRoles   == {"alice", "bob", "carol"}
FanGuards  == {"joined"}
FanTerminal == {"done"}
FanStepsForState == [st \in FanStates |->
    IF st = "build" THEN <<"left", "right", "extra">> ELSE <<>>]
FanConcurrent == {"build"}
FanTransitions == { Edge("build", "join", "done", {"joined"}) }
FanGuardCondition == [g \in FanGuards |-> [kind |-> "steps_completed", count |-> 2]]
FanMaxAttempts == [s \in FanSteps |-> 2]
FanStepRepeat == [s \in FanSteps |-> {}]
FanStateRepeat == [st \in FanStates |-> {}]
FanRolesForStep == [s \in FanSteps |->
    CASE s = "left" -> {"alice", "bob"} [] s = "right" -> {"bob"} [] OTHER -> {"carol"}]
FanRoleIdForStep == [s \in FanSteps |->
    CASE s = "left" -> "alice" [] s = "right" -> "bob" [] OTHER -> "carol"]
FanStepTimeout == [s \in FanSteps |-> {}]

-----------------------------------------------------------------------------
LoopStates  == {"draft", "review", "done"}
LoopSteps   == {"plan", "write", "vet"}
LoopRoles   == {"author"}
LoopGuards  == {"written", "rework", "accepted", "spent"}
LoopTerminal == {"done"}
LoopStepsForState == [st \in LoopStates |->
    CASE st = "draft" -> <<"plan", "write">> [] st = "review" -> <<"vet">> [] OTHER -> <<>>]
LoopTransitions == {
    Edge("draft", "submit", "review", {"written"}),
    Edge("draft", "give_up", "done", {"spent"}),
    Edge("review", "send_back", "draft", {"rework"}),
    Edge("review", "accept", "done", {"accepted"}) }
LoopGuardCondition == [g \in LoopGuards |->
    CASE g = "written" -> [kind |-> "step_status", step |-> "write", status |-> "completed"]
      [] g = "rework" -> Kind("always")
      [] g = "spent" -> [kind |-> "state_repeat_exhausted", state |-> "draft"]
      [] OTHER -> Kind("human_approval")]
LoopMaxAttempts == [s \in LoopSteps |-> 2]
LoopStepRepeat == [s \in LoopSteps |-> {}]
LoopStateRepeat == [st \in LoopStates |->
    IF st = "draft" THEN {[step |-> "write", until |-> "ok", max |-> 2]} ELSE {}]
LoopRolesForStep == [s \in LoopSteps |-> {"author"}]
LoopRoleIdForStep == [s \in LoopSteps |-> "author"]
LoopStepTimeout == [s \in LoopSteps |-> IF s = "vet" THEN {2} ELSE {}]
=============================================================================
