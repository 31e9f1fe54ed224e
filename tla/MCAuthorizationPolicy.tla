----------------------- MODULE MCAuthorizationPolicy -----------------------
(***************************************************************************)
(* Two principals, two grants and two requests, used in order.  Without    *)
(* separation of duties the grants are delegations, with it they are the   *)
(* duties.                                                                 *)
(***************************************************************************)
EXTENDS AuthorizationPolicy, FiniteSets, TLC

CONSTANTS a, b

Root(to, actions, depth, until) ==
    [by |-> Owner, to |-> to, parent |-> {}, actions |-> actions,
     depth |-> depth, until |-> until]

Delegated(actions, depth, until) ==
    [by |-> a, to |-> b, parent |-> {1}, actions |-> actions,
     depth |-> depth, until |-> until]

(* The owner lets a delegate, for good or for a while; a tries to hand on  *)
(* what it holds, and more than it holds.                                  *)
Delegations ==
    { Root(a, {"issue", "run", "claim"}, 1, until) : until \in {{}, {1}} }
    \cup { Delegated({"run"}, depth, {}) : depth \in {0, 1} }
    \cup { Delegated({"run"}, 0, {1}), Delegated({"issue", "run"}, 0, {1}) }

(* The owner lets one approve what the other runs, or each do both.        *)
Duties ==
    { Root(to, {"run", "approve"}, 0, {}) : to \in {a, b} }
    \cup { Root(a, {"approve"}, 0, {}), Root(b, {"run"}, 0, {}) }

DelegationsAndDuties == Delegations \cup Duties

(* Ids and requests are interchangeable and are used in order; of two      *)
(* operations the first to start is the first.  Approvals are asked for    *)
(* and cited where the policy wants them; two operations at once, a second *)
(* request and a second grant do not all come together.                    *)
Used(S) == \A n \in S : 1..n \subseteq S
Asking == { desk[p].request : p \in { q \in Desks : desk[q].pc = "decide" } }
Called == { r \in Asking \cup { d.request : d \in decisions } : r.id[1] = "call" }
Busy(p) == desk[p].pc # "idle"

Bounds ==
    /\ Used(Issued) /\ Used({ r.id[2] : r \in Called })
    /\ Busy(1) /\ Busy(2) => Cardinality(Issued) <= 1
    /\ IF separated
       THEN /\ \A g \in Issued : Grant(g) \in Duties
            /\ ~Busy(2) /\ \A r \in Called : r.action # "claim"
       ELSE /\ \A g \in Issued : Grant(g) \in Delegations
            /\ \A r \in Called : r.id[2] = 1 /\ r.action # "approve" /\ r.approval = {}

MCSpec ==
    /\ Init
    /\ [][Next /\ Bounds' /\ (~Busy(2) /\ Busy(2)' => Busy(1))]_vars
    /\ Fairness
=============================================================================
