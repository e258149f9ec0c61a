----------------------------- MODULE Components ------------------------------
(***************************************************************************)
(* api_schema_types of openapi/schema.hpp: which aggregates of the API get *)
(* a component, in which order and under which name.  collect_type goes    *)
(* depth first through the fields of an aggregate and ends on recursive    *)
(* types because an aggregate joins the list before its fields are seen.   *)
(*                                                                         *)
(* optional, vector and array are looked through both by collect_type and  *)
(* by append_schema, so a type is the aggregate beneath them, or Plain.    *)
(***************************************************************************)
EXTENDS Naturals, Sequences

CONSTANTS
    Object,         \* the aggregates
    Plain,          \* every other type
    Fields,         \* the types of an aggregate's data members
    NameOf          \* the component name an aggregate asks for

Type == Object \cup {Plain}

ASSUME ComponentsAssumption ==
    /\ Plain \notin Object
    /\ Fields \in [Object -> Seq(Type)]
    /\ DOMAIN NameOf = Object

VARIABLES
    collected,      \* the type_list, as far as it is made
    pending         \* the types still to be visited, the next one first

componentVars == <<collected, pending>>

-----------------------------------------------------------------------------

Listed(o) == \E i \in DOMAIN collected : collected[i] = o

\* Mutant: the fields of a new aggregate are forgotten.
Collect_OneLevel ==
    /\ pending # <<>>
    /\ pending' = Tail(pending)
    /\ collected' = IF Head(pending) = Plain \/ Listed(Head(pending)) THEN collected
                    ELSE Append(collected, Head(pending))

\* collect_type for the next type: a new aggregate, or nothing to add.
Collect ==
    /\ pending # <<>>
    /\ IF Head(pending) = Plain \/ Listed(Head(pending))
       THEN pending' = Tail(pending) /\ UNCHANGED collected
       ELSE /\ collected' = Append(collected, Head(pending))
            /\ pending' = Fields[Head(pending)] \o Tail(pending)

\* validate_component_names.
component_names_unique ==
    \A i, j \in DOMAIN collected : i # j => NameOf[collected[i]] # NameOf[collected[j]]

\* append_problem_components.
ProblemComponent == "Problem"

\* append_component: the aggregates the fields of o refer to.
References(o) == {t \in Object : \E i \in DOMAIN Fields[o] : Fields[o][i] = t}

=============================================================================
