------------------------------ MODULE Endpoint -------------------------------
(***************************************************************************)
(* What the compiler makes of the declaration of an endpoint: where each   *)
(* parameter comes from (binding/meta.hpp) and what the OpenAPI document   *)
(* says of it (openapi/document.hpp).                                      *)
(*                                                                         *)
(* An endpoint has an identifier, a method, the path of its annotation,    *)
(* parameters and a result.  A parameter has an identifier, its source     *)
(* annotations, a storage class, the type beneath its wrappers and its     *)
(* number of defaults.  A result has a form, a type and, when it is an     *)
(* expected, the statuses of its error_map in order; awaitable changes     *)
(* nothing.  The method post stands for post, put and patch.               *)
(***************************************************************************)
EXTENDS RouteGrammar

Storage == {"scalar", "optional", "aggregate", "context", "state"}
Form    == {"void", "text", "bytes", "message", "created", "response", "value"}

\* The statuses of response.hpp.
Status == {200, 201, 204, 400, 401, 403, 404, 405, 408, 409, 413, 415, 422, 500, 503}

-----------------------------------------------------------------------------
(* binding/meta.hpp, for an endpoint e whose route was parsed to pattern.  *)

wire_name(p) ==
    IF p.annotations # <<>> /\ p.annotations[1].wire # <<>> THEN p.annotations[1].wire
    ELSE p.identifier

\* Mutant: the identifier is looked for in the route even when a wire name was given.
parameter_source_Identifier(e, pattern, p) ==
    IF Named(pattern, p.identifier) THEN "path"
    ELSE IF p.annotations # <<>> THEN p.annotations[1].source
    ELSE IF p.storage \in {"context", "state"} THEN p.storage
    ELSE IF p.storage = "aggregate" /\ e.method = "post" THEN "body"
    ELSE "query"

\* An annotation decides, then the route, then the type and the method.
parameter_source(e, pattern, p) ==
    IF p.annotations # <<>> THEN p.annotations[1].source
    ELSE IF Named(pattern, wire_name(p)) THEN "path"
    ELSE IF p.storage \in {"context", "state"} THEN p.storage
    ELSE IF p.storage = "aggregate" /\ e.method = "post" THEN "body"
    ELSE "query"

\* The parameter counts as a binding of the placeholder n.
Binds(p, n) ==
    IF p.annotations = <<>> THEN p.identifier = n
    ELSE p.annotations[1].source = "path" /\ wire_name(p) = n

every_placeholder_is_bound_once(e, pattern) ==
    \A i \in Placeholders(pattern) :
        \E k \in DOMAIN e.params :
            \A j \in DOMAIN e.params : Binds(e.params[j], pattern[i].text) <=> j = k

every_explicit_path_exists(e, pattern) ==
    \A k \in DOMAIN e.params :
        parameter_source(e, pattern, e.params[k]) = "path" => Named(pattern, wire_name(e.params[k]))

parameter_annotations_valid(e) ==
    \A k \in DOMAIN e.params :
        Len(e.params[k].annotations) <= 1 /\ e.params[k].defaults <= 1

Bodies(e, pattern) == {k \in DOMAIN e.params : parameter_source(e, pattern, e.params[k]) = "body"}

\* The first assertion that fails.
validate_endpoint_binding(e, pattern) ==
    IF ~parameter_annotations_valid(e) THEN "E301"
    ELSE IF ~every_placeholder_is_bound_once(e, pattern) THEN "E302"
    ELSE IF ~every_explicit_path_exists(e, pattern) THEN "E303"
    ELSE IF \E j, k \in Bodies(e, pattern) : j # k THEN "E305"
    ELSE "none"

-----------------------------------------------------------------------------
(* openapi/document.hpp: one operation.                                    *)

\* Mutant: the star stays.
append_openapi_path_KeepStar(s) == s

\* append_openapi_path: {*name} becomes {name}.
append_openapi_path(s) ==
    LET K[i \in Nat] ==
          IF i > Len(s) THEN <<>>
          ELSE IF s[i] = "{" /\ i < Len(s) /\ s[i + 1] = "*" THEN <<"{">> \o K[i + 2]
          ELSE <<s[i]>> \o K[i + 1]
    IN  K[1]

Required(e, pattern, p) ==
    parameter_source(e, pattern, p) = "path" \/ (p.storage # "optional" /\ p.defaults = 0)

\* append_parameters, by the places of the parameters; what comes from the body or from the
\* server is left out.
append_parameters(e, pattern) ==
    LET from(k) == parameter_source(e, pattern, e.params[k])
    IN  [k \in {k \in DOMAIN e.params : from(k) \in {"path", "query", "header", "cookie"}} |->
            [label |-> wire_name(e.params[k]), in |-> from(k),
             required |-> Required(e, pattern, e.params[k])]]

success_status(result) ==
    CASE result.form = "created" -> 201
      [] result.form = "void"    -> 204
      [] OTHER                   -> 200

\* The media type of append_success_response; "none" where there is no content.
SuccessContent(result) ==
    CASE result.form \in {"void", "message"} -> "none"
      [] result.form = "text"                -> "text/plain"
      [] result.form = "bytes"               -> "application/octet-stream"
      [] OTHER                               -> "application/json"

Problem(status) == [status |-> status, content |-> "application/problem+json"]

\* append_domain_responses: a status that two errors share, and the one of success, is written
\* once, for the first of the errors.
append_domain_responses(result) ==
    [i \in {i \in DOMAIN result.errors :
              /\ result.errors[i] # success_status(result)
              /\ \A j \in 1..(i - 1) : result.errors[j] # result.errors[i]} |->
        Problem(result.errors[i])]

\* append_success_response, then append_error_responses, which adds 422 unless an error is
\* mapped to it; the members of "responses" by their position.
Responses(result) ==
    LET domain   == append_domain_responses(result)
        n        == Len(result.errors) + 1
        Implicit == IF \E i \in DOMAIN result.errors : result.errors[i] = 422 THEN {} ELSE {n}
    IN  [i \in {0} \cup DOMAIN domain \cup Implicit |->
            IF i = 0 THEN [status |-> success_status(result), content |-> SuccessContent(result)]
            ELSE IF i = n THEN Problem(422) ELSE domain[i]]

append_operation(e, pattern) ==
    [id |-> e.id, method |-> e.method, parameters |-> append_parameters(e, pattern),
     body |-> [k \in Bodies(e, pattern) |-> e.params[k].type], responses |-> Responses(e.result)]

=============================================================================
