----------------------------- MODULE Application ----------------------------
(***************************************************************************)
(* The middleware stack of an application and the typed dispatch inside    *)
(* it: application and flash::middleware of middleware.hpp, and            *)
(* application_handler, documentation_response and dispatch_with_state.    *)
(*                                                                         *)
(* A request goes in through the layers in declaration order, reaches the  *)
(* final handler, and its response, or the exception that was thrown,      *)
(* comes out through the same layers in reverse.  Several requests are on  *)
(* their way at once, on different workers; they share the counter that    *)
(* request IDs are generated from.  What routing decides is a choice here  *)
(* (Router models how it decides).                                         *)
(***************************************************************************)
EXTENDS Naturals, Sequences

CONSTANTS
    Request,        \* the requests that may be on their way
    Stacks,         \* the middleware lists considered
    ClientIds       \* the valid X-Request-ID values a client may send

Layer == {"request_id", "access_log", "recover_exceptions"}

ASSUME ApplicationAssumption ==
    /\ \A s \in Stacks : s \in Seq(Layer)
    /\ ClientIds \subseteq Nat

\* A request ID.  A generated one is told from any other by the counter's value:
\* its other half, the clock, only adds to that.
NoId      == [from |-> "nobody", number |-> 0]
ClientId  == [from : {"client"}, number : ClientIds]
RequestId == ClientId \cup [from : {"generator"}, number : Nat] \cup {NoId}

\* What comes out of a layer.  inBody is the ID a problem document names.
Response == [thrown : BOOLEAN, status : {200, 204, 400, 404, 405, 500},
             body : {"empty", "payload", "problem"},
             inBody : RequestId, header : RequestId]

Plain(status, body) == [thrown |-> FALSE, status |-> status, body |-> body,
                        inBody |-> NoId, header |-> NoId]
Problem(status, of)  == [thrown |-> FALSE, status |-> status, body |-> "problem",
                        inBody |-> of, header |-> NoId]
Nothing             == Plain(204, "empty")
Exception           == [Plain(500, "empty") EXCEPT !.thrown = TRUE]

VARIABLES
    stack,          \* application::middleware_
    sequence,       \* request_id::next_sequence_
    going,          \* which way the request is going
    depth,          \* the number of layers it is inside
    head,           \* its method is HEAD
    incoming,       \* the one valid X-Request-ID header, if there is one
    id,             \* request_context::request_id
    found,          \* history: an endpoint was dispatched
    response,       \* what the layers have made of it so far
    log             \* the entries the access log's sink received for it

appVars == <<stack, sequence, going, depth, head, incoming, id, found, response, log>>

ApplicationTypeOK ==
    /\ stack \in Stacks
    /\ sequence \in Nat
    /\ going \in [Request -> {"new", "in", "out", "sent", "dropped"}]
    /\ depth \in [Request -> 0..Len(stack)]
    /\ head \in [Request -> BOOLEAN]
    /\ incoming \in [Request -> ClientId \cup {NoId}]
    /\ id \in [Request -> RequestId]
    /\ found \in [Request -> BOOLEAN]
    /\ response \in [Request -> Response]
    /\ log \in [Request -> Seq([status : {200, 204, 400, 404, 405, 500}, id : RequestId])]

ApplicationInit ==
    /\ stack \in Stacks
    /\ sequence = 0
    /\ going = [r \in Request |-> "new"]
    /\ depth = [r \in Request |-> 0]
    /\ head = [r \in Request |-> FALSE]
    /\ incoming = [r \in Request |-> NoId]
    /\ id = [r \in Request |-> NoId]
    /\ found = [r \in Request |-> FALSE]
    /\ response = [r \in Request |-> Nothing]
    /\ log = [r \in Request |-> <<>>]

-----------------------------------------------------------------------------
(* Going in.                                                               *)

\* application_handler::operator(): the session calls it with the request.
Arrive(r) ==
    /\ going[r] = "new"
    /\ going' = [going EXCEPT ![r] = "in"]
    /\ \E isHead \in BOOLEAN : head' = [head EXCEPT ![r] = isHead]
    \* Two headers, or one that is not valid, count as none.
    /\ \E value \in ClientId \cup {NoId} : incoming' = [incoming EXCEPT ![r] = value]
    /\ UNCHANGED <<stack, sequence, depth, id, found, response, log>>

\* Mutant: the counter is read and not advanced.
AssignId_NoFetchAdd(r) ==
    /\ id' = [id EXCEPT ![r] = IF incoming[r] # NoId THEN incoming[r]
                               ELSE [from |-> "generator", number |-> sequence]]
    /\ UNCHANGED sequence

\* request_id before next(): the client's ID, or one from the atomic counter.
AssignId(r) ==
    IF incoming[r] # NoId
    THEN /\ id' = [id EXCEPT ![r] = incoming[r]]
         /\ UNCHANGED sequence
    ELSE /\ id' = [id EXCEPT ![r] = [from |-> "generator", number |-> sequence]]
         /\ sequence' = sequence + 1

Enter(r) ==
    /\ going[r] = "in" /\ depth[r] < Len(stack)
    /\ depth' = [depth EXCEPT ![r] = @ + 1]
    /\ IF stack[depth[r] + 1] = "request_id" THEN AssignId(r)
                                             ELSE UNCHANGED <<id, sequence>>
    /\ UNCHANGED <<stack, going, head, incoming, found, response, log>>

-----------------------------------------------------------------------------
(* The final handler.                                                      *)

TurnBack(r, answer, dispatched) ==
    /\ going' = [going EXCEPT ![r] = "out"]
    /\ response' = [response EXCEPT ![r] = answer]
    /\ found' = [found EXCEPT ![r] = dispatched]
    /\ UNCHANGED <<stack, sequence, depth, head, incoming, id, log>>

AtFinal(r) == going[r] = "in" /\ depth[r] = Len(stack)

\* documentation_response answers GET, HEAD and OPTIONS of its own paths.
Document(r) ==
    /\ AtFinal(r)
    /\ \/ head[r] /\ TurnBack(r, Plain(200, "empty"), FALSE)
       \/ /\ ~head[r]
          /\ \E answer \in {Plain(200, "payload"), Nothing, Problem(405, NoId)} :
                 TurnBack(r, answer, FALSE)

\* dispatch_with_state when no endpoint is found.
Reject(r) ==
    /\ AtFinal(r)
    /\ \/ \E status \in {404, 405} : TurnBack(r, Problem(status, id[r]), FALSE)
       \/ ~head[r] /\ TurnBack(r, Nothing, FALSE)           \* automatic OPTIONS

\* dispatch_with_state with an endpoint: its arguments do not bind, or it
\* returns a value, nothing or a mapped error.  HEAD gets no body.
Serve(r) ==
    /\ AtFinal(r)
    /\ \E answer \in {Problem(400, id[r]), Plain(200, "payload"), Nothing} :
           TurnBack(r, IF head[r] THEN Plain(answer.status, "empty") ELSE answer, TRUE)

\* The endpoint throws, and the code that clears the body is not reached.
Throw(r) ==
    /\ AtFinal(r)
    /\ TurnBack(r, Exception, TRUE)

-----------------------------------------------------------------------------
(* Coming out.                                                             *)

\* Mutant: the header is set on success only.
Stamp_OnlySuccess(r) ==
    /\ response' = [response EXCEPT ![r].header =
                        IF response[r].status < 400 THEN id[r] ELSE @]
    /\ UNCHANGED log

\* request_id after next(); an exception passes it by.
Stamp(r) ==
    /\ response' = [response EXCEPT ![r].header = IF response[r].thrown THEN @ ELSE id[r]]
    /\ UNCHANGED log

\* Mutant: an exception is logged with the default status.
Record_DefaultStatus(r) ==
    /\ log' = [log EXCEPT ![r] = Append(@,
                   [status |-> IF response[r].thrown THEN 200 ELSE response[r].status,
                    id |-> id[r]])]
    /\ UNCHANGED response

\* access_log::record; an exception is logged as 500 and thrown again.
Record(r) ==
    /\ log' = [log EXCEPT ![r] = Append(@, [status |-> response[r].status, id |-> id[r]])]
    /\ UNCHANGED response

\* Mutant: the problem document names the client's ID.
Recover_IncomingId(r) ==
    /\ response' = [response EXCEPT ![r] =
                        IF @.thrown THEN Problem(500, incoming[r]) ELSE @]
    /\ UNCHANGED log

\* recover_exceptions.
Recover(r) ==
    /\ response' = [response EXCEPT ![r] = IF @.thrown THEN Problem(500, id[r]) ELSE @]
    /\ UNCHANGED log

Leave(r) ==
    /\ going[r] = "out" /\ depth[r] > 0
    /\ depth' = [depth EXCEPT ![r] = @ - 1]
    /\ \/ stack[depth[r]] = "request_id" /\ Stamp(r)
       \/ stack[depth[r]] = "access_log" /\ Record(r)
       \/ stack[depth[r]] = "recover_exceptions" /\ Recover(r)
    /\ UNCHANGED <<stack, sequence, going, head, incoming, id, found>>

\* The session writes the response; it answers for an exception no layer caught.
Send(r) ==
    /\ going[r] = "out" /\ depth[r] = 0
    /\ going' = [going EXCEPT ![r] = "sent"]
    /\ response' = [response EXCEPT ![r] = IF @.thrown THEN Problem(500, NoId) ELSE @]
    /\ UNCHANGED <<stack, sequence, depth, head, incoming, id, found, log>>

\* The session was cancelled meanwhile: it writes nothing.
Drop(r) ==
    /\ going[r] = "out" /\ depth[r] = 0
    /\ going' = [going EXCEPT ![r] = "dropped"]
    /\ UNCHANGED <<stack, sequence, depth, head, incoming, id, found, response, log>>

ApplicationNext ==
    \E r \in Request :
        \/ Arrive(r) \/ Enter(r)
        \/ Document(r) \/ Reject(r) \/ Serve(r) \/ Throw(r)
        \/ Leave(r) \/ Send(r) \/ Drop(r)

ApplicationSpec == ApplicationInit /\ [][ApplicationNext]_appVars

-----------------------------------------------------------------------------
(* Properties.                                                             *)

Entries(r) == {log[r][i] : i \in DOMAIN log[r]}

\* In every stack, each access log reports the status the client got, also when
\* the endpoint threw and whichever layer, or the session, answered for it.
LogTellsStatus ==
    \A r \in Request :
        going[r] = "sent" => \A entry \in Entries(r) : entry.status = response[r].status

\* A request goes by one ID: the header of its response, its problem document and
\* its log entries never name two different ones, whatever the order of the
\* layers, although request_id may run after another layer has begun and, in a
\* stack with two of them, assigns a second ID.
OneIdPerRequest ==
    \A r \in Request :
        going[r] = "sent" =>
            /\ response[r].header \in {NoId, id[r]}
            /\ response[r].inBody \in {NoId, id[r]}
            /\ \A entry \in Entries(r) : entry.id = id[r]

\* Two requests never share a generated ID.
GeneratedIdsDiffer ==
    \A r, t \in Request :
        r # t /\ id[r].from = "generator" => id[t] # id[r]

\* With recovery inside request_id every response carries the ID, also when the
\* endpoint threw; the other way round the exception passes request_id by.
RecoveredKeepsId ==
    (\E i, j \in DOMAIN stack :
         i < j /\ stack[i] = "request_id" /\ stack[j] = "recover_exceptions")
    => \A r \in Request : going[r] = "sent" => response[r].header # NoId

\* What docs/api.md says of HEAD and the code does not do when the endpoint
\* throws: the response to a HEAD that an endpoint served has no body.
HeadSuppressesBody ==
    \A r \in Request :
        going[r] = "sent" /\ head[r] /\ found[r] => response[r].body = "empty"

=============================================================================
