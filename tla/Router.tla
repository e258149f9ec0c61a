------------------------------- MODULE Router -------------------------------
(***************************************************************************)
(* Routing: routing/route.hpp and routing/matcher.hpp.                     *)
(*                                                                         *)
(* match_api looks at the endpoints of an API in declaration order and     *)
(* keeps the best so far; one action is one step of that recursion.  The   *)
(* choice must not depend on the order of the declarations, and what the   *)
(* Allow header offers must be what a request would get.                   *)
(*                                                                         *)
(* A path is the sequence of its segments after the leading slash, each a  *)
(* sequence of characters: "/a/b" is <<a, b>>, "/" is one empty segment,   *)
(* "/a/" is a and an empty segment, and a target with no leading slash is  *)
(* <<>>.  The source "/" of a route is the empty pattern.  put, patch and  *)
(* delete_ are treated as post is by every line of the matcher, so post    *)
(* stands for them.                                                        *)
(***************************************************************************)
EXTENDS RoutePattern

Method  == {"get", "head", "options", "post"}
Outcome == {"found", "not_found", "method_not_allowed", "automatic_options"}

Apis  == Seq([method : Method, pattern : Seq(Segment)])
Paths == Seq(Text)

VARIABLES
    api, method, path,  \* the arguments of match_api
    index,              \* consider_routes: the next endpoint
    hasPath,            \* api_match_state::has_path_match
    best,               \* api_match::endpoint_index, 0 when there is none yet
    bestExact,          \* api_match_state::best_is_exact_method
    headFallback,       \* api_match::head_fallback
    explicitOptions,    \* api_match_state::explicit_options
    allow,              \* api_match::allow_mask
    route,              \* api_match::route, the captures
    outcome             \* api_match::outcome, "none" until match_api decides

routerVars == <<api, method, path, index, hasPath, best, bestExact, headFallback,
                explicitOptions, allow, route, outcome>>

-----------------------------------------------------------------------------
(* One pattern and one path.                                               *)

IsCatchAll(pattern) == pattern # <<>> /\ pattern[Len(pattern)].kind = "catch_all"

SegmentFits(segment, text) ==
    \/ segment.kind = "catch_all"
    \/ segment.kind = "parameter" /\ text # <<>>
    \/ segment.kind = "literal" /\ text = segment.text

\* Mutant: a trailing slash is not refused, so a catch-all may capture nothing.
Matches_TrailingSlash(pattern, p) ==
    /\ p # <<>>
    /\ pattern = <<>> => p = <<<<>>>>
    /\ IF IsCatchAll(pattern) THEN Len(p) >= Len(pattern)
                              ELSE pattern = <<>> \/ Len(p) = Len(pattern)
    /\ \A i \in DOMAIN pattern : SegmentFits(pattern[i], p[i])

\* match_route's verdict.  No route but "/" matches a path that ends in a slash.
Matches(pattern, p) ==
    /\ p # <<>>
    /\ (pattern = <<>>) <=> (p[Len(p)] = <<>>)
    /\ IF pattern = <<>> THEN p = <<<<>>>>
       ELSE IF IsCatchAll(pattern) THEN Len(p) >= Len(pattern)
                                   ELSE Len(p) = Len(pattern)
    /\ \A i \in DOMAIN pattern : SegmentFits(pattern[i], p[i])

\* match_route's captures, each a piece of the path: one segment for a
\* parameter, all that is left for a catch-all.
Captures(pattern, p) ==
    [i \in {j \in DOMAIN pattern : pattern[j].kind # "literal"} |->
        SubSeq(p, i, IF pattern[i].kind = "catch_all" THEN Len(p) ELSE i)]

\* segment_precedence; there is no segment after the last.
Rank(pattern, i) ==
    IF i \notin DOMAIN pattern THEN 0
    ELSE CASE pattern[i].kind = "literal"   -> 3
           [] pattern[i].kind = "parameter" -> 2
           [] pattern[i].kind = "catch_all" -> 1

\* more_specific: at the first segment where the ranks differ the candidate's is
\* the higher, and a longer pattern beats its own prefix.
MoreSpecific(candidate, current) ==
    \E i \in DOMAIN candidate :
        /\ \A j \in 1..(i - 1) : Rank(candidate, j) = Rank(current, j)
        /\ Rank(candidate, i) > Rank(current, i)

SameShape(left, right) ==
    /\ Len(left) = Len(right)
    /\ \A i \in DOMAIN left :
          /\ left[i].kind = right[i].kind
          /\ left[i].kind = "literal" => left[i].text = right[i].text

\* validate_route_pairs: the API compiles.
ValidRoutes(a) ==
    \A left, right \in DOMAIN a :
        left < right /\ a[left].method = a[right].method
            => ~SameShape(a[left].pattern, a[right].pattern)

-----------------------------------------------------------------------------
(* match_api.                                                              *)

RouterTypeOK ==
    /\ api \in Apis /\ method \in Method /\ path \in Paths
    /\ index \in 1..(Len(api) + 1)
    /\ best \in 0..(index - 1)
    /\ hasPath \in BOOLEAN /\ bestExact \in BOOLEAN
    /\ headFallback \in BOOLEAN /\ explicitOptions \in BOOLEAN
    /\ allow \subseteq Method
    /\ outcome \in Outcome \cup {"none"}

RouterInit ==
    /\ api \in {a \in Apis : ValidRoutes(a)}
    /\ method \in Method
    /\ path \in Paths
    /\ index = 1
    /\ hasPath = FALSE /\ best = 0 /\ bestExact = FALSE
    /\ headFallback = FALSE /\ explicitOptions = FALSE
    /\ allow = {} /\ route = <<>>
    /\ outcome = "none"

Exact(i)    == api[i].method = method
Fallback(i) == method = "head" /\ api[i].method = "get"

\* Mutant: GET does not offer HEAD.
OffersOf_NoHead(endpoint) == {endpoint.method, "options"}

\* The methods an endpoint whose path matches adds to the Allow mask.
OffersOf(endpoint) ==
    {endpoint.method, "options"} \cup (IF endpoint.method = "get" THEN {"head"} ELSE {})

\* Mutant: an exact method does not displace a HEAD fallback.
Replaces_IgnoreExact(i) ==
    \/ best = 0
    \/ (Exact(i) <=> bestExact) /\ MoreSpecific(api[i].pattern, api[best].pattern)

\* The endpoint displaces the best so far.
Replaces(i) ==
    \/ best = 0
    \/ Exact(i) /\ ~bestExact
    \/ (Exact(i) <=> bestExact) /\ MoreSpecific(api[i].pattern, api[best].pattern)

Keep(i) ==
    /\ best' = i
    /\ bestExact' = Exact(i)
    /\ headFallback' = Fallback(i)
    /\ route' = Captures(api[i].pattern, path)

\* consider_routes at an endpoint the path does not match.
Skip ==
    /\ index <= Len(api)
    /\ ~Matches(api[index].pattern, path)
    /\ index' = index + 1
    /\ UNCHANGED <<api, method, path, hasPath, best, bestExact, headFallback,
                   explicitOptions, allow, route, outcome>>

\* consider_routes at an endpoint the path matches.
Consider ==
    /\ index <= Len(api)
    /\ Matches(api[index].pattern, path)
    /\ index' = index + 1
    /\ hasPath' = TRUE
    /\ allow' = allow \cup OffersOf(api[index])
    /\ explicitOptions' = (explicitOptions \/ (method = "options" /\ Exact(index)))
    /\ IF (Exact(index) \/ Fallback(index)) /\ Replaces(index)
       THEN Keep(index)
       ELSE UNCHANGED <<best, bestExact, headFallback, route>>
    /\ UNCHANGED <<api, method, path, outcome>>

\* The rest of match_api.
Decide ==
    /\ index = Len(api) + 1
    /\ outcome = "none"
    /\ outcome' = IF method = "options" /\ hasPath /\ ~explicitOptions
                  THEN "automatic_options"
                  ELSE IF best # 0 THEN "found"
                  ELSE IF hasPath THEN "method_not_allowed" ELSE "not_found"
    /\ UNCHANGED <<api, method, path, index, hasPath, best, bestExact, headFallback,
                   explicitOptions, allow, route>>

RouterNext == Skip \/ Consider \/ Decide
RouterSpec == RouterInit /\ [][RouterNext]_routerVars

-----------------------------------------------------------------------------
(* Properties.                                                             *)

PathMatches(i)       == Matches(api[i].pattern, path)
Candidates(m)        == {i \in DOMAIN api :
                            /\ PathMatches(i)
                            /\ api[i].method = m \/ (m = "head" /\ api[i].method = "get")}
\* An endpoint of the method itself goes before a GET endpoint that stands in for
\* HEAD, whatever their patterns; then the more specific pattern goes first.
Beats(i, j) ==
    \/ Exact(i) /\ ~Exact(j)
    \/ (Exact(i) <=> Exact(j)) /\ MoreSpecific(api[i].pattern, api[j].pattern)

\* The endpoint found beats every other that could serve the request, whatever
\* order they were declared in: match_api keeps one best and compares each
\* endpoint with it only, so its order must be total and transitive on the
\* patterns that match one path.
BestChoice ==
    outcome = "found" =>
        /\ best \in Candidates(method)
        /\ \A i \in Candidates(method) \ {best} : Beats(best, i)
        /\ headFallback <=> Fallback(best)

\* What the Allow header says is what the server does: it names a method exactly
\* when a request with that method for the same path would not be refused.
AllowIsHonest ==
    outcome # "none" =>
        \A m \in Method :
            m \in allow <=> \/ Candidates(m) # {}
                            \/ m = "options" /\ \E i \in DOMAIN api : PathMatches(i)

-----------------------------------------------------------------------------
(* A reference definition of matching: a path matches a pattern when it is *)
(* the pattern with a piece of the path in the place of each segment.      *)

Pieces(p) == {SubSeq(p, i, j) : i \in DOMAIN p, j \in DOMAIN p} \ {<<>>}

StandsFor(segment, value) ==
    CASE segment.kind = "literal"   -> value = <<segment.text>>
      [] segment.kind = "parameter" -> Len(value) = 1 /\ value[1] # <<>>
      [] segment.kind = "catch_all" -> value[Len(value)] # <<>>

Fillings(pattern, p) ==
    {v \in [DOMAIN pattern -> Pieces(p)] : \A i \in DOMAIN pattern : StandsFor(pattern[i], v[i])}

\* Every segment but the last stands for one segment of the path.
Fill(pattern, values) ==
    IF pattern = <<>> THEN <<<<>>>>
    ELSE [i \in 1..(Len(pattern) - 1) |-> values[i][1]] \o values[Len(pattern)]

=============================================================================
