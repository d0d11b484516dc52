----------------------------- MODULE RoutePath -----------------------------
(***************************************************************************)
(* Paths, segments and methods as the route table sees them.  A path is a  *)
(* sequence of bytes; "/" ends a segment, ":" at the start of one makes it *)
(* a parameter, "?" stands for the bytes that end the path of a request.   *)
(* A Str kept by a table is a view [r, lo, hi] of routes[r].path.          *)
(***************************************************************************)
EXTENDS Naturals, Sequences, SequencesExt, FiniteSetsExt

CONSTANTS MaxPathLen, MaxPathSegments, MaxRouteParams

MethodKeys == {"any", "GET", "POST", "PUT", "DELETE", "PATCH", "HEAD", "OPTIONS",
               "CONNECT", "TRACE"}

\* Legacy callers pass the first byte of the method.
route_method_key_from_legacy_char(m) ==
    CASE m = "G" -> "GET" [] m = "P" -> "POST" [] m = "D" -> "DELETE" [] m = "H" -> "HEAD"
      [] m = "O" -> "OPTIONS" [] m = "C" -> "CONNECT" [] m = "T" -> "TRACE" [] OTHER -> m

\* route_method_slot: a slot exists for the known keys only.
HasSlot(m) == route_method_key_from_legacy_char(m) \in MethodKeys

\* Leading and trailing slashes do not count; slashes in the middle do.
CanonBounds(p) ==
    LET solid == { i \in DOMAIN p : p[i] # "/" }
    IN  IF solid = {} THEN <<1, 0>> ELSE <<Min(solid), Max(solid)>>

finalize_path_canonical(p) == LET b == CanonBounds(p) IN SubSeq(p, b[1], b[2])

canonicalize_request(p) ==
    LET stops == { i \in DOMAIN p : p[i] = "?" }
    IN  finalize_path_canonical(IF stops = {} THEN p ELSE SubSeq(p, 1, Min(stops) - 1))

\* tokenize_segments: the bounds of the runs between slashes, in order; empty
\* runs are dropped.
SegmentBounds(p) ==
    LET starts == { i \in DOMAIN p : p[i] # "/" /\ (i = 1 \/ p[i - 1] = "/") }
        ends   == { i \in DOMAIN p : p[i] # "/" /\ (i = Len(p) \/ p[i + 1] = "/") }
        Nth(S, k) == CHOOSE i \in S : Cardinality({ j \in S : j <= i }) = k
    IN  [k \in 1 .. Cardinality(starts) |-> <<Nth(starts, k), Nth(ends, k)>>]

Segments(p) ==
    LET b == SegmentBounds(p) IN [k \in DOMAIN b |-> SubSeq(p, b[k][1], b[k][2])]

is_param_segment(s) == s # <<>> /\ s[1] = ":"

ParamPositions(p) == { i \in DOMAIN p : p[i] = ":" /\ (i = 1 \/ p[i - 1] = "/") }

path_has_param_segment(p) == ParamPositions(p) # {}

param_count_fits(p) == Cardinality(ParamPositions(p)) <= MaxRouteParams

is_routable_path(p) ==
    /\ p # <<>> /\ p[1] = "/"
    /\ Len(p) < MaxPathLen
    /\ ~Contains(p, "?")

\* Two routes of which one continues the other inside a segment.  The root
\* route, whose canonical form is empty, is continued by a new segment.
has_boundary_sensitive_overlap(paths) ==
    \E i, j \in DOMAIN paths :
        LET a == finalize_path_canonical(paths[i])
            b == finalize_path_canonical(paths[j])
        IN  IsStrictPrefix(a, b) /\ a # <<>> /\ b[Len(a) + 1] # "/"

needs_segment_aware(paths) ==
    \/ \E i \in DOMAIN paths : path_has_param_segment(paths[i])
    \/ has_boundary_sensitive_overlap(paths)

Text(routes, v) == IF v.lo > v.hi THEN <<>> ELSE SubSeq(routes[v.r].path, v.lo, v.hi)

\* pick_terminal: the slot of the method if it is set, else the slot "any".
\* 0 is kInvalidRoute; routes are numbered from 1.
PickTerminal(term, m) ==
    IF m \in DOMAIN term THEN term[m] ELSE IF "any" \in DOMAIN term THEN term["any"] ELSE 0
=============================================================================
