--------------------------- MODULE SiteEvaluation ---------------------------
(* The deterministic evaluation of a layout (sandbox_evaluator.py) and the     *)
(* placement of a proposal (sandbox_proposal.py) over one immutable snapshot   *)
(* while the clock moves.  The local plane is abstracted to a line: a parcel   *)
(* is a set of disjoint intervals, a footprint one interval, so coverage,      *)
(* boundary distance and intersection keep their meaning and orientation       *)
(* falls away.                                                                 *)
EXTENDS Integers, FiniteSets

CONSTANTS GeometryFields,   \* GEOMETRY_EVIDENCE_IDS
          None, Unusable,   \* no value; a value of the wrong type or range
          LastTime          \* bound on the clock

VARIABLES clock,      \* time.time()
          snapshot,   \* the SiteSnapshot: exact, expires, evidence, geometry
          layout,     \* the proposed objects of the scene: id -> footprint
          requested,  \* the requested constraints
          verdict,    \* the last evaluation: constraint -> outcome, or none
          proposal    \* the last answer of generate_bess_proposal, or none
evaluationVars == <<clock, snapshot, layout, requested, verdict, proposal>>

Geometric == {"footprint_inside_parcel", "minimum_setback", "footprint_area",
              "parcel_coverage", "object_collision"}

\* What the limits of the requests are, in the units of the line.
Limits == [setback |-> 2, area |-> 5, coverage |-> 60]

-----------------------------------------------------------------------------
Abs(x) == IF x < 0 THEN -x ELSE x
Covers(parcel, fp) == \E c \in parcel : c[1] <= fp[1] /\ fp[2] <= c[2]
Intersects(a, b) == a[1] <= b[2] /\ b[1] <= a[2]
BoundaryDistance(parcel, fp) ==
  LET gaps == {Abs(e[1] - e[2]) : e \in {fp[1], fp[2]} \X UNION {{c[1], c[2]} : c \in parcel}}
  IN CHOOSE d \in gaps : \A g \in gaps : d <= g
ParcelArea(parcel) ==
  LET Sum[cs \in SUBSET parcel] ==
        IF cs = {} THEN 0 ELSE LET c == CHOOSE c \in cs : TRUE IN c[2] - c[1] + Sum[cs \ {c}]
  IN Sum[parcel]

GeometryIssue_Unexpiring(s, t) ==
  \/ ~s.exact
  \/ \E f \in GeometryFields :
       LET r == s.evidence[f] IN
         \/ r.status \notin {"ok", "unsaid"} \/ r.value = None
         \/ r.expires = None /\ t >= s.expires

\* The parcel is proved exactly and each field of it is there and current.  A
\* field without an expiry is as good as its snapshot.
GeometryIssue(s, t) ==
  \/ ~s.exact
  \/ \E f \in GeometryFields :
       LET r == s.evidence[f] IN
         \/ r.status \notin {"ok", "unsaid"} \/ r.value = None
         \/ r.expires /= None /\ t >= r.expires
         \/ r.expires = None /\ t >= s.expires

\* One field record may prove something of the given scope at time t.
Accepted(s, f, scope, exactly, t) ==
  LET r == s.evidence[f] IN
    /\ exactly => s.exact
    /\ r.status = "ok" /\ r.value /= None
    /\ r.expires /= None /\ r.expires > t
    /\ r.scope = scope

Judge(failed) == IF failed THEN "FAIL" ELSE "PASS"

Containment(s, l) == Judge(\E o \in DOMAIN l : ~Covers(s.parcel, l[o]))
Setback(s, l, minimum) ==
  Judge(\E o \in DOMAIN l : ~Covers(s.parcel, l[o]) \/ BoundaryDistance(s.parcel, l[o]) < minimum)
Area(l) == Judge(\E o \in DOMAIN l : l[o][2] - l[o][1] > Limits.area)
Coverage(s, l) ==
  Judge(\E o \in DOMAIN l : 100 * (l[o][2] - l[o][1]) > Limits.coverage * ParcelArea(s.parcel))
Collision(s, l) ==
  Judge(\E o \in DOMAIN l : \/ \E b \in s.blocked : Intersects(l[o], b)
                            \/ \E p \in DOMAIN l \ {o} : Intersects(l[o], l[p]))

GeometryOutcome(c, s, l) ==
  CASE c = "footprint_inside_parcel" -> Containment(s, l)
    [] c = "minimum_setback" -> Setback(s, l, Limits.setback)
    [] c = "footprint_area" -> Area(l)
    [] c = "parcel_coverage" -> Coverage(s, l)
    [] c = "object_collision" -> Collision(s, l)

\* One observed value: unresolved if its record proves nothing of the scope or
\* is not a value of its range, else judged against the values that fail.
Observed(s, f, scope, exactly, t, failing) ==
  IF ~Accepted(s, f, scope, exactly, t) \/ s.evidence[f].value = Unusable THEN "UNRESOLVED"
  ELSE Judge(s.evidence[f].value \in failing)

WetlandThreshold(s, t) == Observed(s, "wetland", "PARCEL", TRUE, t, {2})
ParcelAcreageRange(s, t) == Observed(s, "acreage", "PARCEL", TRUE, t, {0, 2})
ZoningAllowList(s, t) == Observed(s, "zoning", "PARCEL", TRUE, t, {0})
PointFlood(s, t) == Observed(s, "floodplain", "POINT", FALSE, t, {1})
PointSlope(s, t) == Observed(s, "slope", "POINT", FALSE, t, {2})

PointDistance_FailClosed(s, t, withStatus) ==
  LET near == Observed(s, "distance", "NEAREST_FEATURE", FALSE, t, {2})
      status == Observed(s, "status", "NEAREST_FEATURE", FALSE, t, {0}) IN
    IF near = "UNRESOLVED" THEN near ELSE Judge(near = "FAIL" \/ (withStatus /\ status /= "PASS"))

\* The distance to the nearest feature and, where asked for, its raw status,
\* which must be usable even when the distance alone already fails.
PointDistance(s, t, withStatus) ==
  LET near == Observed(s, "distance", "NEAREST_FEATURE", FALSE, t, {2})
      status == Observed(s, "status", "NEAREST_FEATURE", FALSE, t, {0})
      parts == {near} \cup IF withStatus THEN {status} ELSE {} IN
    IF "UNRESOLVED" \in parts THEN "UNRESOLVED" ELSE Judge("FAIL" \in parts)

Outcome(c, s, l, t) ==
  CASE c \in Geometric -> IF GeometryIssue(s, t) THEN "UNRESOLVED" ELSE GeometryOutcome(c, s, l)
    [] c = "wetland_fraction" -> WetlandThreshold(s, t)
    [] c = "acreage_range" -> ParcelAcreageRange(s, t)
    [] c = "zoning_code_in" -> ZoningAllowList(s, t)
    [] c = "outside_floodplain" -> PointFlood(s, t)
    [] c = "point_slope" -> PointSlope(s, t)
    [] c = "line_distance" -> PointDistance(s, t, TRUE)
    [] c = "road_distance" -> PointDistance(s, t, FALSE)
    [] OTHER -> "UNRESOLVED"

Overall(v) ==
  LET outcomes == {v[c] : c \in DOMAIN v} IN
    IF "FAIL" \in outcomes THEN "FAIL"
    ELSE IF "UNRESOLVED" \in outcomes THEN "UNRESOLVED" ELSE "PASS"

Evaluated(s, l, cs, t) == [c \in cs |-> Outcome(c, s, l, t)]

-----------------------------------------------------------------------------
\* The candidates of a placement: what remains of the parcel inside the
\* setback, a grid of centres over each of its parts, and the scales, given as
\* half the length, from the one asked for down to a quarter of it.
Inset(parcel, setback) ==
  {<<c[1] + setback, c[2] - setback>> : c \in {c \in parcel : c[2] - c[1] > 2 * setback}}
Halves_AlwaysScaled(half, explicit) == {h \in 1..half : 4 * h >= half}
Halves(half, explicit) == IF explicit THEN {half} ELSE {h \in 1..half : 4 * h >= half}
Centers(region, position) ==
  IF position /= None THEN {position} ELSE UNION {{c[1], (c[1] + c[2]) \div 2, c[2]} : c \in region}
Footprints(centers, halves) == {<<e[1] - e[2], e[1] + e[2]>> : e \in centers \X halves}
Placements(region, ask) ==
  {fp \in Footprints(Centers(region, ask.position), Halves(ask.half, ask.explicit)) : Covers(region, fp)}
Size(fp) == fp[2] - fp[1]
Largest(fps) == {fp \in fps : \A q \in fps : Size(q) <= Size(fp)}

\* What generate_bess_proposal may answer, the first candidate in its order
\* left open among the largest.  The evidence is looked at when it starts and
\* again when the candidate is evaluated, at time u.
Proposals(s, ask, t, u) ==
  LET tries == Placements(Inset(s.parcel, ask.setback), ask)
      Answer(fp) ==
        LET alone == [o \in {"bess"} |-> fp] IN
          IF GeometryIssue(s, u) THEN [status |-> "UNRESOLVED"]
          ELSE IF "FAIL" \in {Containment(s, alone), Setback(s, alone, ask.setback)}
            THEN [status |-> "IMPOSSIBLE", ask |-> ask]
          ELSE [status |-> IF Size(fp) = 2 * ask.half THEN "PLACED" ELSE "ADJUSTED",
                footprint |-> fp, ask |-> ask] IN
    IF GeometryIssue(s, t) THEN {[status |-> "UNRESOLVED"]}
    ELSE IF tries = {} THEN {[status |-> "IMPOSSIBLE", ask |-> ask]}
    ELSE {Answer(fp) : fp \in Largest(tries)}

-----------------------------------------------------------------------------
NoVerdict == [c \in {} |-> None]

Asks == [setback : {0, 2}, half : {3}, explicit : BOOLEAN, position : {None, 3}]

Evaluate ==
  /\ verdict' = Evaluated(snapshot, layout, requested, clock)
  /\ UNCHANGED <<clock, snapshot, layout, requested, proposal>>

Propose ==
  \E ask \in Asks, u \in {clock, clock + 1} :
    \E answer \in Proposals(snapshot, ask, clock, u) :
      /\ proposal' = answer
      /\ layout' = IF answer.status \in {"PLACED", "ADJUSTED"}
                   THEN [o \in DOMAIN layout \cup {"bess"} |->
                           IF o = "bess" THEN answer.footprint ELSE layout[o]]
                   ELSE layout
      /\ verdict' = NoVerdict
      /\ UNCHANGED <<clock, snapshot, requested>>

Tick ==
  /\ clock < LastTime
  /\ clock' = clock + 1
  /\ UNCHANGED <<snapshot, layout, requested, verdict, proposal>>

EvaluationNext == Evaluate \/ Propose \/ Tick

-----------------------------------------------------------------------------
\* A later evaluation of the same layout may lose a verdict to the age of the
\* evidence and never reverses one or finds a new one.
VerdictsOnlyExpire ==
  layout' = layout =>
    /\ \A c \in DOMAIN verdict \cap DOMAIN verdict' : verdict'[c] \in {verdict[c], "UNRESOLVED"}
    /\ (DOMAIN verdict /= {} /\ DOMAIN verdict' /= {} /\ Overall(verdict') = "PASS")
         => Overall(verdict) = "PASS"

\* Every requested constraint of an evaluation that passes rests on evidence
\* that was there, of the scope the constraint asks for, and current.
Proves(c, s, t) ==
  LET Current(fs, scope) == \A f \in fs : /\ s.evidence[f].value \notin {None, Unusable}
                                          /\ s.evidence[f].status = "ok"
                                          /\ s.evidence[f].scope = scope
                                          /\ s.evidence[f].expires /= None /\ s.evidence[f].expires > t
  IN \/ /\ c \in Geometric /\ s.exact
        /\ \A f \in GeometryFields :
             \/ s.evidence[f].expires /= None /\ s.evidence[f].expires > t
             \/ s.evidence[f].expires = None /\ t < s.expires
     \/ c = "wetland_fraction" /\ s.exact /\ Current({"wetland"}, "PARCEL")
     \/ c = "acreage_range" /\ s.exact /\ Current({"acreage"}, "PARCEL")
     \/ c = "zoning_code_in" /\ s.exact /\ Current({"zoning"}, "PARCEL")
     \/ c = "outside_floodplain" /\ Current({"floodplain"}, "POINT")
     \/ c = "point_slope" /\ Current({"slope"}, "POINT")
     \/ c = "line_distance" /\ Current({"distance", "status"}, "NEAREST_FEATURE")
     \/ c = "road_distance" /\ Current({"distance"}, "NEAREST_FEATURE")

PassIsProved ==
  LET v == Evaluated(snapshot, layout, requested, clock) IN
    Overall(v) = "PASS" => \A c \in requested : Proves(c, snapshot, clock)

\* What was placed keeps the setback in the evaluator's terms, the dimensions
\* and the position that were given, and is as large as any of the centres
\* that are tried allows; where none was, none allows any.
Fits(fp, setback) == Covers(snapshot.parcel, fp) /\ BoundaryDistance(snapshot.parcel, fp) >= setback
Allowed(ask) ==
  {fp \in Footprints(Centers(Inset(snapshot.parcel, ask.setback), ask.position),
                     IF ask.explicit THEN {ask.half} ELSE 1..ask.half) :
     4 * Size(fp) >= 2 * ask.half /\ Fits(fp, ask.setback)}
ProposalFits ==
  /\ proposal.status = "IMPOSSIBLE" => Allowed(proposal.ask) = {}
  /\ proposal.status \in {"PLACED", "ADJUSTED"} =>
       /\ proposal.footprint \in Largest(Allowed(proposal.ask))
       /\ proposal.status = "PLACED" <=> Size(proposal.footprint) = 2 * proposal.ask.half
=============================================================================
