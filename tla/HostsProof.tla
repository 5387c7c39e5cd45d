------------------------------- MODULE HostsProof -------------------------------
(***************************************************************************)
(* What holds of the hosts of the link pass, for every estate, checkout    *)
(* and set of edges, in three parts.  Of the two hosts of the linker: that *)
(* the operator's decisions survive every link run of the server, that an  *)
(* incremental relink is a full link, and that two link runs agree on what *)
(* a branch breaks.  Of the engine without a server: that the revision an  *)
(* answer names is the source it was made from, and that one which calls   *)
(* itself complete misses nothing.  Of the readers of what the stores      *)
(* hold: that the history of a series says exactly when each edge was      *)
(* served, and that walks and patterns find the same.                      *)
(*                                                                         *)
(* The invariants of the first say of each point of a run which decisions  *)
(* its edges follow, which edges of a full link the incremental result     *)
(* has, and which of them cite a claim; LinkPassProof has what the passes  *)
(* themselves compute.  Those of the second say of a host what it still    *)
(* knows of its inputs between the revisions and the claims, and of what   *)
(* it has loaded which claims that is; that a list which is not cut holds  *)
(* all there is takes an induction over the rounds of a breadth-first      *)
(* walk, which are finite because a link of finitely many claims is.       *)
(***************************************************************************)
EXTENDS Hosts, LinkPassProof, SequenceTheorems, WellFoundedInduction

Decisions(decisions) == \A t \in DOMAIN decisions : decisions[t] \in {"promote", "reject"}

\* The edges of "es" follow every decision that was due and is not touched since.
FollowsDue(es) ==
    \A e \in es : /\ Fields \subseteq DOMAIN e
                  /\ Triple(e) \in DOMAIN due \ touched => e.status = Verdict(due[Triple(e)])

\* What holds of the server between any two steps: a decision that is due and not
\* touched is on file, the edges of a run follow what is due once it loaded it, and
\* what is served follows it between runs.
LInv ==
    host = "server" =>
        /\ result = [made |-> result.made, kept |-> {}]
        /\ Decisions(promotions) /\ Decisions(due)
        /\ run \in {"idle", "floored", "final"}
        /\ route.at \in {"none", "append", "dump"}
        /\ route.decision \in {"promote", "reject"}
        /\ route.at # "none" => route.triple \in touched
        /\ \A t \in DOMAIN due \ touched : t \in DOMAIN promotions /\ promotions[t] = due[t]
        /\ run = "floored" => Fresh(edges)
        /\ run = "final" /\ ~blind => FollowsDue(edges)
        /\ run = "final" => \A e \in edges : Fields \subseteq DOMAIN e
        /\ \A e \in result.made : Fields \subseteq DOMAIN e
        /\ run = "idle" /\ ~blind => FollowsDue(result.made)

LEMMA LInvInit == LinkingInit => LInv
<1>1. DOMAIN NoDecisions = {}
      BY DEF NoDecisions
<1>2. Follows(FinalizeEdges(Resolved(First), NoDecisions), NoDecisions)
      BY <1>1, ResolvedFresh, FinalizeFollows
<1>3. QED BY <1>1, <1>2 DEF LinkingInit, LInv, Link, Follows, FollowsDue, Decisions, NoReview

LEMMA LInvNext == LInv /\ [LinkingNext]_linkingVars => LInv'
<1> SUFFICES ASSUME LInv, [LinkingNext]_linkingVars, host = "server", host' = host
             PROVE  LInv'
    BY DEF LInv, LinkingNext, linkingVars, hostVars, serverVars, Change, Given, HostRelinks,
           RunResolves, RunLoads, RunWrites, RouteSets, RouteOpens, RouteDumps
<1> USE DEF LInv
<1>1. CASE RunResolves
  <2>1. Fresh(edges')
        BY <1>1, ResolvedFresh DEF RunResolves
  <2>2. QED BY <1>1, <2>1 DEF RunResolves, hostVars, FollowsDue
<1>2. CASE RunLoads
  <2>1. \A e \in edges' : Fields \subseteq DOMAIN e
    <3>1. CASE route.at = "dump"
          BY <1>2, <3>1, FinalizeFollows DEF RunLoads, Follows, NoDecisions
    <3>2. CASE route.at # "dump"
          BY <1>2, <3>2, FinalizeFollows DEF RunLoads, Follows, Decisions
    <3>3. QED BY <3>1, <3>2
  <2>2. ASSUME ~blind' PROVE FollowsDue(edges)'
    <3>1. Follows(edges', promotions)
          BY <1>2, <2>2, FinalizeFollows DEF RunLoads, Decisions
    <3>2. QED BY <1>2, <3>1 DEF RunLoads, Follows, FollowsDue
  <2>3. QED BY <1>2, <2>1, <2>2 DEF RunLoads, hostVars
<1>3. CASE RunWrites
      BY <1>3 DEF RunWrites, hostVars, FollowsDue
<1>4. CASE RouteSets
  <2>1. PICK e \in Reviewable, d \in {"promote", "reject"} :
          /\ route' = [at |-> "append", triple |-> Triple(e), decision |-> d]
          /\ touched' = touched \cup {Triple(e)}
          /\ result' = [result EXCEPT !.made =
                {IF Triple(f) # Triple(e) THEN f
                 ELSE [f EXCEPT !.status = IF d = "promote" THEN "active" ELSE "rejected"] :
                    f \in @}]
        BY <1>4 DEF RouteSets
  <2>2. result' = [made |-> {IF Triple(f) # Triple(e) THEN f
                             ELSE [f EXCEPT !.status = IF d = "promote" THEN "active"
                                                       ELSE "rejected"] :
                                f \in result.made}, kept |-> {}]
    <3> DEFINE reviewed(set) ==
                  {IF Triple(f) # Triple(e) THEN f
                   ELSE [f EXCEPT !.status = IF d = "promote" THEN "active" ELSE "rejected"] :
                      f \in set}
    <3>1. result' = [result EXCEPT !.made = reviewed(result.made)]
          BY <2>1
    <3> HIDE DEF reviewed
    <3>2. result' = [made |-> reviewed(result.made), kept |-> {}]
          BY <3>1
    <3>3. QED BY <3>2 DEF reviewed
  <2>3. ASSUME NEW g \in result'.made
        PROVE  /\ Fields \subseteq DOMAIN g
               /\ Triple(g) \notin touched' => g \in result.made
    <3>1. PICK f \in result.made :
             g = IF Triple(f) # Triple(e) THEN f
                 ELSE [f EXCEPT !.status = IF d = "promote" THEN "active" ELSE "rejected"]
          BY <2>2, <2>3
    <3>2. Triple(g) = Triple(f)
          BY <3>1 DEF Triple, Fields
    <3>3. QED BY <2>1, <3>1, <3>2
  <2>4. QED BY <1>4, <2>1, <2>2, <2>3 DEF RouteSets, hostVars, FollowsDue
<1>5. CASE RouteOpens
      BY <1>5 DEF RouteOpens, hostVars, FollowsDue
<1>6. CASE RouteDumps
      BY <1>6 DEF RouteDumps, hostVars, FollowsDue, Decide, Decisions, NoReview
<1>7. CASE UNCHANGED linkingVars
      BY <1>7 DEF linkingVars, hostVars, serverVars, FollowsDue
<1>8. QED BY <1>1, <1>2, <1>3, <1>4, <1>5, <1>6, <1>7
          DEF LinkingNext, Change, Given, HostRelinks

\* For all claims, confidence tables, review orders and bounds: an operator's decision
\* that was on file when a link run began is what the run leaves in the graph, unless
\* that edge is reviewed again meanwhile or another review is half written when the run
\* loads them.
THEOREM DecisionsAlwaysSurvive == LinkingSpec => []DecisionsSurvive
<1>1. LInv => DecisionsSurvive
      BY DEF LInv, DecisionsSurvive, FollowsDue, Edges, Verdict
<1>2. QED BY <1>1, LInvInit, LInvNext, PTL DEF LinkingSpec

------------------------------------------------------------------------------
\* What holds of the incremental host between any two steps: no two claims have one id,
\* the result has the edges of a full link of the claims it was made of, and of every
\* resolver a run may leave out it has what those claims join.
RInv ==
    host = "incremental" =>
        /\ run = "idle" /\ route.at = "none"
        /\ Unique(claims) /\ Unique(prior_claims)
        /\ Triples(Edges) = Triples(Resolved(prior_claims))
        /\ Up_to(Edges, prior_claims)

\* The first link is a full one.
LEMMA RInvInit == LinkingInit => RInv
<1> SUFFICES ASSUME LinkingInit PROVE RInv
    OBVIOUS
<1>1. Unique(First)
      BY LinkingAssumption DEF Unique
<1>2. Edges = Link(First, NoDecisions)
      BY DEF LinkingInit, Edges
<1>3. QED BY <1>1, <1>2, FullIsRelink DEF LinkingInit, RInv, NoReview

\* Only HostRelinks touches the result of the incremental host, and it restores RInv
\* whatever claims came and went before it.
LEMMA RInvNext == RInv /\ [LinkingNext]_linkingVars => RInv'
<1> SUFFICES ASSUME RInv, [LinkingNext]_linkingVars, host = "incremental", host' = host
             PROVE  RInv'
    BY DEF RInv, LinkingNext, linkingVars, hostVars, serverVars, Change, Given, HostRelinks,
           RunResolves, RunLoads, RunWrites, RouteSets, RouteOpens, RouteDumps
<1>1. CASE Change
  <2>1. Unique(claims')
        BY <1>1 DEF Change, RInv, Unique
  <2>2. QED BY <1>1, <2>1 DEF Change, RInv, Edges, serverVars
<1>2. CASE Given
      BY <1>2 DEF Given, RInv, Edges, hostVars, serverVars
<1>3. CASE HostRelinks
  <2>1. /\ Triples(Edges') = Triples(Resolved(claims)) /\ Up_to(Edges', claims)
        BY <1>3, RelinkStep DEF HostRelinks, RInv, Edges
  <2>2. QED BY <1>3, <2>1 DEF HostRelinks, RInv, serverVars
<1>4. CASE UNCHANGED linkingVars
      BY <1>4 DEF linkingVars, hostVars, serverVars, RInv, Edges
<1>5. QED BY <1>1, <1>2, <1>3, <1>4
      DEF LinkingNext, RInv, RunResolves, RunLoads, RunWrites, RouteSets, RouteOpens, RouteDumps

\* Whatever claims came, went or moved since, in any number and order, and whatever was
\* decided: an incremental run leaves exactly the edges that a full link of the same claims
\* would make, none missing and none left of claims that went (incremental.py:31-32); for
\* every estate, confidence table and cap.
THEOREM RelinkAlwaysFindsTheSame == LinkingSpec => []RelinkFindsTheSame
<1>1. RInv => RelinkFindsTheSame
      BY FullIsRelink DEF RInv, RelinkFindsTheSame
<1>2. QED BY <1>1, RInvInit, RInvNext, PTL DEF LinkingSpec

\* The incremental host's result is exact, under the decisions it has run with.
EInv ==
    host = "incremental" =>
        /\ IsFiniteSet(claims)
        /\ Exact(Edges, prior_claims, under)

\* The first link is exact; only HostRelinks touches the result, and it stays exact.
LEMMA EInvInit == LinkingInit => EInv
<1> SUFFICES ASSUME LinkingInit PROVE EInv
    OBVIOUS
<1>1. Unique(First) /\ IsFiniteSet(First)
      BY LinkingAssumption DEF Unique
<1>2. Edges = Link(First, NoDecisions)
      BY DEF LinkingInit, Edges
<1>3. QED BY <1>1, <1>2, FullIsExact DEF LinkingInit, EInv

LEMMA EInvNext == RInv /\ EInv /\ [LinkingNext]_linkingVars => EInv'
<1> SUFFICES ASSUME RInv, EInv, [LinkingNext]_linkingVars, host = "incremental", host' = host
             PROVE  EInv'
    BY DEF EInv, LinkingNext, linkingVars, hostVars, serverVars, Change, Given, HostRelinks,
           RunResolves, RunLoads, RunWrites, RouteSets, RouteOpens, RouteDumps
<1>1. CASE Change
  <2>1. PICK c \in Estate :
           claims' = IF c \in claims THEN claims \ {c}
                     ELSE {x \in claims : x.id # c.id} \cup {c}
        BY <1>1 DEF Change
  <2>2. IsFiniteSet(claims)
        BY DEF EInv
  <2>3. IsFiniteSet(claims \ {c}) /\ IsFiniteSet({x \in claims : x.id # c.id})
        BY <2>2, FS_Subset
  <2>4. IsFiniteSet({x \in claims : x.id # c.id} \cup {c})
        BY <2>3, FS_AddElement
  <2>5. IsFiniteSet(claims')
        BY <2>1, <2>3, <2>4
  <2>6. QED BY <1>1, <2>5 DEF Change, EInv, Edges
<1>2. CASE Given
      BY <1>2 DEF Given, EInv, Edges, hostVars
<1>3. CASE HostRelinks
  <2>1. result' = Relink(claims, prior_claims, Edges, promotions)
        BY <1>3 DEF HostRelinks
  <2>2. Exact(Edges', claims, (IF FullNeeded(claims, prior_claims) THEN {} ELSE under)
                                 \cup {promotions})
        BY <2>1, ExactStep DEF RInv, EInv, Edges
  <2>3. QED BY <1>3, <2>2 DEF HostRelinks, EInv
<1>4. CASE UNCHANGED linkingVars
      BY <1>4 DEF linkingVars, hostVars, EInv, Edges
<1>5. QED BY <1>1, <1>2, <1>3, <1>4
      DEF LinkingNext, RInv, RunResolves, RunLoads, RunWrites, RouteSets, RouteOpens, RouteDumps

\* And it leaves them with the evidence, confidence, weight and status a full link gives
\* them, as long as no decision came in since the kept edges were made and no two calls of
\* one file fuse: an edge kept from an earlier result is then as good as one made anew.
THEOREM RelinkIsAlwaysLink == LinkingSpec => []RelinkIsLink
<1>1. RInv /\ EInv => RelinkIsLink
  <2>1. Doubled <=> DoubledIn(claims)
        BY DEF Doubled, DoubledIn, CallsIn
  <2>2. QED BY <2>1, ExactIsLink DEF RInv, EInv, RelinkIsLink
<1>2. QED BY <1>1, RInvInit, RInvNext, EInvInit, EInvNext, PTL DEF LinkingSpec

------------------------------------------------------------------------------
\* Between any two steps of the incremental host its claims are the estate's, and every
\* call over HTTP is the work of r7_http alone, with evidence.
HInv ==
    host = "incremental" =>
        /\ claims \subseteq Estate /\ prior_claims \subseteq Estate
        /\ \A e \in Edges : HttpCall(e) => Cited(e)

\* The first link has such calls only, a relink makes them anew or keeps them.
LEMMA HInvInit == LinkingInit => HInv
<1> SUFFICES ASSUME LinkingInit PROVE HInv
    OBVIOUS
<1>1. Unique(First) /\ First \subseteq Estate
      BY LinkingAssumption DEF Unique
<1>2. Edges = Link(First, NoDecisions)
      BY DEF LinkingInit, Edges
<1>3. QED BY <1>1, <1>2, LinkCited DEF LinkingInit, HInv

LEMMA HInvNext == RInv /\ HInv /\ [LinkingNext]_linkingVars => HInv'
<1> SUFFICES ASSUME RInv, HInv, [LinkingNext]_linkingVars, host = "incremental", host' = host
             PROVE  HInv'
    BY DEF HInv, LinkingNext, linkingVars, hostVars, serverVars, Change, Given, HostRelinks,
           RunResolves, RunLoads, RunWrites, RouteSets, RouteOpens, RouteDumps
<1>1. CASE Change
  <2>1. claims' \subseteq Estate
        BY <1>1 DEF Change, HInv
  <2>2. QED BY <1>1, <2>1 DEF Change, HInv, Edges
<1>2. CASE Given
      BY <1>2 DEF Given, HInv, Edges, hostVars
<1>3. CASE HostRelinks
  <2> DEFINE pass == Pass(claims, prior_claims, Edges)
             kept == Kept(claims, prior_claims, Edges)
  <2>1. result' = Relink(claims, prior_claims, Edges, promotions)
        BY <1>3 DEF HostRelinks
  <2>2. Edges' = FinalizeEdges(pass, promotions) \cup kept
        BY <2>1, RelinkIs DEF Edges
  <2>3. Clean(pass)
        BY RunClean DEF RInv
  <2>4. \A e \in pass : HttpCall(e) => Cited(e)
        BY HttpCallsHttp, HttpCallCited
  <2>5. \A e \in kept : HttpCall(e) => Cited(e)
        BY DEF Kept, HInv
  <2> HIDE DEF pass, kept
  <2>6. \A e \in Edges' : HttpCall(e) => Cited(e)
        BY <2>2, <2>3, <2>4, <2>5, FinalizeCited
  <2>7. QED BY <1>3, <2>6 DEF HostRelinks, HInv
<1>4. CASE UNCHANGED linkingVars
      BY <1>4 DEF linkingVars, hostVars, HInv, Edges
<1>5. QED BY <1>1, <1>2, <1>3, <1>4
      DEF LinkingNext, RInv, RunResolves, RunLoads, RunWrites, RouteSets, RouteOpens, RouteDumps

\* The ends of a call in the result are the repositories of the two claims it joins.
LEMMA HttpCallEnds ==
    ASSUME NEW cs, cs \subseteq Estate, NEW old, Up_to(old, cs), NEW e \in old,
           HttpCall(e), Cited(e)
    PROVE  /\ e.to = e.target[2][2]
           /\ e.from # "" /\ e.to # ""
<1>1. "http" \in Plain
      BY DEF Plain, AlwaysRerun, JoinResolvers, ResolverKinds
<1>2. Mark(e) \in Marks(ByOnly(old, "http"))
      BY DEF Marks, ByOnly, Cited
<1>3. PICK f \in Join(Context(cs), cs, {"http"}) : Mark(e) = Mark(f)
      BY <1>1, <1>2 DEF Up_to, Marks
<1>4. f \in Http(Context(cs), cs)
      BY <1>3 DEF Join
<1>5. /\ e.type = f.type /\ e.source = f.source /\ e.target = f.target
      /\ e.from = f.from /\ e.to = f.to
      BY <1>3, MarkTells DEF HttpCall
<1>6. HttpCall(f)
      BY <1>5 DEF HttpCall
<1>7. PICK c \in cs, p \in cs :
         f = Edge("http", "INVOKES", Node(c), Contract(Context(cs), p), Conf[c.tier], c, p.repo)
      BY <1>4, <1>6, HttpCallMade DEF Of
<1>8. f.from = c.repo /\ f.to = p.repo
      BY <1>7 DEF Edge
<1>9. f.to = f.target[2][2]
      BY <1>4, <1>6, HttpMade DEF HttpCall
<1>10. QED BY <1>5, <1>7, <1>8, <1>9, LinkingAssumption

\* So a call of an operation that is dropped is gone, is cited, and names both ends.
LEMMA DriftIs == RInv /\ HInv => DriftBlocks
<1> SUFFICES ASSUME RInv, HInv, host = "incremental", claims = prior_claims,
                    NEW p \in Of(claims, "http", "provides"),
                    p.path \in Drifted(claims, claims \ {p}),
                    NEW e \in LiveConsumers(Edges, Contract(Context(claims), p)),
                    e.from # p.repo
             PROVE  /\ e \in Removed(Edges, Link(claims \ {p}, promotions))
                    /\ Loss(e, {p.repo}) = "blocking"
    BY DEF DriftBlocks
<1> DEFINE left == claims \ {p}
           head == Link(left, promotions)
<1>1. /\ e \in Edges /\ e.status = "active" /\ e.type \in {"INVOKES", "UI_CALLS"}
      /\ e.target = Contract(Context(claims), p)
      BY DEF LiveConsumers, Served
<1>2. e.target[1] = "http" /\ e.target[2][2] = p.repo /\ e.target[3] = p.path
      BY <1>1 DEF Contract, Scope, Service
<1>3. e.type = "INVOKES"
  <2>1. PICK g \in Resolved(claims) : Triple(g) = Triple(e)
        BY <1>1 DEF RInv, Triples
  <2>2. PICK r \in DOMAIN Types : MadeBy(g, r)
        BY RunClean DEF RInv, Clean
  <2>3. g.type \in Types[r] /\ g.type = e.type
        BY <2>1, <2>2 DEF MadeBy, Triple
  <2>4. "UI_CALLS" \notin Types[r]
        BY DEF Types
  <2>5. QED BY <1>1, <2>3, <2>4
<1>4. HttpCall(e)
      BY <1>2, <1>3 DEF HttpCall
<1>5. Cited(e)
      BY <1>1, <1>4 DEF HInv
<1>6. e.to = p.repo /\ e.from # "" /\ e.to # ""
      BY <1>1, <1>2, <1>4, <1>5, HttpCallEnds DEF RInv, HInv
<1>7. \A q \in Of(left, "http", "provides") : q.path # p.path
      BY DEF Drifted, Of
<1>8. Unique(left)
      BY DEF Unique, RInv
<1>9. ASSUME NEW k \in head, EdgeKey(k) = EdgeKey(e) PROVE FALSE
  <2>1. k.type = e.type /\ k.target = e.target
        BY <1>9 DEF EdgeKey
  <2>2. HttpCall(k)
        BY <1>4, <2>1 DEF HttpCall
  <2> HIDE DEF left
  <2>3. k.target[3] # p.path
        BY <1>7, <1>8, <2>2, NoProvider
  <2>4. QED BY <1>2, <2>1, <2>3
<1>10. e \in Removed(Edges, head)
      BY <1>1, <1>9 DEF Removed, Served, EdgeKeys
<1>11. Blocking(e, {p.repo})
      BY <1>6 DEF Blocking
<1>12. Loss(e, {p.repo}) = "blocking"
      BY <1>5, <1>6, <1>11 DEF Loss, Cited
<1>13. QED BY <1>10, <1>12

\* The two reports on a branch agree for every estate: an operation that a branch drops and
\* a served call of another repository still names is reported by the claims, and the same
\* call is reported lost by the edges, as the branch's fault (impact.py:50-52); whatever was
\* relinked incrementally before.
THEOREM DriftAlwaysBlocks == LinkingSpec => []DriftBlocks
<1>1. QED BY RInvInit, RInvNext, HInvInit, HInvNext, DriftIs, PTL DEF LinkingSpec

------------------------------------------------------------------------------
(* The engine without a server                                             *)

\* What has zero, and with every number the next, has them all.
LEMMA AllNumbers ==
    ASSUME NEW S, 0 \in S, \A n \in Nat : n \in S => n + 1 \in S
    PROVE  Nat \subseteq S
<1> DEFINE T == Nat \ S
           R == OpToRel(<, Nat)
<1>1. SUFFICES ASSUME T # {} PROVE FALSE
      OBVIOUS
<1>2. PICK x \in T : \A y \in T : ~(<<y, x>> \in R)
  <2>1. IsWellFoundedOn(R, Nat)
        BY NatLessThanWellFounded
  <2>2. T \subseteq Nat
        OBVIOUS
  <2> HIDE DEF T, R
  <2>3. QED BY <1>1, <2>1, <2>2, WFMin
<1>3. \A m, n \in Nat : m < n => <<m, n>> \in R
      BY DEF OpToRel
<1>4. x \in Nat /\ x # 0 /\ x - 1 \in Nat /\ x - 1 < x /\ (x - 1) + 1 = x
      OBVIOUS
<1>5. x - 1 \in S
      BY <1>2, <1>3, <1>4
<1>6. QED BY <1>4, <1>5

\* One step further from a node, along "ways", or back along dependences
Further(ways, near) == near \cup {s[2] : s \in {t \in ways : t[1] \in near}}
Offers(incoming, k, near) ==
    {[node |-> x[2].source, distance |-> k, product |-> x[1].product * x[2].confidence] :
        x \in {y \in near \X incoming :
                 /\ y[1].distance = k - 1 /\ y[2].target = y[1].node
                 /\ y[2].source \notin {r.node : r \in near}}}
Farther(incoming, k, near) == near \cup Strongest(Offers(incoming, k, near))

\* One step on from the ends of walks, of trails, or of paths that "MayGoOn"
Ends(direction, e) ==
    (IF direction = "in" THEN {} ELSE {<<e.source, e.target>>})
    \cup (IF direction = "out" THEN {} ELSE {<<e.target, e.source>>})
Onto(ways, ends) == {s[2] : s \in {t \in ways : t[1] \in ends}}
Trodden(along, trails) ==
    UNION {{<<s[2], x[1][2] \cup {x[2]}>> : s \in {r \in Ends(along.direction, x[2]) : r[1] = x[1][1]}} :
           x \in {y \in trails \X along.edges :
                    Typed(along.types, y[2]) /\ y[2] \notin y[1][2]}}
MayGoOn(along, path, e) ==
    IF along.simple THEN e.target \notin Visited(along.source, path) ELSE e \notin ToSet(path)
Longer(along, paths) ==
    {Append(x[1], x[2]) : x \in {y \in paths \X along.edges :
        /\ Typed(along.types, y[2]) /\ y[2].source = End(along.source, y[1])
        /\ MayGoOn(along, y[1], y[2])}}

\* The k-th round of any of these, or of the history of a series
Round(walk, along, k, near) ==
    CASE walk = "reach" -> Further(along, near)
      [] walk = "impact" -> Farther(along, k, near)
      [] walk = "walk" -> Onto(along, near)
      [] walk = "trail" -> Trodden(along, near)
      [] walk = "path" -> Longer(along, near)
      [] OTHER -> See(near, EdgeKeys(Served(along[k])), k)
Rounds(walk, along, first, f, S) ==
    f = [k \in S |-> IF k = 0 THEN first ELSE Round(walk, along, k, f[k - 1])]

\* Such rounds are a function of the numbers: each round has one before it.
LEMMA RoundsExist ==
    ASSUME NEW walk, NEW along, NEW first
    PROVE  \E f : Rounds(walk, along, first, f, Nat)
<1> DEFINE Upto(f, n) == Rounds(walk, along, first, f, 0 .. n)
<1>u. \A f, n : Upto(f, n) => /\ DOMAIN f = 0 .. n
                              /\ \A k \in 0 .. n : f[k] = IF k = 0 THEN first
                                                 ELSE Round(walk, along, k, f[k - 1])
      BY DEF Rounds
<1>1. ASSUME NEW m \in Nat, NEW n \in Nat, NEW f, NEW g, Upto(f, m), Upto(g, n), m <= n
      PROVE  \A k \in 0 .. m : f[k] = g[k]
  <2> DEFINE S == {k \in Nat : k <= m => f[k] = g[k]}
  <2> HIDE DEF Upto
  <2>1. 0 \in S
        BY <1>1, <1>u
  <2>2. ASSUME NEW k \in Nat, k \in S PROVE k + 1 \in S
    <3>1. SUFFICES ASSUME k + 1 <= m PROVE f[k + 1] = g[k + 1]
          OBVIOUS
    <3>2. f[k] = g[k]
          BY <2>2, <3>1
    <3>3. k + 1 \in 0 .. m /\ k + 1 \in 0 .. n /\ k + 1 # 0 /\ (k + 1) - 1 = k
          BY <1>1, <3>1
    <3>4. f[k + 1] = Round(walk, along, k + 1, f[k]) /\ g[k + 1] = Round(walk, along, k + 1, g[k])
          BY <1>1, <1>u, <3>3
    <3>5. QED BY <3>2, <3>4
  <2>3. Nat \subseteq S
    <3> HIDE DEF S
    <3>1. QED BY <2>1, <2>2, AllNumbers
  <2>4. QED BY <2>3
<1>2. \A n \in Nat : \E f : Upto(f, n)
  <2> DEFINE S == {n \in Nat : \E f : Upto(f, n)}
  <2>1. 0 \in S
    <3>1. Upto([k \in 0 .. 0 |-> first], 0)
          BY DEF Rounds
    <3>2. QED BY <3>1
  <2>2. ASSUME NEW n \in Nat, n \in S PROVE n + 1 \in S
    <3>1. PICK f : Upto(f, n)
          BY <2>2
    <3> DEFINE g == [k \in 0 .. n + 1 |-> IF k <= n THEN f[k] ELSE Round(walk, along, k, f[n])]
    <3>2. ASSUME NEW k \in 0 .. n + 1
          PROVE  g[k] = IF k = 0 THEN first ELSE Round(walk, along, k, g[k - 1])
      <4>1. CASE k = 0
            BY <1>u, <3>1, <4>1
      <4>2. CASE k # 0 /\ k <= n
        <5>1. k - 1 \in 0 .. n + 1 /\ k - 1 <= n /\ k \in 0 .. n
              BY <4>2
        <5>2. g[k - 1] = f[k - 1] /\ g[k] = f[k]
              BY <4>2, <5>1
        <5> HIDE DEF g, Upto
        <5>3. QED BY <1>u, <3>1, <4>2, <5>1, <5>2
      <4>3. CASE k = n + 1
        <5>1. k - 1 \in 0 .. n + 1 /\ k - 1 <= n /\ ~(k <= n) /\ k # 0 /\ k - 1 = n
              BY <4>3
        <5>2. g[k - 1] = f[n] /\ g[k] = Round(walk, along, k, f[n])
              BY <5>1
        <5>3. QED BY <5>1, <5>2
      <4>4. QED BY <4>1, <4>2, <4>3
    <3>3. Upto(g, n + 1)
      <4>1. g = [k \in 0 .. n + 1 |-> g[k]]
            OBVIOUS
      <4> HIDE DEF g
      <4>2. g = [k \in 0 .. n + 1 |-> IF k = 0 THEN first ELSE Round(walk, along, k, g[k - 1])]
            BY <3>2, <4>1
      <4>3. QED BY <4>2 DEF Rounds
    <3>4. QED BY <3>3
  <2>3. Nat \subseteq S
    <3> HIDE DEF S
    <3>1. QED BY <2>1, <2>2, AllNumbers
  <2>4. QED BY <2>3
<1> DEFINE some(n) == CHOOSE f : Upto(f, n)
           all == [n \in Nat |-> some(n)[n]]
<1>3. \A n \in Nat : Upto(some(n), n)
      BY <1>2
<1> HIDE DEF Upto, some
<1>4. ASSUME NEW k \in Nat
      PROVE  all[k] = IF k = 0 THEN first ELSE Round(walk, along, k, all[k - 1])
  <2>1. CASE k = 0
        BY <1>3, <1>u, <2>1
  <2>2. CASE k # 0
    <3>1. k - 1 \in Nat /\ k - 1 <= k /\ k - 1 \in 0 .. k - 1 /\ k \in 0 .. k
          BY <2>2
    <3>2. some(k)[k - 1] = some(k - 1)[k - 1]
          BY <1>1, <1>3, <3>1
    <3>3. some(k)[k] = Round(walk, along, k, some(k)[k - 1])
          BY <1>3, <1>u, <2>2, <3>1
    <3>4. all[k] = some(k)[k] /\ all[k - 1] = some(k - 1)[k - 1]
          BY <3>1
    <3> HIDE DEF all
    <3>5. QED BY <2>2, <3>2, <3>3, <3>4
  <2>3. QED BY <2>1, <2>2
<1>5. all = [k \in Nat |-> all[k]]
      OBVIOUS
<1> HIDE DEF all
<1>6. all = [k \in Nat |-> IF k = 0 THEN first ELSE Round(walk, along, k, all[k - 1])]
      BY <1>4, <1>5
<1>7. QED BY <1>6 DEF Rounds


\* Along finitely many edges either walk reaches finitely many nodes.
LEMMA RoundFinite ==
    ASSUME NEW walk \in {"reach", "impact"}, NEW along, IsFiniteSet(along), NEW k,
           NEW near, IsFiniteSet(near)
    PROVE  IsFiniteSet(Round(walk, along, k, near))
<1>1. IsFiniteSet(Further(along, near))
  <2> DEFINE f == [t \in along |-> t[2]]
             ends == {s[2] : s \in {t \in along : t[1] \in near}}
  <2>1. \A n \in ends : \E t \in along : n = f[t]
        OBVIOUS
  <2>2. Further(along, near) = near \cup ends
        BY DEF Further
  <2> HIDE DEF f, ends
  <2>3. IsFiniteSet(ends)
        BY <2>1, FiniteCover
  <2>4. QED BY <2>2, <2>3, FS_Union
<1>2. IsFiniteSet(Farther(along, k, near))
  <2> DEFINE f == [x \in near \X along |-> [node |-> x[2].source, distance |-> k,
                                            product |-> x[1].product * x[2].confidence]]
             offers == Offers(along, k, near)
  <2>1. \A o \in offers : \E x \in near \X along : o = f[x]
        BY DEF Offers
  <2>2. IsFiniteSet(near \X along)
        BY FS_Product
  <2>3. Farther(along, k, near) = near \cup Strongest(offers)
        BY DEF Farther
  <2> HIDE DEF f, offers
  <2>4. IsFiniteSet(offers)
        BY <2>1, <2>2, FiniteCover
  <2>5. IsFiniteSet(Strongest(offers))
        BY <2>4, FS_Subset DEF Strongest
  <2>6. QED BY <2>3, <2>5, FS_Union
<1>3. QED BY <1>1, <1>2 DEF Round

LEMMA RoundsFinite ==
    ASSUME NEW walk \in {"reach", "impact"}, NEW along, IsFiniteSet(along),
           NEW first, IsFiniteSet(first),
           NEW f, Rounds(walk, along, first, f, Nat)
    PROVE  \A k \in Nat : IsFiniteSet(f[k])
<1>0. \A k \in Nat : f[k] = IF k = 0 THEN first ELSE Round(walk, along, k, f[k - 1])
      BY DEF Rounds
<1> DEFINE S == {k \in Nat : IsFiniteSet(f[k])}
<1>1. 0 \in S
      BY <1>0
<1>2. ASSUME NEW k \in Nat, k \in S PROVE k + 1 \in S
  <2>1. f[k + 1] = Round(walk, along, k + 1, f[k])
    <3>1. k + 1 \in Nat /\ k + 1 # 0 /\ (k + 1) - 1 = k
          OBVIOUS
    <3>2. QED BY <1>0, <3>1
  <2>2. IsFiniteSet(f[k + 1])
        BY <1>2, <2>1, RoundFinite
  <2>3. QED BY <2>2
<1>3. Nat \subseteq S
  <2> HIDE DEF S
  <2>1. QED BY <1>1, <1>2, AllNumbers
<1>4. QED BY <1>3

\* A list long enough for a set lists it.
LEMMA AllListed ==
    ASSUME NEW set, IsFiniteSet(set), NEW n \in Nat, Cardinality(set) <= n,
           NEW some \in SUBSET set, Cardinality(some) = Min({n, Cardinality(set)})
    PROVE  some = set
<1>1. Cardinality(set) \in Nat
      BY FS_CardinalityType
<1>2. Min({n, Cardinality(set)}) = Cardinality(set)
      BY <1>1 DEF Min
<1>3. QED BY <1>2, FS_Subset

\* Who depends on a node: rows that are not cut are all there are.
Ask(node, hops, limit) ==
    [node |-> node, types |-> {}, hops |-> hops, minimum |-> 0, limit |-> limit]

LEMMA ImpactListed ==
    ASSUME NEW es, IsFiniteSet(es), NEW node, NEW hops \in Nat
    PROVE  \E rows : /\ IsFiniteSet(rows)
                     /\ \A limit \in Nat :
                           LET impact == TransitiveImpact(es, Ask(node, hops, limit)) IN
                           /\ impact.truncated = (Cardinality(rows) > limit)
                           /\ Cardinality(rows) <= limit => impact.impacted = rows
<1> DEFINE incoming == {e \in Dependence(es) : Typed({}, e) /\ e.confidence >= 0}
           first == {[node |-> node, distance |-> 0, product |-> 1]}
           best[k \in Nat] ==
              IF k = 0 THEN {[node |-> node, distance |-> 0, product |-> 1]}
              ELSE LET nearer == best[k - 1]
                       known == {r.node : r \in nearer}
                       offers == {[node |-> x[2].source, distance |-> k,
                                   product |-> x[1].product * x[2].confidence] :
                                  x \in {y \in nearer \X incoming :
                                           /\ y[1].distance = k - 1 /\ y[2].target = y[1].node
                                           /\ y[2].source \notin known}} IN
                   nearer \cup Strongest(offers)
           rows == {r \in best[hops] : r.distance > 0}
           Before(r, s) == \/ r.distance < s.distance
                           \/ r.distance = s.distance /\ r.product > s.product
<1>1. Rounds("impact", incoming, first, best, Nat)
  <2>1. PICK f : Rounds("impact", incoming, first, f, Nat)
        BY RoundsExist
  <2> HIDE DEF incoming
  <2>2. \A g : Rounds("impact", incoming, first, g, Nat) <=>
          g = [k \in Nat |->
              IF k = 0 THEN {[node |-> node, distance |-> 0, product |-> 1]}
              ELSE LET nearer == g[k - 1]
                       known == {r.node : r \in nearer}
                       offers == {[node |-> x[2].source, distance |-> k,
                                   product |-> x[1].product * x[2].confidence] :
                                  x \in {y \in nearer \X incoming :
                                           /\ y[1].distance = k - 1 /\ y[2].target = y[1].node
                                           /\ y[2].source \notin known}} IN
                   nearer \cup Strongest(offers)]
        BY DEF Rounds, Round, Farther, Offers
  <2>3. QED BY <2>1, <2>2
<1>2. IsFiniteSet(incoming)
      BY FS_Subset DEF Dependence, Served
<1>3. IsFiniteSet(first)
      BY FS_Singleton
<1>4. ASSUME NEW limit
      PROVE  LET impact == TransitiveImpact(es, Ask(node, hops, limit)) IN
             /\ impact.truncated = (Cardinality(rows) > limit)
             /\ impact.impacted = Foremost(limit, rows, Before)
      BY DEF TransitiveImpact, Ask
<1> HIDE DEF incoming, first, best
<1>5. IsFiniteSet(best[hops])
      BY <1>1, <1>2, <1>3, RoundsFinite
<1>6. IsFiniteSet(rows)
      BY <1>5, FS_Subset
<1> HIDE DEF rows
<1>7. ASSUME NEW limit \in Nat, Cardinality(rows) <= limit PROVE Foremost(limit, rows, Before) = rows
  <2> DEFINE Fits(some) == /\ Cardinality(some) = Min({limit, Cardinality(rows)})
                           /\ \A x \in some, y \in rows \ some : ~Before(y, x)
  <2>1. Foremost(limit, rows, Before) = CHOOSE some \in SUBSET rows : Fits(some)
        BY DEF Foremost
  <2>2. Fits(rows)
    <3>1. Cardinality(rows) = Min({limit, Cardinality(rows)})
          BY <1>6, <1>7, FS_CardinalityType DEF Min
    <3>2. QED BY <3>1
  <2>3. \A some \in SUBSET rows : Fits(some) => some = rows
        BY <1>6, <1>7, AllListed
  <2> HIDE DEF Fits
  <2>4. QED BY <2>1, <2>2, <2>3
<1>8. ASSUME NEW limit \in Nat
      PROVE  LET impact == TransitiveImpact(es, Ask(node, hops, limit)) IN
             /\ impact.truncated = (Cardinality(rows) > limit)
             /\ Cardinality(rows) <= limit => impact.impacted = rows
  <2> DEFINE impact == TransitiveImpact(es, Ask(node, hops, limit))
  <2>1. /\ impact.truncated = (Cardinality(rows) > limit)
        /\ impact.impacted = Foremost(limit, rows, Before)
        BY <1>4
  <2> HIDE DEF impact, Before
  <2>2. Cardinality(rows) <= limit => impact.impacted = rows
        BY <1>7, <2>1
  <2>3. QED BY <2>1, <2>2 DEF impact
<1>9. QED BY <1>6, <1>8

\* Its neighbours: those that are listed are all there are.
Around(node, hops, limit) ==
    [node |-> node, types |-> {}, hops |-> hops, direction |-> "both", limit |-> limit]

LEMMA NeighborsListed ==
    ASSUME NEW es, IsFiniteSet(es), NEW node, NEW hops \in Nat
    PROVE  \E others : /\ IsFiniteSet(others)
                       /\ \A limit \in Nat :
                             LET near == BoundedNeighborhood(es, Around(node, hops, limit)) IN
                             /\ near.truncated = (Cardinality(others) > limit)
                             /\ Cardinality(others) <= limit =>
                                   DOMAIN near.distances = {node} \cup others
<1> DEFINE active == {e \in Served(es) : Typed({}, e)}
           ways == Steps(active, {}, "both")
           within[k \in Nat] ==
              IF k = 0 THEN {node}
              ELSE LET nearer == within[k - 1] IN
                   nearer \cup {s[2] : s \in {t \in ways : t[1] \in nearer}}
           others == within[hops] \ {node}
           Distance(n) == Min({k \in 0 .. hops : n \in within[k]})
           Nearer(n, m) == Distance(n) < Distance(m)
<1>1. Rounds("reach", ways, {node}, within, Nat)
  <2>1. PICK f : Rounds("reach", ways, {node}, f, Nat)
        BY RoundsExist
  <2> HIDE DEF ways
  <2>2. \A g : Rounds("reach", ways, {node}, g, Nat) <=>
          g = [k \in Nat |->
              IF k = 0 THEN {node}
              ELSE LET nearer == g[k - 1] IN
                   nearer \cup {s[2] : s \in {t \in ways : t[1] \in nearer}}]
        BY DEF Rounds, Round, Further
  <2>3. QED BY <2>1, <2>2
<1>2. IsFiniteSet(ways)
  <2>1. IsFiniteSet(active)
        BY FS_Subset DEF Served
  <2> DEFINE A == {<<e.source, e.target>> : e \in active}
             B == {<<e.target, e.source>> : e \in active}
             f == [e \in active |-> <<e.source, e.target>>]
             g == [e \in active |-> <<e.target, e.source>>]
  <2>2. ways \subseteq A \cup B
        BY DEF Steps
  <2>3. (\A w \in A : \E e \in active : w = f[e]) /\ (\A w \in B : \E e \in active : w = g[e])
        OBVIOUS
  <2> HIDE DEF active, ways, A, B, f, g
  <2>4. IsFiniteSet(A) /\ IsFiniteSet(B)
        BY <2>1, <2>3, FiniteCover
  <2>5. IsFiniteSet(A \cup B)
        BY <2>4, FS_Union
  <2>6. QED BY <2>2, <2>5, FS_Subset
<1>3. IsFiniteSet({node})
      BY FS_Singleton
<1>4. ASSUME NEW limit
      PROVE  LET near == BoundedNeighborhood(es, Around(node, hops, limit)) IN
             /\ near.truncated = (Cardinality(others) > limit)
             /\ DOMAIN near.distances = {node} \cup Foremost(limit, others, Nearer)
      BY DEF BoundedNeighborhood, Around
<1> HIDE DEF active, ways, within
<1>5. IsFiniteSet(within[hops])
      BY <1>1, <1>2, <1>3, RoundsFinite
<1>6. IsFiniteSet(others)
      BY <1>5, FS_Subset
<1> HIDE DEF others
<1>7. ASSUME NEW limit \in Nat, Cardinality(others) <= limit
      PROVE  Foremost(limit, others, Nearer) = others
  <2> DEFINE Fits(some) == /\ Cardinality(some) = Min({limit, Cardinality(others)})
                           /\ \A x \in some, y \in others \ some : ~Nearer(y, x)
  <2>1. Foremost(limit, others, Nearer) = CHOOSE some \in SUBSET others : Fits(some)
        BY DEF Foremost
  <2>2. Fits(others)
    <3>1. Cardinality(others) = Min({limit, Cardinality(others)})
          BY <1>6, <1>7, FS_CardinalityType DEF Min
    <3>2. QED BY <3>1
  <2>3. \A some \in SUBSET others : Fits(some) => some = others
        BY <1>6, <1>7, AllListed
  <2> HIDE DEF Fits
  <2>4. QED BY <2>1, <2>2, <2>3
<1>8. ASSUME NEW limit \in Nat
      PROVE  LET near == BoundedNeighborhood(es, Around(node, hops, limit)) IN
             /\ near.truncated = (Cardinality(others) > limit)
             /\ Cardinality(others) <= limit => DOMAIN near.distances = {node} \cup others
  <2> DEFINE near == BoundedNeighborhood(es, Around(node, hops, limit))
  <2>1. /\ near.truncated = (Cardinality(others) > limit)
        /\ DOMAIN near.distances = {node} \cup Foremost(limit, others, Nearer)
        BY <1>4
  <2> HIDE DEF near, Nearer
  <2>2. Cardinality(others) <= limit => DOMAIN near.distances = {node} \cup others
        BY <1>7, <2>1
  <2>3. QED BY <2>1, <2>2 DEF near
<1>9. QED BY <1>6, <1>8

------------------------------------------------------------------------------
\* What a host is told of a checkout, if git answers
Named(r, place) ==
    LET dirty == DirtyDigest(place) # <<{}, {}, {}>> IN
    [repo |-> r, head |-> {place.head}, dirty |-> dirty,
     content |-> IF dirty THEN {DirtyDigest(place)} ELSE {}]

\* The trees of a checkout are about the repository's files.
Whole(r, place) ==
    /\ DOMAIN place.work = DOMAIN Versions[r]
    /\ DOMAIN place.staged = DOMAIN Versions[r]
    /\ DOMAIN place.head = DOMAIN Versions[r]

Matches(x) == \E r \in Repos : \E place :
                  /\ Whole(r, place)
                  /\ x.revision = Named(r, place) /\ x.claims = Scan(r, place.work).claims

\* What is staged, what is not and what is untracked say, from the last commit, what is
\* there.
LEMMA DigestTells ==
    ASSUME NEW r \in Repos, NEW x, NEW y, Whole(r, x), Whole(r, y),
           x.head = y.head, DirtyDigest(x) = DirtyDigest(y)
    PROVE  \A f \in DOMAIN Versions[r] : x.work[f] = y.work[f]
<1>1. Staged(x) = Staged(y) /\ Unstaged(x) = Unstaged(y) /\ Untracked(x) = Untracked(y)
      BY DEF DirtyDigest
<1> DEFINE D == DOMAIN Versions[r]
<1>2. ASSUME NEW f \in D PROVE x.staged[f] = y.staged[f]
  <2>1. \A z : Whole(r, z) => (z.head[f] # z.staged[f] => <<f, z.head[f], z.staged[f]>> \in Staged(z))
        BY DEF Staged, Differ, Whole
  <2>2. \A z, a, b : <<f, a, b>> \in Staged(z) => a = z.head[f] /\ b = z.staged[f]
        BY DEF Staged, Differ
  <2>3. CASE x.head[f] = x.staged[f] /\ y.head[f] = y.staged[f]
        BY <2>3
  <2>4. CASE x.head[f] # x.staged[f]
        BY <1>1, <2>1, <2>2, <2>4
  <2>5. CASE y.head[f] # y.staged[f]
        BY <1>1, <2>1, <2>2, <2>5
  <2>6. QED BY <2>3, <2>4, <2>5
<1>3. Tracked(x) = Tracked(y) /\ Tracked(x) \subseteq D
      BY <1>2 DEF Tracked, Whole
<1>4. ASSUME NEW f \in Tracked(x) PROVE x.work[f] = y.work[f]
  <2>1. \A z : f \in Tracked(z) /\ z.staged[f] # z.work[f] =>
                  <<f, z.staged[f], z.work[f]>> \in Unstaged(z)
        BY DEF Unstaged, Differ
  <2>2. \A z, a, b : <<f, a, b>> \in Unstaged(z) => a = z.staged[f] /\ b = z.work[f]
        BY DEF Unstaged, Differ
  <2>3. x.staged[f] = y.staged[f] /\ f \in Tracked(y)
        BY <1>2, <1>3
  <2>4. CASE x.staged[f] = x.work[f] /\ y.staged[f] = y.work[f]
        BY <2>3, <2>4
  <2>5. CASE x.staged[f] # x.work[f]
        BY <1>1, <2>1, <2>2, <2>5
  <2>6. CASE y.staged[f] # y.work[f]
        BY <1>1, <2>1, <2>2, <2>3, <2>6
  <2>7. QED BY <2>4, <2>5, <2>6
<1>5. ASSUME NEW f \in D \ Tracked(x) PROVE x.work[f] = y.work[f]
  <2>1. \A z : Whole(r, z) /\ f \notin Tracked(z) /\ z.work[f] # Absent =>
                  <<f, z.work[f]>> \in Untracked(z)
        BY DEF Untracked, Whole
  <2>2. \A z, a : <<f, a>> \in Untracked(z) => a = z.work[f] /\ a # Absent
        BY DEF Untracked
  <2>3. CASE x.work[f] = Absent /\ y.work[f] = Absent
        BY <2>3
  <2>4. CASE x.work[f] # Absent
        BY <1>1, <2>1, <2>2, <2>4
  <2>5. CASE y.work[f] # Absent
        BY <1>1, <1>3, <2>1, <2>2, <2>5
  <2>6. QED BY <2>3, <2>4, <2>5
<1>6. QED BY <1>3, <1>4, <1>5

\* Trees with the same files have the same claims.
LEMMA ScanTells ==
    ASSUME NEW r, NEW t, NEW u, DOMAIN t = DOMAIN u, \A f \in DOMAIN t : t[f] = u[f]
    PROVE  Scan(r, t).claims = Scan(r, u).claims
<1>1. Listed(t) = Listed(u)
      BY DEF Listed
<1> DEFINE files(v) == {f \in Listed(v) : Cardinality({g \in Listed(v) : g < f}) < MaxFiles}
           parsed(v) == {f \in files(v) : v[f].fate = "parsed"}
<1>2. files(t) = files(u) /\ files(t) \subseteq DOMAIN t
  <2>1. files(t) = files(u)
        BY <1>1, Zenon
  <2>2. QED BY <2>1 DEF Listed
<1>3. \A v : Scan(r, v).claims = UNION {v[f].claims : f \in parsed(v)}
      BY DEF Scan
<1> HIDE DEF files
<1>4. parsed(t) = parsed(u) /\ parsed(t) \subseteq DOMAIN t
      BY <1>2
<1> HIDE DEF parsed
<1>5. {t[f].claims : f \in parsed(t)} = {u[f].claims : f \in parsed(u)}
      BY <1>4
<1>6. QED BY <1>3, <1>5

\* So two loads that name one revision hold the same claims.
LEMMA NamedTells ==
    ASSUME NEW x, NEW y, Matches(x), Matches(y), x.revision = y.revision
    PROVE  x.claims = y.claims
<1>0. PICK r \in Repos : \E a : /\ Whole(r, a) /\ x.revision = Named(r, a)
                                /\ x.claims = Scan(r, a.work).claims
      BY DEF Matches
<1>1. PICK a : /\ Whole(r, a) /\ x.revision = Named(r, a) /\ x.claims = Scan(r, a.work).claims
      BY <1>0
<1>b. PICK q \in Repos : \E b : /\ Whole(q, b) /\ y.revision = Named(q, b)
                                /\ y.claims = Scan(q, b.work).claims
      BY DEF Matches
<1>2. PICK b : /\ Whole(q, b) /\ y.revision = Named(q, b) /\ y.claims = Scan(q, b.work).claims
      BY <1>b
<1>n. \A s, p : LET n == Named(s, p) IN
         /\ n.repo = s /\ n.head = {p.head}
         /\ n.dirty = (DirtyDigest(p) # <<{}, {}, {}>>)
         /\ n.dirty => n.content = {DirtyDigest(p)}
      BY DEF Named
<1>e. Named(r, a) = Named(q, b)
      BY <1>1, <1>2
<1>3. q = r /\ a.head = b.head
  <2>1. r = Named(r, a).repo /\ q = Named(q, b).repo
        BY <1>n
  <2>2. {a.head} = Named(r, a).head /\ {b.head} = Named(q, b).head
        BY <1>n
  <2>3. QED BY <1>e, <2>1, <2>2
<1>4. DirtyDigest(a) = DirtyDigest(b)
  <2>1. CASE Named(r, a).dirty
    <3>1. Named(r, a).content = {DirtyDigest(a)} /\ Named(q, b).content = {DirtyDigest(b)}
          BY <1>n, <1>e, <2>1
    <3>2. QED BY <1>e, <3>1
  <2>2. CASE ~Named(r, a).dirty
    <3>1. Named(r, a).dirty = (DirtyDigest(a) # <<{}, {}, {}>>)
          BY <1>n
    <3>2. Named(q, b).dirty = (DirtyDigest(b) # <<{}, {}, {}>>)
          BY <1>n
    <3>3. QED BY <1>e, <2>2, <3>1, <3>2
  <2>3. QED BY <2>1, <2>2
<1>5. \A f \in DOMAIN Versions[r] : a.work[f] = b.work[f]
      BY <1>1, <1>2, <1>3, <1>4, DigestTells
<1>6. DOMAIN a.work = DOMAIN Versions[r] /\ DOMAIN b.work = DOMAIN Versions[r]
      BY <1>1, <1>2, <1>3 DEF Whole
<1>7. QED BY <1>1, <1>2, <1>3, <1>5, <1>6, ScanTells

\* RevisionsAt, of any checkouts and index
RevisionsIn(places, indexes, path, answered) ==
    CASE path[1] = "dir" ->
           LET place == places[path[2]]
               dirty == "status" \in answered /\ DirtyDigest(place) # <<{}, {}, {}>> IN
           {[repo |-> path[2], head |-> IF "head" \in answered THEN {place.head} ELSE {},
             dirty |-> dirty, content |-> IF dirty THEN {DirtyDigest(place)} ELSE {}]}
      [] path[1] = "artifact" -> {[repo |-> path[2].file.repo, head |-> path[2].file.head,
                                   dirty |-> FALSE, content |-> {path[2].file}]}
      [] path[1] = "index" -> {[repo |-> r, head |-> {}, dirty |-> FALSE, content |-> indexes] :
                                  r \in UNION {i.repos : i \in indexes}}

\* RevisionsAt is that of the checkouts and the index there are now.
LEMMA RevisionsAre ==
    ASSUME NEW path, path[1] \in {"dir", "artifact", "index"}, NEW answered
    PROVE  RevisionsAt(path, answered) = RevisionsIn(checkout, index, path, answered)
<1>1. CASE path[1] = "dir"
      BY <1>1 DEF RevisionsAt, RevisionsIn, DirRevision
<1>2. CASE path[1] = "artifact"
      BY <1>2 DEF RevisionsAt, RevisionsIn
<1>3. CASE path[1] = "index"
  <2>1. ReposAt(path) = UNION {i.repos : i \in index}
        BY <1>3 DEF ReposAt
  <2>2. QED BY <1>3, <2>1 DEF RevisionsAt, RevisionsIn
<1>4. QED BY <1>1, <1>2, <1>3

\* As long as nothing is edited between the digest and the scan, the revisions a host
\* collected are those its inputs still have.
UpToDate ==
    /\ facade.phase = "meta" => "quiet" \in DOMAIN facade
    /\ facade.phase = "meta" /\ facade.quiet =>
          /\ \A p \in facade.paths : p[1] \in {"dir", "artifact", "index"}
                                      /\ (p[1] = "dir" => p[2] \in Repos)
          /\ facade.revisions = UNION {RevisionsIn(checkout, index, p, facade.answered) :
                                         p \in facade.paths}

\* The inductive invariant of SnapshotsAreNamed: what a host loaded of a directory is the scan
\* of some checkout that its revision names.
SnapInv ==
    /\ checkout = [r \in Repos |-> checkout[r]]
    /\ \A r \in Repos : Whole(r, checkout[r])
    /\ UpToDate
    /\ \A x \in loads : Matches(x)

\* Nothing is loaded at first.
LEMMA SnapInit == EmbeddedInit => SnapInv
<1> SUFFICES ASSUME EmbeddedInit PROVE SnapInv
    OBVIOUS
<1>1. PICK t \in {u \in [Repos -> UNION {Starts[r] : r \in Repos}] : \A r \in Repos : u[r] \in Starts[r]} :
         checkout = [r \in Repos |-> [work |-> t[r], staged |-> t[r], head |-> t[r]]]
      BY DEF EmbeddedInit, CleanCheckouts
<1>2. \A r \in Repos : DOMAIN t[r] = DOMAIN Versions[r]
      BY <1>1, EmbeddedAssumption DEF Repos
<1>3. \A r \in Repos : Whole(r, checkout[r])
      BY <1>1, <1>2 DEF Whole
<1>4. checkout = [r \in Repos |-> checkout[r]]
      BY <1>1
<1>5. UpToDate
      BY DEF EmbeddedInit, UpToDate, Idle
<1>6. QED BY <1>3, <1>4, <1>5 DEF SnapInv, EmbeddedInit

\* What changes a source ends the quiet.
LEMMA UnquietIs ==
    ASSUME UpToDate, facade' = Unquiet
    PROVE  UpToDate'
<1>1. CASE facade.phase = "meta"
  <2>1. "quiet" \in DOMAIN facade
        BY <1>1 DEF UpToDate
  <2>2. facade' = [facade EXCEPT !.quiet = FALSE]
        BY <1>1 DEF Unquiet
  <2>3. facade'.quiet = FALSE /\ "quiet" \in DOMAIN facade'
        BY <2>1, <2>2
  <2>4. QED BY <2>3 DEF UpToDate
<1>2. CASE facade.phase # "meta"
      BY <1>2 DEF Unquiet, UpToDate
<1>3. QED BY <1>1, <1>2

\* Edit, Add and Commit: the loads are of the checkouts they were made of, not of this one.
LEMMA CheckoutKeeps ==
    ASSUME SnapInv, NEW r \in Repos, NEW place, Whole(r, place), Checkout(r, place)
    PROVE  SnapInv'
<1>1. checkout' = [checkout EXCEPT ![r] = place] /\ facade' = Unquiet /\ loads' = loads
      BY DEF Checkout
<1>2. checkout' = [q \in Repos |-> IF q = r THEN place ELSE checkout[q]]
      BY <1>1 DEF SnapInv
<1>3. \A q \in Repos : Whole(q, checkout'[q])
      BY <1>2 DEF SnapInv
<1>4. UpToDate'
      BY <1>1, UnquietIs DEF SnapInv
<1>5. checkout' = [q \in Repos |-> checkout'[q]]
      BY <1>2
<1>6. QED BY <1>1, <1>3, <1>4, <1>5 DEF SnapInv

\* The revision that is filed under a directory's repository is the directory's.
LEMMA RevisionOf ==
    ASSUME NEW paths, Accepted(paths), NEW answered, NEW p \in paths, p[1] = "dir",
           \A q \in paths : q[1] \in {"dir", "artifact", "index"},
           NEW r \in UNION {RevisionsAt(q, answered) : q \in paths}, r.repo = p[2]
    PROVE  r = DirRevision(p[2], answered)
<1>1. PICK q \in paths : r \in RevisionsAt(q, answered)
      OBVIOUS
<1>2. r.repo \in ReposAt(q)
  <2>1. CASE q[1] = "dir"
        BY <1>1, <2>1 DEF RevisionsAt, ReposAt, DirRevision
  <2>2. CASE q[1] = "artifact"
        BY <1>1, <2>2 DEF RevisionsAt, ReposAt
  <2>3. CASE q[1] = "index"
        BY <1>1, <2>3 DEF RevisionsAt
  <2>4. QED BY <2>1, <2>2, <2>3
<1>3. p[2] \in ReposAt(p)
      BY DEF ReposAt
<1>4. q = p
      BY <1>2, <1>3 DEF Accepted
<1>5. QED BY <1>1, <1>4 DEF RevisionsAt

\* LoadMeta: what is collected is of the inputs as they are.
LEMMA LoadMetaKeeps == SnapInv /\ LoadMeta => SnapInv'
<1> SUFFICES ASSUME SnapInv, NEW paths \in SUBSET Paths,
                    NEW answered \in {{}, {"head"}, {"head", "status"}},
                    facade' = [phase |-> "meta", paths |-> paths, answered |-> answered, quiet |-> TRUE,
                       revisions |-> UNION {RevisionsAt(p, answered) : p \in paths},
                       metas |-> [p \in {q \in paths : q[1] # "dir"} |-> MetaAt(p)]],
                    UNCHANGED <<checkout, archive, index, loads, steps>>
             PROVE  SnapInv'
    BY DEF LoadMeta
<1>1. \A p \in paths : p[1] \in {"dir", "artifact", "index"} /\ (p[1] = "dir" => p[2] \in Repos)
  <2> DEFINE A == {<<"dir", r>> : r \in Repos}
             B == {<<"artifact", a>> : a \in archive}
             C == {<<"index", "">> : i \in index}
  <2>0. Paths = A \cup B \cup C
        BY Zenon DEF Paths
  <2>1. \A p \in A : p[1] = "dir" /\ p[2] \in Repos
        OBVIOUS
  <2>2. \A p \in B : p[1] = "artifact"
        OBVIOUS
  <2>3. \A p \in C : p[1] = "index"
    <3>1. \A p \in C : p = <<"index", "">>
          BY Zenon
    <3>2. <<"index", "">>[1] = "index"
          OBVIOUS
    <3>3. QED BY <3>1, <3>2
  <2> HIDE DEF A, B, C
  <2>4. QED BY <2>0, <2>1, <2>2, <2>3
<1>2. UNION {RevisionsAt(p, answered) : p \in paths}
         = UNION {RevisionsIn(checkout, index, p, answered) : p \in paths}
  <2>1. \A p \in paths : RevisionsAt(p, answered) = RevisionsIn(checkout, index, p, answered)
        BY <1>1, RevisionsAre
  <2>2. QED BY <2>1
<1>3. UpToDate'
  <2>1. /\ "quiet" \in DOMAIN facade' /\ facade'.paths = paths /\ facade'.answered = answered
        /\ facade'.revisions = UNION {RevisionsIn(checkout, index, p, answered) : p \in paths}
        BY <1>2
  <2>2. QED BY <1>1, <2>1 DEF UpToDate
<1>4. QED BY <1>3 DEF SnapInv, Matches

\* LoadClaims: if it is still quiet, the scan is of the checkout that the revision names.
LEMMA LoadClaimsKeeps == SnapInv /\ LoadClaims => SnapInv'
<1> SUFFICES ASSUME SnapInv, LoadClaims PROVE SnapInv'
    OBVIOUS
<1>1. facade.phase = "meta" /\ UNCHANGED checkout
      BY DEF LoadClaims
<1>2. facade'.phase # "meta"
  <2>1. CASE ~Accepted(facade.paths)
        BY <2>1 DEF LoadClaims, Idle
  <2>2. CASE Accepted(facade.paths)
    <3>1. PICK cs, ns, metas, revisions, sources :
             facade' = Loaded(cs, ns, metas, revisions, sources)
          BY <1>1, <2>2 DEF LoadClaims
    <3>2. facade'.phase = "loaded"
          BY <3>1 DEF Loaded
    <3>3. QED BY <3>2
  <2>3. QED BY <2>1, <2>2
<1>3. UpToDate'
      BY <1>2 DEF UpToDate
<1>4. ASSUME NEW x \in loads', x \notin loads PROVE Matches(x)
  <2>1. Accepted(facade.paths)
        BY <1>4 DEF LoadClaims
  <2>2. PICK p \in facade.paths :
           /\ p[1] = "dir" /\ facade.quiet /\ facade.answered = {"head", "status"}
           /\ x = [revision |-> CHOOSE r \in facade.revisions : r.repo = p[2],
                   claims |-> Contents(p).claims]
        BY <1>4, <2>1 DEF LoadClaims
  <2>3. /\ \A q \in facade.paths : q[1] \in {"dir", "artifact", "index"}
        /\ p[2] \in Repos
        /\ facade.revisions = UNION {RevisionsAt(q, facade.answered) : q \in facade.paths}
    <3>1. /\ \A q \in facade.paths : q[1] \in {"dir", "artifact", "index"}
          /\ p[2] \in Repos
          /\ facade.revisions = UNION {RevisionsIn(checkout, index, q, facade.answered) :
                                         q \in facade.paths}
          BY <1>1, <2>2 DEF SnapInv, UpToDate
    <3>2. \A q \in facade.paths : RevisionsAt(q, facade.answered)
                                     = RevisionsIn(checkout, index, q, facade.answered)
          BY <3>1, RevisionsAre
    <3>3. QED BY <3>1, <3>2
  <2> DEFINE named == DirRevision(p[2], facade.answered)
             chosen == CHOOSE r \in facade.revisions : r.repo = p[2]
  <2>4. named \in facade.revisions /\ named.repo = p[2]
    <3>1. RevisionsAt(p, facade.answered) = {named}
          BY <2>2 DEF RevisionsAt
    <3>2. named.repo = p[2]
          BY DEF DirRevision
    <3>3. QED BY <2>3, <3>1, <3>2
  <2>5. chosen \in facade.revisions /\ chosen.repo = p[2]
        BY <2>4
  <2>6. chosen = named
        BY <2>1, <2>2, <2>3, <2>5, RevisionOf
  <2>7. x.revision = named /\ x.claims = Scan(p[2], checkout[p[2]].work).claims
        BY <2>2, <2>6 DEF Contents
  <2>8. named = Named(p[2], checkout[p[2]])
        BY <2>2 DEF DirRevision, Named
  <2>9. Whole(p[2], checkout[p[2]])
        BY <2>3 DEF SnapInv
  <2>10. QED BY <2>3, <2>7, <2>8, <2>9 DEF Matches
<1>5. \A x \in loads' : Matches(x)'
  <2>1. \A x \in loads' : Matches(x)
        BY <1>4 DEF SnapInv
  <2>2. QED BY <2>1 DEF Matches
<1>6. QED BY <1>1, <1>3, <1>5 DEF SnapInv

\* Every step keeps SnapInv.
LEMMA SnapNext == SnapInv /\ [EmbeddedNext]_embeddedVars => SnapInv'
<1> SUFFICES ASSUME SnapInv, [EmbeddedNext]_embeddedVars PROVE SnapInv'
    OBVIOUS
<1>1. CASE Edit
  <2>0. PICK r \in Repos : \E f, v : Checkout(r, [checkout[r] EXCEPT !.work[f] = v])
        BY <1>1 DEF Edit
  <2>1. PICK f, v : Checkout(r, [checkout[r] EXCEPT !.work[f] = v])
        BY <2>0
  <2>2. Whole(r, [checkout[r] EXCEPT !.work[f] = v])
        BY DEF SnapInv, Whole
  <2>3. QED BY <2>1, <2>2, CheckoutKeeps
<1>2. CASE Add
  <2>1. PICK r \in Repos : Checkout(r, [checkout[r] EXCEPT !.staged = checkout[r].work])
        BY <1>2 DEF Add
  <2>2. Whole(r, [checkout[r] EXCEPT !.staged = checkout[r].work])
        BY DEF SnapInv, Whole
  <2>3. QED BY <2>1, <2>2, CheckoutKeeps
<1>3. CASE Commit
  <2>1. PICK r \in Repos : Checkout(r, [checkout[r] EXCEPT !.head = checkout[r].staged])
        BY <1>3 DEF Commit
  <2>2. Whole(r, [checkout[r] EXCEPT !.head = checkout[r].staged])
        BY DEF SnapInv, Whole
  <2>3. QED BY <2>1, <2>2, CheckoutKeeps
<1>4. CASE Publish \/ UNCHANGED embeddedVars
  <2>1. UNCHANGED <<checkout, index, facade, loads>>
        BY <1>4 DEF Publish, embeddedVars
  <2>2. QED BY <2>1 DEF SnapInv, UpToDate, Matches
<1>5. CASE Compact
  <2>1. UNCHANGED <<checkout, loads>> /\ facade' = Unquiet
        BY <1>5 DEF Compact
  <2>2. UpToDate'
        BY <2>1, UnquietIs DEF SnapInv
  <2>3. QED BY <2>1, <2>2 DEF SnapInv, Matches
<1>6. CASE LoadMeta
      BY <1>6, LoadMetaKeeps
<1>7. CASE LoadClaims
      BY <1>7, LoadClaimsKeeps
<1>8. QED BY <1>1, <1>2, <1>3, <1>4, <1>5, <1>6, <1>7 DEF EmbeddedNext

\* SnapshotNames, for any edits, adds and commits between loads: the revision a host names
\* is the source it answers from.
THEOREM SnapshotsAreNamed == EmbeddedSpec => []SnapshotNames
<1>1. SnapInv => SnapshotNames
      BY NamedTells DEF SnapInv, SnapshotNames
<1>2. QED BY <1>1, SnapInit, SnapNext, PTL DEF EmbeddedSpec

------------------------------------------------------------------------------
\* The files of a tree are versions of the repository's.
Tree(r, t) ==
    /\ DOMAIN t = DOMAIN Versions[r]
    /\ \A f \in DOMAIN t : t[f] \in Versions[r][f] \cup {Absent}

\* What can be read of a tree's files
Readable(t) == UNION {t[f].claims : f \in {g \in DOMAIN t : t[g].fate \notin {"swallowed", "unseen"}}}

\* A scan that says nothing was missed, the way Complete asks
Told(m) == m.metadata_complete /\ m.parse_failures = 0 /\ ~m.truncated /\ m.reasons = {}

\* There are finitely many claims in a tree.
LEMMA ReadableFinite ==
    ASSUME NEW r \in Repos, NEW t, Tree(r, t)
    PROVE  IsFiniteSet(Readable(t))
<1> DEFINE files == {g \in DOMAIN t : t[g].fate \notin {"swallowed", "unseen"}}
           sets == {t[f].claims : f \in files}
           c == [f \in DOMAIN t |-> t[f].claims]
<1>1. IsFiniteSet(DOMAIN t)
      BY EmbeddedAssumption DEF Tree, Repos
<1>2. \A s \in sets : \E f \in DOMAIN t : s = c[f]
      OBVIOUS
<1>3. \A s \in sets : IsFiniteSet(s)
  <2>1. ASSUME NEW f \in DOMAIN t PROVE IsFiniteSet(t[f].claims)
    <3>1. CASE t[f] = Absent
          BY <3>1, FS_EmptySet DEF Absent
    <3>2. CASE t[f] \in Versions[r][f]
          BY <3>2, EmbeddedAssumption DEF Tree, Repos
    <3>3. QED BY <3>1, <3>2 DEF Tree
  <2>2. QED BY <2>1
<1>4. Readable(t) = UNION sets
      BY DEF Readable
<1> HIDE DEF sets, c
<1>5. IsFiniteSet(sets)
      BY <1>1, <1>2, FiniteCover
<1>6. QED BY <1>3, <1>4, <1>5, FS_UNION

\* A scan that says so has found all that can be read.
LEMMA ScanMisses ==
    ASSUME NEW r \in Repos, NEW t, Tree(r, t), Told(FromSink(Scan(r, t)))
    PROVE  Scan(r, t).claims = Readable(t)
<1> DEFINE sink == Scan(r, t)
           files == {f \in Listed(t) : Cardinality({g \in Listed(t) : g < f}) < MaxFiles}
           With(fate) == {f \in files : t[f].fate = fate}
<1>1. /\ sink.claims = UNION {t[f].claims : f \in With("parsed")}
      /\ sink.lost = [fate \in Lossy |-> With(fate)]
      /\ sink.capped = Cardinality(Listed(t)) - Cardinality(files)
      /\ sink.unfetched = {f \in DOMAIN t : t[f].fate = "unfetched"}
      BY DEF Scan
<1>2. ~(sink.capped > 0) /\ AbsenceReport(sink) = {}
      BY DEF Told, FromSink
<1> HIDE DEF sink
<1>3. \A fate \in Lossy : With(fate) = {}
      BY <1>1, <1>2 DEF AbsenceReport
<1>4. sink.unfetched = {}
      BY <1>2 DEF AbsenceReport
<1>5. files = Listed(t)
  <2>1. IsFiniteSet(DOMAIN t)
        BY EmbeddedAssumption DEF Tree, Repos
  <2>2. Listed(t) \subseteq DOMAIN t
        BY DEF Listed
  <2>3. IsFiniteSet(Listed(t))
        BY <2>1, <2>2, FS_Subset
  <2>4. files \subseteq Listed(t)
        OBVIOUS
  <2> HIDE DEF files
  <2>5. /\ Cardinality(files) \in Nat /\ Cardinality(Listed(t)) \in Nat
        /\ Cardinality(files) <= Cardinality(Listed(t))
        BY <2>3, <2>4, FS_Subset, FS_CardinalityType
  <2>6. Cardinality(files) = Cardinality(Listed(t))
        BY <1>1, <1>2, <2>5
  <2>7. QED BY <2>3, <2>4, <2>6, FS_Subset
<1>6. ASSUME NEW f \in DOMAIN t
      PROVE  /\ t[f].fate \in Fates \cup {"absent"}
             /\ t[f].fate = "absent" => t[f].claims = {}
  <2>1. CASE t[f] = Absent
        BY <2>1 DEF Absent
  <2>2. CASE t[f] \in Versions[r][f]
    <3>1. t[f].fate \in Fates
          BY <2>2, EmbeddedAssumption DEF Tree, Repos
    <3>2. QED BY <3>1 DEF Fates, Lossy
  <2>3. QED BY <2>1, <2>2 DEF Tree
<1>7. ASSUME NEW f \in DOMAIN t, t[f].fate \notin {"swallowed", "unseen"}
      PROVE  t[f].fate = "absent" \/ f \in With("parsed")
  <2>1. t[f].fate # "unfetched"
        BY <1>1, <1>4
  <2>2. CASE t[f].fate # "absent"
    <3>1. f \in files
          BY <1>5, <1>7, <2>1, <2>2 DEF Listed
    <3>2. t[f].fate \notin Lossy
          BY <1>3, <3>1
    <3>3. t[f].fate = "parsed"
          BY <1>6, <1>7, <2>1, <2>2, <3>2 DEF Fates
    <3>4. QED BY <3>1, <3>3
  <2>3. QED BY <2>2
<1>8. With("parsed") \subseteq {g \in DOMAIN t : t[g].fate \notin {"swallowed", "unseen"}}
      BY DEF Listed
<1> HIDE DEF files, With
<1>9. Readable(t) \subseteq sink.claims
  <2>1. ASSUME NEW c \in Readable(t) PROVE c \in sink.claims
    <3>1. PICK f \in DOMAIN t : t[f].fate \notin {"swallowed", "unseen"} /\ c \in t[f].claims
          BY DEF Readable
    <3>2. f \in With("parsed")
          BY <1>6, <1>7, <3>1
    <3>3. QED BY <1>1, <3>1, <3>2
  <2>2. QED BY <2>1
<1>10. sink.claims \subseteq Readable(t)
      BY <1>1, <1>8 DEF Readable
<1>11. QED BY <1>9, <1>10 DEF sink

\* An artifact was made of a tree, and says what the scan of it said.
Made(a) == \E r \in Repos : Tree(r, a.tree) /\ a.file.sink = Scan(r, a.tree)

\* The inputs there are: a checkout, an artifact, the index
IsPath(p) ==
    /\ p[1] \in {"dir", "artifact", "index"}
    /\ p[1] = "dir" => p[2] \in Repos
    /\ p[1] = "artifact" => Made(p[2])

\* What a host has loaded, if all its inputs say so, is all that can be read of them.
AnswersAll ==
    facade.phase = "loaded" =>
        \E cs, ns, revisions :
            /\ facade = Loaded(cs, ns, facade.metas, revisions, facade.sources)
            /\ (\A m \in facade.metas : Told(m)) =>
                  cs = facade.sources /\ IsFiniteSet(cs)

\* The inductive invariant of CompleteMissesNothing
WholeInv ==
    /\ checkout = [r \in Repos |-> checkout[r]]
    /\ \A r \in Repos : "work" \in DOMAIN checkout[r] /\ Tree(r, checkout[r].work)
    /\ IsFiniteSet(archive) /\ \A a \in archive : Made(a)
    /\ facade.phase = "meta" =>
          /\ IsFiniteSet(facade.paths) /\ \A p \in facade.paths : IsPath(p)
          /\ facade.metas = [p \in {q \in facade.paths : q[1] # "dir"} |-> MetaAt(p)]
    /\ AnswersAll

\* Nothing is published or loaded at first.
LEMMA WholeInit == EmbeddedInit => WholeInv
<1> SUFFICES ASSUME EmbeddedInit PROVE WholeInv
    OBVIOUS
<1>1. PICK t \in {u \in [Repos -> UNION {Starts[r] : r \in Repos}] : \A r \in Repos : u[r] \in Starts[r]} :
         checkout = [r \in Repos |-> [work |-> t[r], staged |-> t[r], head |-> t[r]]]
      BY DEF EmbeddedInit, CleanCheckouts
<1>2. \A r \in Repos : Tree(r, t[r])
      BY <1>1, EmbeddedAssumption DEF Repos, Tree
<1>3. /\ checkout = [r \in Repos |-> checkout[r]]
      /\ \A r \in Repos : "work" \in DOMAIN checkout[r] /\ Tree(r, checkout[r].work)
      BY <1>1, <1>2
<1>4. IsFiniteSet(archive) /\ \A a \in archive : Made(a)
      BY FS_EmptySet DEF EmbeddedInit
<1>5. facade.phase = "new"
      BY DEF EmbeddedInit, Idle
<1>6. QED BY <1>3, <1>4, <1>5 DEF WholeInv, AnswersAll

\* What changes a source does not change what a host has loaded, or is told to load.
LEMMA UnquietKeeps ==
    ASSUME WholeInv, facade' = Unquiet
    PROVE  /\ facade'.phase = "meta" =>
                 /\ IsFiniteSet(facade'.paths) /\ \A p \in facade'.paths : IsPath(p)
                 /\ facade'.metas = [p \in {q \in facade'.paths : q[1] # "dir"} |-> MetaAt(p)]
           /\ AnswersAll'
<1>1. CASE facade.phase = "meta"
  <2>1. facade' = [facade EXCEPT !.quiet = FALSE]
        BY <1>1 DEF Unquiet
  <2>2. facade'.phase = facade.phase /\ facade'.paths = facade.paths /\ facade'.metas = facade.metas
        BY <2>1
  <2>3. QED BY <1>1, <2>2 DEF WholeInv, AnswersAll
<1>2. CASE facade.phase # "meta"
  <2>1. facade' = facade
        BY <1>2 DEF Unquiet
  <2>2. QED BY <1>2, <2>1 DEF WholeInv, AnswersAll
<1>3. QED BY <1>1, <1>2

\* Edit, Add and Commit keep it.
LEMMA CheckoutKeepsWhole ==
    ASSUME WholeInv, NEW r \in Repos, NEW place, "work" \in DOMAIN place,
           Tree(r, place.work), Checkout(r, place)
    PROVE  WholeInv'
<1>1. checkout' = [checkout EXCEPT ![r] = place] /\ facade' = Unquiet /\ archive' = archive
      BY DEF Checkout
<1>2. checkout' = [q \in Repos |-> IF q = r THEN place ELSE checkout[q]]
      BY <1>1 DEF WholeInv
<1>3. \A q \in Repos : "work" \in DOMAIN checkout'[q] /\ Tree(q, checkout'[q].work)
      BY <1>2 DEF WholeInv
<1>4. checkout' = [q \in Repos |-> checkout'[q]]
      BY <1>2
<1>5. IsFiniteSet(archive') /\ \A a \in archive' : Made(a)
      BY <1>1 DEF WholeInv
<1>6. QED BY <1>1, <1>3, <1>4, <1>5, UnquietKeeps DEF WholeInv

\* Publish: the new artifact is of the tree as it is.
LEMMA PublishKeepsWhole == WholeInv /\ Publish => WholeInv'
<1> SUFFICES ASSUME WholeInv, Publish PROVE WholeInv'
    OBVIOUS
<1>0. PICK r \in Repos, wire \in Wires :
         LET tree == checkout[r].work
             file == [repo |-> r, wire |-> wire, head |-> {checkout[r].head},
                      source |-> SourceFingerprint(tree), sink |-> Scan(r, tree)] IN
         /\ archive' = {a \in archive : a.file # file}
                       \cup {[file |-> file, tree |-> tree, at |-> steps]}
         /\ UNCHANGED <<checkout, index, facade, loads>>
      BY DEF Publish
<1> DEFINE tree == checkout[r].work
           file == [repo |-> r, wire |-> wire, head |-> {checkout[r].head},
                    source |-> SourceFingerprint(tree), sink |-> Scan(r, tree)]
           new == [file |-> file, tree |-> tree, at |-> steps]
           others == {a \in archive : a.file # file}
<1>1. archive' = others \cup {new} /\ UNCHANGED <<checkout, index, facade, loads>>
      BY <1>0
<1>2. Made(new)
  <2>1. new.tree = tree /\ new.file.sink = Scan(r, tree) /\ Tree(r, tree)
        BY DEF WholeInv
  <2>2. QED BY <2>1 DEF Made
<1>3. IsFiniteSet(others) /\ \A a \in others : Made(a)
      BY FS_Subset DEF WholeInv
<1> HIDE DEF others, new
<1>4. IsFiniteSet(others \cup {new})
      BY <1>3, FS_AddElement
<1>5. IsFiniteSet(archive') /\ \A a \in archive' : Made(a)
      BY <1>1, <1>2, <1>3, <1>4
<1>6. QED BY <1>1, <1>5 DEF WholeInv, AnswersAll

\* LoadMeta: the inputs are finitely many.
LEMMA LoadMetaKeepsWhole == WholeInv /\ LoadMeta => WholeInv'
<1> SUFFICES ASSUME WholeInv, NEW paths \in SUBSET Paths, NEW answered,
                    facade' = [phase |-> "meta", paths |-> paths, answered |-> answered, quiet |-> TRUE,
                       revisions |-> UNION {RevisionsAt(p, answered) : p \in paths},
                       metas |-> [p \in {q \in paths : q[1] # "dir"} |-> MetaAt(p)]],
                    UNCHANGED <<checkout, archive, index, loads, steps>>
             PROVE  WholeInv'
    BY DEF LoadMeta
<1> DEFINE A == {<<"dir", r>> : r \in Repos}
           B == {<<"artifact", a>> : a \in archive}
           C == {<<"index", "">> : i \in index}
<1>1. Paths = A \cup (B \cup C)
      BY Zenon DEF Paths
<1>2. \A p \in A \cup (B \cup C) : IsPath(p)
  <2>1. \A p \in A : p[1] = "dir" /\ p[2] \in Repos
        OBVIOUS
  <2>2. \A p \in B : p[1] = "artifact" /\ p[2] \in archive
        OBVIOUS
  <2>3. \A p \in C : p[1] = "index"
    <3>1. \A p \in C : p = <<"index", "">>
          BY Zenon
    <3>2. <<"index", "">>[1] = "index"
          OBVIOUS
    <3>3. QED BY <3>1, <3>2
  <2> HIDE DEF A, B, C
  <2>4. QED BY <2>1, <2>2, <2>3 DEF IsPath, WholeInv
<1>3. IsFiniteSet(A \cup (B \cup C))
  <2> DEFINE f == [r \in Repos |-> <<"dir", r>>]
             g == [a \in archive |-> <<"artifact", a>>]
  <2>1. (\A p \in A : \E r \in Repos : p = f[r]) /\ (\A p \in B : \E a \in archive : p = g[a])
        OBVIOUS
  <2>2. C \in SUBSET {<<"index", "">>}
        BY Zenon
  <2> HIDE DEF A, B, C, f, g
  <2>3. IsFiniteSet(A)
        BY <2>1, EmbeddedAssumption, FiniteCover DEF Repos
  <2>4. IsFiniteSet(B)
        BY <2>1, FiniteCover DEF WholeInv
  <2>5. IsFiniteSet(C)
        BY <2>2, FS_Singleton, FS_Subset
  <2>6. IsFiniteSet(B \cup C)
        BY <2>4, <2>5, FS_Union
  <2>7. QED BY <2>3, <2>6, FS_Union
<1> HIDE DEF A, B, C
<1>4. IsFiniteSet(paths) /\ \A p \in paths : IsPath(p)
      BY <1>1, <1>2, <1>3, FS_Subset
<1>5. /\ facade'.phase = "meta" /\ facade'.paths = paths
      /\ facade'.metas = [p \in {q \in paths : q[1] # "dir"} |-> MetaAt(p)]
      OBVIOUS
<1>6. QED BY <1>4, <1>5 DEF WholeInv, AnswersAll

\* What is read at a path whose scan says nothing was missed is all that can be read there.
LEMMA PathMisses ==
    ASSUME WholeInv, NEW p, IsPath(p),
           Told(IF p[1] = "dir" THEN FromSink(Contents(p)) ELSE MetaAt(p))
    PROVE  p[1] # "index" /\ Contents(p).claims = InFiles(p) /\ IsFiniteSet(InFiles(p))
<1>1. CASE p[1] = "dir"
  <2>1. p[2] \in Repos /\ Tree(p[2], checkout[p[2]].work)
        BY <1>1 DEF IsPath, WholeInv
  <2>2. Contents(p) = Scan(p[2], checkout[p[2]].work) /\ InFiles(p) = Readable(checkout[p[2]].work)
        BY <1>1 DEF Contents, InFiles, Readable
  <2>3. QED BY <1>1, <2>1, <2>2, ScanMisses, ReadableFinite
<1>2. CASE p[1] = "artifact"
  <2>1. PICK r \in Repos : Tree(r, p[2].tree) /\ p[2].file.sink = Scan(r, p[2].tree)
        BY <1>2 DEF IsPath, Made
  <2>2. Contents(p) = Scan(r, p[2].tree) /\ InFiles(p) = Readable(p[2].tree)
        BY <1>2, <2>1 DEF Contents, InFiles, Readable
  <2>3. Told(FromArtifact(p[2].file))
        BY <1>2 DEF MetaAt
  <2>4. p[2].file.wire # <<1, 0>>
    <3>1. SUFFICES ASSUME p[2].file.wire = <<1, 0>> PROVE FALSE
          OBVIOUS
    <3>2. FromArtifact(p[2].file).metadata_complete = FALSE
          BY <3>1 DEF FromArtifact, FromSink
    <3>3. QED BY <2>3, <3>2 DEF Told
  <2>5. Told(FromSink(Scan(r, p[2].tree)))
        BY <2>1, <2>3, <2>4 DEF FromArtifact
  <2>6. QED BY <1>2, <2>1, <2>2, <2>5, ScanMisses, ReadableFinite
<1>3. CASE p[1] = "index"
  <2>1. MetaAt(p).metadata_complete = FALSE
        BY <1>3 DEF MetaAt, FromIndex
  <2>2. QED BY <1>3, <2>1 DEF Told
<1>4. QED BY <1>1, <1>2, <1>3 DEF IsPath

\* LoadClaims: the claims are those of every input.
LEMMA LoadClaimsKeepsWhole == WholeInv /\ LoadClaims => WholeInv'
<1> SUFFICES ASSUME WholeInv, LoadClaims PROVE WholeInv'
    OBVIOUS
<1>1. facade.phase = "meta" /\ UNCHANGED <<checkout, archive>>
      BY DEF LoadClaims
<1>2. CASE ~Accepted(facade.paths)
  <2>1. facade'.phase = "new"
        BY <1>2 DEF LoadClaims, Idle
  <2>2. QED BY <1>1, <2>1 DEF WholeInv, AnswersAll
<1>3. CASE Accepted(facade.paths)
  <2> DEFINE paths == facade.paths
             dirs == {p \in paths : p[1] = "dir"}
             meta == [p \in paths |-> IF p \in dirs THEN FromSink(Contents(p)) ELSE facade.metas[p]]
             cs == UNION {Contents(p).claims : p \in paths}
             ns == UNION {Contents(p).nodes : p \in paths}
             metas == {meta[p] : p \in paths}
             sources == UNION {InFiles(p) : p \in {q \in paths : q[1] # "index"}}
  <2>1. facade' = Loaded(cs, ns, metas, facade.revisions, sources)
        BY <1>1, <1>3, Zenon DEF LoadClaims
  <2>2. facade'.phase = "loaded" /\ facade'.metas = metas /\ facade'.sources = sources
        BY <2>1 DEF Loaded
  <2>3. IsFiniteSet(paths) /\ \A p \in paths : IsPath(p)
        BY <1>1 DEF WholeInv
  <2>4. \A p \in paths : meta[p] = IF p[1] = "dir" THEN FromSink(Contents(p)) ELSE MetaAt(p)
        BY <1>1 DEF WholeInv
  <2>5. ASSUME \A m \in metas : Told(m) PROVE cs = sources /\ IsFiniteSet(cs)
    <3>1. ASSUME NEW p \in paths
          PROVE  p[1] # "index" /\ Contents(p).claims = InFiles(p) /\ IsFiniteSet(InFiles(p))
      <4>1. Told(meta[p])
            BY <2>5
      <4> HIDE DEF meta
      <4>2. Told(IF p[1] = "dir" THEN FromSink(Contents(p)) ELSE MetaAt(p))
            BY <2>4, <4>1
      <4>3. QED BY <2>3, <4>2, PathMisses
    <3> DEFINE sets == {Contents(p).claims : p \in paths}
               f == [p \in paths |-> Contents(p).claims]
    <3>2. cs = sources
      <4>1. {q \in paths : q[1] # "index"} = paths
            BY <3>1
      <4>2. \A p \in paths : Contents(p).claims = InFiles(p)
            BY <3>1
      <4> HIDE DEF paths
      <4>3. {Contents(p).claims : p \in paths} = {InFiles(p) : p \in paths}
            BY <4>2
      <4>4. QED BY <4>1, <4>3
    <3>3. \A s \in sets : (\E p \in paths : s = f[p]) /\ IsFiniteSet(s)
      <4>1. \A p \in paths : IsFiniteSet(Contents(p).claims)
            BY <3>1
      <4> HIDE DEF paths
      <4>2. QED BY <4>1
    <3> HIDE DEF f, sets
    <3>4. IsFiniteSet(sets)
          BY <2>3, <3>3, FiniteCover
    <3>5. IsFiniteSet(UNION sets)
          BY <3>3, <3>4, FS_UNION
    <3>6. QED BY <3>2, <3>5 DEF sets
  <2> HIDE DEF cs, ns, metas, sources
  <2>6. AnswersAll'
        BY <2>1, <2>2, <2>5 DEF AnswersAll
  <2>7. QED BY <1>1, <2>2, <2>6 DEF WholeInv
<1>4. QED BY <1>2, <1>3

\* Every step keeps WholeInv.
LEMMA WholeNext == WholeInv /\ [EmbeddedNext]_embeddedVars => WholeInv'
<1> SUFFICES ASSUME WholeInv, [EmbeddedNext]_embeddedVars PROVE WholeInv'
    OBVIOUS
<1>1. CASE Edit
  <2>0. PICK r \in Repos : \E f \in DOMAIN Versions[r] : \E v \in Versions[r][f] \cup {Absent} :
           Checkout(r, [checkout[r] EXCEPT !.work[f] = v])
        BY <1>1 DEF Edit
  <2>1. PICK f \in DOMAIN Versions[r] : \E v \in Versions[r][f] \cup {Absent} :
           Checkout(r, [checkout[r] EXCEPT !.work[f] = v])
        BY <2>0
  <2>2. PICK v \in Versions[r][f] \cup {Absent} : Checkout(r, [checkout[r] EXCEPT !.work[f] = v])
        BY <2>1
  <2> DEFINE place == [checkout[r] EXCEPT !.work[f] = v]
  <2>3. "work" \in DOMAIN place /\ Tree(r, place.work)
    <3>1. "work" \in DOMAIN checkout[r] /\ Tree(r, checkout[r].work)
          BY DEF WholeInv
    <3>2. "work" \in DOMAIN place /\ place.work = [checkout[r].work EXCEPT ![f] = v]
          BY <3>1
    <3>3. QED BY <3>1, <3>2 DEF Tree
  <2> HIDE DEF place
  <2>4. Checkout(r, place)
        BY <2>2 DEF place
  <2>5. QED BY <2>3, <2>4, CheckoutKeepsWhole
<1>2. CASE Add
  <2>1. PICK r \in Repos : Checkout(r, [checkout[r] EXCEPT !.staged = checkout[r].work])
        BY <1>2 DEF Add
  <2> DEFINE place == [checkout[r] EXCEPT !.staged = checkout[r].work]
  <2>2. "work" \in DOMAIN place /\ Tree(r, place.work)
        BY DEF WholeInv
  <2> HIDE DEF place
  <2>3. Checkout(r, place)
        BY <2>1 DEF place
  <2>4. QED BY <2>2, <2>3, CheckoutKeepsWhole
<1>3. CASE Commit
  <2>1. PICK r \in Repos : Checkout(r, [checkout[r] EXCEPT !.head = checkout[r].staged])
        BY <1>3 DEF Commit
  <2> DEFINE place == [checkout[r] EXCEPT !.head = checkout[r].staged]
  <2>2. "work" \in DOMAIN place /\ Tree(r, place.work)
        BY DEF WholeInv
  <2> HIDE DEF place
  <2>3. Checkout(r, place)
        BY <2>1 DEF place
  <2>4. QED BY <2>2, <2>3, CheckoutKeepsWhole
<1>4. CASE Publish
      BY <1>4, PublishKeepsWhole
<1>5. CASE Compact
  <2>1. UNCHANGED <<checkout, archive>> /\ facade' = Unquiet
        BY <1>5 DEF Compact
  <2>2. QED BY <2>1, UnquietKeeps DEF WholeInv
<1>6. CASE LoadMeta
      BY <1>6, LoadMetaKeepsWhole
<1>7. CASE LoadClaims
      BY <1>7, LoadClaimsKeepsWhole
<1>8. CASE UNCHANGED embeddedVars
      BY <1>8 DEF embeddedVars, WholeInv, AnswersAll
<1>9. QED BY <1>1, <1>2, <1>3, <1>4, <1>5, <1>6, <1>7, <1>8 DEF EmbeddedNext

------------------------------------------------------------------------------
\* The same of two graphs as far as answers go
Alike(g, h) == g.edges = h.edges /\ g.services = h.services /\ g.known = h.known

\* An answer that is not cut is the one to the same question with the longest list.
LEMMA AnswerListed ==
    ASSUME NEW g, NEW h, Alike(g, h), IsFiniteSet(g.edges), NEW q \in Questions,
           ~AnswerTo(g, q).truncated
    PROVE  LET all == AnswerTo(h, [q EXCEPT !.limit = MaxLimit]) IN
           AnswerTo(g, q).rows = all.rows /\ AnswerTo(g, q).found = all.found
<1> DEFINE w == [q EXCEPT !.limit = MaxLimit]
           node == Resolve(g, q.node)
           to == Resolve(g, q.to)
           Rows(graph, a) ==
              CASE a.tool = "consumers_of" -> {e.source : e \in ConsumersOf(graph.edges, node)}
                [] a.tool = "trace" -> FindPaths(graph.edges, node, to, a.hops, TraceLimit)
                [] a.tool = "neighbors" -> DOMAIN Neighbors(graph, node, a).distances \ {node}
                [] a.tool = "impact" -> {r.node : r \in Impact(graph, node, a).impacted}
                [] a.tool = "services" -> {Service(r) : r \in graph.services}
           Found(graph, a) == \/ a.tool = "services" \/ Rows(graph, a) # {}
                              \/ node \in graph.known /\ (a.tool = "trace" => to \in graph.known)
<1>1. /\ w.tool = q.tool /\ w.node = q.node /\ w.to = q.to /\ w.hops = q.hops
      /\ w.limit = MaxLimit
      /\ q.tool \in {"consumers_of", "trace", "neighbors", "impact", "services"}
      /\ q.hops \in Nat /\ q.limit \in Nat /\ q.limit <= MaxLimit
  <2>1. q \in [tool : {"consumers_of", "trace", "neighbors", "impact", "services"},
               node : {a.node : a \in Questions}, to : {a.to : a \in Questions},
               hops : 1 .. MaxHops, limit : 1 .. MaxLimit]
        BY EmbeddedAssumption
  <2> DEFINE N == {a.node : a \in Questions}
             T == {a.to : a \in Questions}
  <2> HIDE DEF N, T
  <2>2. q \in [tool : {"consumers_of", "trace", "neighbors", "impact", "services"},
               node : N, to : T, hops : 1 .. MaxHops, limit : 1 .. MaxLimit]
        BY <2>1 DEF N, T
  <2>3. QED BY <2>2 DEF MaxHops, MaxLimit
<1>2. Resolve(h, w.node) = node /\ Resolve(h, w.to) = to
      BY <1>1 DEF Resolve, Alike
<1>3. /\ AnswerTo(g, q).rows = Rows(g, q) /\ AnswerTo(g, q).found = Found(g, q)
      /\ q.tool = "neighbors" => ~Neighbors(g, node, q).truncated
      /\ q.tool = "impact" => ~Impact(g, node, q).truncated
      BY DEF AnswerTo
<1> HIDE DEF w
<1>4. AnswerTo(h, w).rows = Rows(h, w) /\ AnswerTo(h, w).found = Found(h, w)
      BY <1>2 DEF AnswerTo
<1> HIDE DEF node, to
<1>5. Rows(g, q) = Rows(h, w)
  <2>1. CASE q.tool = "consumers_of"
        BY <1>1, <2>1 DEF Alike
  <2>2. CASE q.tool = "trace"
        BY <1>1, <2>2 DEF Alike
  <2>3. CASE q.tool = "services"
        BY <1>1, <2>3 DEF Alike
  <2>4. CASE q.tool = "neighbors"
    <3>1. PICK others : /\ IsFiniteSet(others)
                        /\ \A limit \in Nat :
                             LET near == BoundedNeighborhood(g.edges, Around(node, q.hops, limit)) IN
                             /\ near.truncated = (Cardinality(others) > limit)
                             /\ Cardinality(others) <= limit =>
                                   DOMAIN near.distances = {node} \cup others
          BY <1>1, NeighborsListed
    <3>2. /\ Neighbors(g, node, q) = BoundedNeighborhood(g.edges, Around(node, q.hops, q.limit))
          /\ Neighbors(h, node, w) = BoundedNeighborhood(g.edges, Around(node, q.hops, MaxLimit))
          BY <1>1 DEF Neighbors, Around, Alike
    <3>t. ~(Cardinality(others) > q.limit)
      <4>1. Neighbors(g, node, q).truncated = (Cardinality(others) > q.limit)
            BY <1>1, <3>1, <3>2
      <4>2. ~Neighbors(g, node, q).truncated
            BY <1>3, <2>4
      <4>3. QED BY <4>1, <4>2
    <3>3. Cardinality(others) \in Nat /\ Cardinality(others) <= q.limit
          BY <1>1, <3>1, <3>t, FS_CardinalityType
    <3>4. Cardinality(others) <= MaxLimit /\ MaxLimit \in Nat
          BY <1>1, <3>3 DEF MaxLimit
    <3>5. DOMAIN Neighbors(g, node, q).distances = DOMAIN Neighbors(h, node, w).distances
          BY <1>1, <3>1, <3>2, <3>3, <3>4
    <3>6. QED BY <1>1, <2>4, <3>5
  <2>5. CASE q.tool = "impact"
    <3>1. PICK rows : /\ IsFiniteSet(rows)
                      /\ \A limit \in Nat :
                           LET impact == TransitiveImpact(g.edges, Ask(node, q.hops, limit)) IN
                           /\ impact.truncated = (Cardinality(rows) > limit)
                           /\ Cardinality(rows) <= limit => impact.impacted = rows
          BY <1>1, ImpactListed
    <3>2. /\ Impact(g, node, q) = TransitiveImpact(g.edges, Ask(node, q.hops, q.limit))
          /\ Impact(h, node, w) = TransitiveImpact(g.edges, Ask(node, q.hops, MaxLimit))
          BY <1>1 DEF Impact, Ask, Alike
    <3>t. ~(Cardinality(rows) > q.limit)
      <4>1. Impact(g, node, q).truncated = (Cardinality(rows) > q.limit)
            BY <1>1, <3>1, <3>2
      <4>2. ~Impact(g, node, q).truncated
            BY <1>3, <2>5
      <4>3. QED BY <4>1, <4>2
    <3>3. Cardinality(rows) \in Nat /\ Cardinality(rows) <= q.limit
          BY <1>1, <3>1, <3>t, FS_CardinalityType
    <3>4. Cardinality(rows) <= MaxLimit /\ MaxLimit \in Nat
          BY <1>1, <3>3 DEF MaxLimit
    <3>5. Impact(g, node, q).impacted = Impact(h, node, w).impacted
          BY <1>1, <3>1, <3>2, <3>3, <3>4
    <3>6. QED BY <1>1, <2>5, <3>5
  <2>6. QED BY <1>1, <2>1, <2>2, <2>3, <2>4, <2>5
<1> HIDE DEF Rows
<1>6. Found(g, q) = Found(h, w)
      BY <1>1, <1>5 DEF Alike
<1>7. QED BY <1>3, <1>4, <1>5, <1>6 DEF w

\* If a host's inputs say that nothing was missed, a graph of all that is written in them
\* is the one it has.
LEMMA WholeIsLoaded ==
    ASSUME WholeInv, facade.phase = "loaded", \A m \in facade.metas : Told(m)
    PROVE  /\ Alike(facade, Loaded(facade.sources, facade.known, facade.metas, {}, {}))
           /\ IsFiniteSet(facade.edges)
<1>1. PICK cs, ns, revisions :
         /\ facade = Loaded(cs, ns, facade.metas, revisions, facade.sources)
         /\ cs = facade.sources /\ IsFiniteSet(cs)
      BY DEF WholeInv, AnswersAll
<1> DEFINE es == Link(cs, <<>>)
           ends == UNION {{e.source, e.target} : e \in Served(es)}
           services == Context(cs).services
           doors == {Service(r) : r \in services}
           whole == Loaded(cs, facade.known, facade.metas, {}, {})
<1>2. /\ facade.edges = es /\ facade.services = services
      /\ facade.known = ns \cup doors \cup ends
      BY <1>1 DEF Loaded
<1>3. /\ whole.edges = es /\ whole.services = services
      /\ whole.known = facade.known \cup doors \cup ends
      BY DEF Loaded
<1>4. IsFiniteSet(es)
      BY <1>1, LinkFinite
<1> HIDE DEF es, ends, services, doors, whole
<1>5. Alike(facade, whole)
      BY <1>2, <1>3 DEF Alike
<1>6. QED BY <1>1, <1>2, <1>4, <1>5 DEF whole

\* CompleteMeansAll, for any files and any fate of each: an answer that calls itself
\* complete and is not cut is the one that all that is written in the sources gives.
THEOREM CompleteMissesNothing == EmbeddedSpec => []CompleteMeansAll
<1>1. ASSUME WholeInv PROVE CompleteMeansAll
  <2> SUFFICES ASSUME facade.phase = "loaded", NEW q \in Questions,
                      Envelope(q).complete, ~Envelope(q).truncated
               PROVE  LET whole == Loaded(facade.sources, facade.known, facade.metas, {}, {})
                          answer == AnswerTo(whole, [q EXCEPT !.limit = MaxLimit]) IN
                      Envelope(q).rows = answer.rows /\ Envelope(q).status = Status(answer)
      BY DEF CompleteMeansAll
  <2> DEFINE whole == Loaded(facade.sources, facade.known, facade.metas, {}, {})
             answer == AnswerTo(whole, [q EXCEPT !.limit = MaxLimit])
             mine == AnswerTo(facade, q)
  <2>1. Envelope(q).rows = mine.rows /\ Envelope(q).status = Status(mine) /\ ~mine.truncated
        BY DEF Envelope
  <2>2. \A m \in facade.metas : Told(m)
        BY DEF Envelope, Complete, Told
  <2>3. Alike(facade, whole) /\ IsFiniteSet(facade.edges)
        BY <1>1, <2>2, WholeIsLoaded
  <2> HIDE DEF whole
  <2>4. mine.rows = answer.rows /\ mine.found = answer.found
        BY <2>1, <2>3, AnswerListed
  <2> HIDE DEF mine, answer
  <2>5. Status(mine) = Status(answer)
        BY <2>4 DEF Status
  <2>6. QED BY <2>1, <2>4, <2>5 DEF answer, whole
<1>2. QED BY <1>1, WholeInit, WholeNext, PTL DEF EmbeddedSpec

------------------------------------------------------------------------------
(* The readers of what the stores hold                                     *)

LEMMA SeqOfMore ==
    ASSUME NEW S, NEW T, S \subseteq T, NEW s \in Seq(S)
    PROVE  s \in Seq(T)
<1>1. Len(s) \in Nat /\ s \in [1 .. Len(s) -> S]
      OBVIOUS
<1>2. s \in [1 .. Len(s) -> T]
      BY <1>1
<1>3. QED BY <1>1, <1>2

\* The intervals "s" say of each number up to n whether it is one of "at", with a gap
\* between any two of them.
Spans(s, at, n) ==
    /\ s \in Seq([first : 1 .. n, last : 1 .. n]) /\ s # <<>>
    /\ \A i \in 1 .. Len(s) : s[i].first <= s[i].last
    /\ \A i, j \in 1 .. Len(s) : i < j => s[i].last + 1 < s[j].first
    /\ \A m \in 1 .. n : m \in at <=> \E i \in 1 .. Len(s) : s[i].first <= m /\ m <= s[i].last

LEMMA SpanIs ==
    ASSUME NEW n \in Nat, NEW at, NEW s, Spans(s, at, n)
    PROVE  /\ Len(s) \in Nat /\ Len(s) \in 1 .. Len(s) /\ Last(s) = s[Len(s)]
           /\ DOMAIN s = 1 .. Len(s)
           /\ \A i \in 1 .. Len(s) : /\ s[i] \in [first : 1 .. n, last : 1 .. n]
                                     /\ s[i].first \in 1 .. n /\ s[i].last \in 1 .. n
                                     /\ s[i].first <= s[i].last
<1> DEFINE S == [first : 1 .. n, last : 1 .. n]
<1>1. s \in Seq(S) /\ s # <<>> /\ \A i \in 1 .. Len(s) : s[i].first <= s[i].last
      BY DEF Spans
<1>2. \A x \in S : x.first \in 1 .. n /\ x.last \in 1 .. n
      OBVIOUS
<1> HIDE DEF S
<1>3. Len(s) \in Nat /\ Len(s) # 0 /\ DOMAIN s = 1 .. Len(s) /\ \A i \in 1 .. Len(s) : s[i] \in S
      BY <1>1
<1>4. QED BY <1>1, <1>2, <1>3 DEF Last, S

\* Only the last interval can end at n, and it does if n is one of them.
LEMMA LastEnds ==
    ASSUME NEW n \in Nat \ {0}, NEW at, NEW s, Spans(s, at, n)
    PROVE  /\ Len(s) \in Nat /\ Len(s) \in 1 .. Len(s) /\ Last(s) = s[Len(s)]
           /\ n \in at <=> Last(s).last = n
<1>1. Len(s) \in Nat /\ Len(s) \in 1 .. Len(s) /\ Last(s) = s[Len(s)]
      BY SpanIs
<1>2. \A i \in 1 .. Len(s) : s[i].first \in 1 .. n /\ s[i].last \in 1 .. n
      BY SpanIs
<1>3. ASSUME n \in at PROVE Last(s).last = n
  <2>1. PICK i \in 1 .. Len(s) : s[i].first <= n /\ n <= s[i].last
        BY <1>3 DEF Spans
  <2>2. s[i].last = n
        BY <1>2, <2>1
  <2>3. ~(i < Len(s))
    <3>1. SUFFICES ASSUME i < Len(s) PROVE FALSE
          OBVIOUS
    <3>2. s[i].last + 1 < s[Len(s)].first
          BY <1>1, <3>1 DEF Spans
    <3>3. QED BY <1>1, <1>2, <2>2, <3>2
  <2>4. i = Len(s)
        BY <1>1, <2>3
  <2>5. QED BY <1>1, <2>2, <2>4
<1>4. ASSUME Last(s).last = n PROVE n \in at
  <2>1. s[Len(s)].first <= n /\ n <= s[Len(s)].last
        BY <1>1, <1>2, <1>4
  <2>2. QED BY <1>1, <2>1 DEF Spans
<1>5. QED BY <1>1, <1>3, <1>4

\* An edge that is seen at the next commit goes on, or is back after a gap.
LEMMA SeenSpans ==
    ASSUME NEW n \in Nat, NEW at, n + 1 \in at, NEW s, Spans(s, at, n)
    PROVE  Spans(Seen(s, n + 1), at, n + 1)
<1> DEFINE S == [first : 1 .. n + 1, last : 1 .. n + 1]
           l == Len(s)
           t == Seen(s, n + 1)
<1>1. l \in Nat /\ l \in 1 .. l /\ Last(s) = s[l]
      BY SpanIs
<1>3. \A i \in 1 .. l : s[i].first \in 1 .. n /\ s[i].last \in 1 .. n /\ s[i].first <= s[i].last
      BY SpanIs
<1>2. s \in Seq(S) /\ \A i \in 1 .. l : s[i] \in S
  <2>1. [first : 1 .. n, last : 1 .. n] \subseteq S
        OBVIOUS
  <2>2. s \in Seq([first : 1 .. n, last : 1 .. n])
        BY DEF Spans
  <2> HIDE DEF S
  <2>3. s \in Seq(S)
        BY <2>1, <2>2, SeqOfMore
  <2>4. QED BY <2>1, <2>3, SpanIs
<1>4. CASE Goes(Last(s), n + 1)
  <2> DEFINE longer == [s[l] EXCEPT !.last = n + 1]
  <2>1. t = [s EXCEPT ![l] = longer]
        BY <1>4 DEF Seen
  <2>2. s[l].last = n
        BY <1>1, <1>3, <1>4 DEF Goes
  <2>3. longer \in S /\ longer.first = s[l].first /\ longer.last = n + 1
        BY <1>1, <1>2
  <2> HIDE DEF longer, t, S
  <2>4. t \in Seq(S) /\ Len(t) = l
        BY <1>1, <1>2, <2>1, <2>3
  <2>5. \A i \in 1 .. l : t[i] = IF i = l THEN longer ELSE s[i]
        BY <1>1, <1>2, <2>1
  <2>6. t[l].first = s[l].first /\ t[l].last = n + 1
        BY <1>1, <2>3, <2>5
  <2>7. \A i \in 1 .. l : t[i].first = s[i].first /\ t[i].last = IF i = l THEN n + 1 ELSE s[i].last
        BY <2>5, <2>6
  <2> HIDE DEF l
  <2>8. \A i \in 1 .. l : t[i].first <= t[i].last
        BY <1>1, <1>3, <2>7
  <2>9. \A i, j \in 1 .. l : i < j => t[i].last + 1 < t[j].first
    <3>1. ASSUME NEW i \in 1 .. l, NEW j \in 1 .. l, i < j PROVE t[i].last + 1 < t[j].first
      <4>1. i # l
            BY <1>1, <3>1
      <4>2. s[i].last + 1 < s[j].first
            BY <3>1 DEF Spans, l
      <4>3. QED BY <2>7, <4>1, <4>2
    <3>2. QED BY <3>1
  <2>10. ASSUME NEW m \in 1 .. n + 1
         PROVE  m \in at <=> \E i \in 1 .. l : t[i].first <= m /\ m <= t[i].last
    <3>1. CASE m = n + 1
      <4>1. t[l].first <= m /\ m <= t[l].last
            BY <1>1, <1>3, <2>7, <3>1
      <4>2. QED BY <1>1, <3>1, <4>1
    <3>2. CASE m \in 1 .. n
      <4>1. m \in at <=> \E i \in 1 .. l : s[i].first <= m /\ m <= s[i].last
            BY <3>2 DEF Spans, l
      <4>2. \A i \in 1 .. l : m <= s[i].last <=> m <= t[i].last
            BY <1>1, <1>3, <2>2, <2>7, <3>2
      <4>3. QED BY <2>7, <4>1, <4>2
    <3>3. QED BY <3>1, <3>2
  <2>11. t # <<>>
         BY <1>1, <2>4
  <2>12. QED BY <2>4, <2>8, <2>9, <2>10, <2>11 DEF Spans, t, S
<1>5. CASE ~Goes(Last(s), n + 1)
  <2> DEFINE back == [first |-> n + 1, last |-> n + 1]
  <2>1. t = Append(s, back)
        BY <1>5 DEF Seen
  <2>2. s[l].last < n
    <3>1. s[l].last # n
          BY <1>1, <1>5 DEF Goes
    <3>2. QED BY <1>1, <1>3, <3>1
  <2>3. back \in S /\ back.first = n + 1 /\ back.last = n + 1
        OBVIOUS
  <2> HIDE DEF back, t, S
  <2>4. t \in Seq(S) /\ Len(t) = l + 1
        BY <1>2, <2>1, <2>3
  <2>5. /\ \A i \in 1 .. l : t[i] = s[i]
        /\ t[l + 1] = back
        BY <1>1, <1>2, <2>1
  <2> HIDE DEF l
  <2>6. t[l + 1].first = n + 1 /\ t[l + 1].last = n + 1
        BY <2>3, <2>5
  <2>7. \A i \in 1 .. l + 1 : i \in 1 .. l \/ i = l + 1
        BY <1>1
  <2>8. \A i \in 1 .. l + 1 : t[i].first <= t[i].last
        BY <1>3, <2>5, <2>6, <2>7
  <2>9. ASSUME NEW i \in 1 .. l + 1, NEW j \in 1 .. l + 1, i < j
        PROVE  t[i].last + 1 < t[j].first
    <3>1. i \in 1 .. l
          BY <1>1, <2>9
    <3>2. CASE j \in 1 .. l
          BY <2>5, <2>9, <3>1, <3>2 DEF Spans, l
    <3>3. CASE j = l + 1
      <4>1. i < l => s[i].last + 1 < s[l].first
            BY <1>1, <3>1 DEF Spans, l
      <4>2. s[i].last < n
            BY <1>1, <1>3, <2>2, <3>1, <4>1
      <4>3. QED BY <1>3, <2>5, <2>6, <3>1, <3>3, <4>2
    <3>4. QED BY <2>7, <3>2, <3>3
  <2>10. ASSUME NEW m \in 1 .. n + 1
         PROVE  m \in at <=> \E i \in 1 .. l + 1 : t[i].first <= m /\ m <= t[i].last
    <3>1. CASE m = n + 1
      <4>1. l + 1 \in 1 .. l + 1
            BY <1>1
      <4>2. QED BY <2>6, <3>1, <4>1
    <3>2. CASE m \in 1 .. n
      <4>1. m \in at <=> \E i \in 1 .. l : s[i].first <= m /\ m <= s[i].last
            BY <3>2 DEF Spans, l
      <4>2. ~(t[l + 1].first <= m)
            BY <2>6, <3>2
      <4>3. \A i \in 1 .. l : i \in 1 .. l + 1
            BY <1>1
      <4>4. QED BY <2>5, <2>7, <4>1, <4>2, <4>3
    <3>3. QED BY <3>1, <3>2
  <2>11. t # <<>>
         BY <1>1, <2>4
  <2>12. QED BY <2>4, <2>8, <2>9, <2>10, <2>11 DEF Spans, t, S
<1>6. QED BY <1>4, <1>5

\* One that is not seen keeps its intervals.
LEMMA UnseenSpans ==
    ASSUME NEW n \in Nat, NEW at, n + 1 \notin at, NEW s, Spans(s, at, n)
    PROVE  Spans(s, at, n + 1)
<1>1. s \in Seq([first : 1 .. n + 1, last : 1 .. n + 1])
  <2> DEFINE S == [first : 1 .. n, last : 1 .. n]
             T == [first : 1 .. n + 1, last : 1 .. n + 1]
  <2>1. S \subseteq T
        OBVIOUS
  <2>2. s \in Seq(S)
        BY DEF Spans
  <2> HIDE DEF S, T
  <2>3. s \in Seq(T)
        BY <2>1, <2>2, SeqOfMore
  <2>4. QED BY <2>3 DEF T
<1>2. \A i \in 1 .. Len(s) : s[i].last \in 1 .. n
      BY SpanIs
<1>3. ASSUME NEW m \in 1 .. n + 1
      PROVE  m \in at <=> \E i \in 1 .. Len(s) : s[i].first <= m /\ m <= s[i].last
  <2>1. CASE m \in 1 .. n
        BY <2>1 DEF Spans
  <2>2. CASE m = n + 1
        BY <1>2, <2>2
  <2>3. QED BY <2>1, <2>2
<1>4. QED BY <1>1, <1>3 DEF Spans

LEMMA FirstSpans ==
    ASSUME NEW n \in Nat, NEW at, n + 1 \in at, \A m \in 1 .. n : m \notin at
    PROVE  Spans(<<[first |-> n + 1, last |-> n + 1]>>, at, n + 1)
<1>1. \A m \in 1 .. n + 1 : m \in 1 .. n \/ m = n + 1
      OBVIOUS
<1>2. <<[first |-> n + 1, last |-> n + 1]>> \in Seq([first : 1 .. n + 1, last : 1 .. n + 1])
      OBVIOUS
<1>3. QED BY <1>1, <1>2 DEF Spans

\* The intervals are those that cannot be made longer.
LEMMA SpansAreWhole ==
    ASSUME NEW n \in Nat, NEW at, at \subseteq 1 .. n, NEW s, Spans(s, at, n)
    PROVE  ToSet(s) = {v \in [first : 1 .. n, last : 1 .. n] :
                          /\ v.first <= v.last /\ \A i \in v.first .. v.last : i \in at
                          /\ v.first - 1 \notin at /\ v.last + 1 \notin at}
<1> DEFINE S == [first : 1 .. n, last : 1 .. n]
           Covers(m) == \E i \in 1 .. Len(s) : s[i].first <= m /\ m <= s[i].last
<1>1. /\ Len(s) \in Nat /\ DOMAIN s = 1 .. Len(s)
      /\ \A i \in 1 .. Len(s) : /\ s[i] \in S /\ s[i].first <= s[i].last
                                /\ s[i].first \in 1 .. n /\ s[i].last \in 1 .. n
      BY SpanIs
<1>2. ToSet(s) = {s[i] : i \in 1 .. Len(s)}
      BY <1>1 DEF ToSet
<1>3. \A m \in Int : m \in at <=> Covers(m)
  <2>1. \A m \in 1 .. n : m \in at <=> Covers(m)
        BY DEF Spans
  <2>2. \A m \in Int : m \in at \/ Covers(m) => m \in 1 .. n
        BY <1>1
  <2>3. QED BY <2>1, <2>2
<1>4. \A i, j \in 1 .. Len(s) : i < j => s[i].last + 1 < s[j].first
      BY DEF Spans
<1>5. ASSUME NEW i \in 1 .. Len(s)
      PROVE  s[i].first - 1 \notin at /\ s[i].last + 1 \notin at
  <2>1. ASSUME NEW m \in {s[i].first - 1, s[i].last + 1}, NEW j \in 1 .. Len(s),
               s[j].first <= m, m <= s[j].last
        PROVE  FALSE
    <3>1. CASE i = j
          BY <1>1, <2>1, <3>1
    <3>2. CASE i < j
          BY <1>1, <1>4, <2>1, <3>2
    <3>3. CASE j < i
          BY <1>1, <1>4, <2>1, <3>3
    <3>4. QED BY <1>1, <3>1, <3>2, <3>3
  <2>2. s[i].first - 1 \in Int /\ s[i].last + 1 \in Int
        BY <1>1
  <2>3. QED BY <1>3, <2>1, <2>2
<1>6. ASSUME NEW i \in 1 .. Len(s), NEW m \in s[i].first .. s[i].last PROVE m \in at
      BY <1>1, <1>3
<1>7. ASSUME NEW v \in S, v.first <= v.last, \A m \in v.first .. v.last : m \in at,
             v.first - 1 \notin at, v.last + 1 \notin at
      PROVE  v \in ToSet(s)
  <2>1. v.first \in 1 .. n /\ v.last \in 1 .. n
        OBVIOUS
  <2>2. v.first \in at
        BY <1>7, <2>1
  <2>3. PICK i \in 1 .. Len(s) : s[i].first <= v.first /\ v.first <= s[i].last
        BY <1>3, <2>1, <2>2
  <2>4. s[i].first \in 1 .. n /\ s[i].last \in 1 .. n
        BY <1>1
  <2>5. s[i].first = v.first
    <3>1. SUFFICES ASSUME s[i].first < v.first PROVE FALSE
          BY <2>1, <2>3, <2>4
    <3>2. v.first - 1 \in s[i].first .. s[i].last
          BY <2>1, <2>3, <2>4, <3>1
    <3>3. QED BY <1>6, <1>7, <3>2
  <2>6. ~(v.last < s[i].last)
    <3>1. SUFFICES ASSUME v.last < s[i].last PROVE FALSE
          OBVIOUS
    <3>2. v.last + 1 \in s[i].first .. s[i].last
          BY <1>7, <2>1, <2>4, <2>5, <3>1
    <3>3. QED BY <1>6, <1>7, <3>2
  <2>7. ~(s[i].last < v.last)
    <3>1. SUFFICES ASSUME s[i].last < v.last PROVE FALSE
          OBVIOUS
    <3>2. s[i].last + 1 \in v.first .. v.last
          BY <2>1, <2>3, <2>4, <3>1
    <3>3. QED BY <1>5, <1>7, <3>2
  <2>8. s[i].last = v.last
        BY <2>1, <2>4, <2>6, <2>7
  <2>9. s[i] = v
    <3>1. \A x, y \in S : x.first = y.first /\ x.last = y.last => x = y
          OBVIOUS
    <3>2. s[i] \in S /\ v \in S
          BY <1>1
    <3> HIDE DEF S
    <3>3. QED BY <2>5, <2>8, <3>1, <3>2
  <2>10. QED BY <1>2, <2>9
<1>8. QED BY <1>1, <1>2, <1>5, <1>6, <1>7

\* The commits at which an edge is served
Commits(series, k) == {i \in DOMAIN series : k \in EdgeKeys(Served(series[i]))}

\* edge_history: every edge that is served at some commit has the intervals of those it is
\* served at.
LEMMA HistoryIs ==
    ASSUME NEW S, NEW series \in Seq(S)
    PROVE  /\ DOMAIN EdgeHistory(series) =
                 UNION {EdgeKeys(Served(series[i])) : i \in DOMAIN series}
           /\ \A k \in DOMAIN EdgeHistory(series) :
                 Spans(EdgeHistory(series)[k], Commits(series, k), Len(series))
<1> DEFINE Keys(i) == EdgeKeys(Served(series[i]))
           none == [k \in {} |-> <<>>]
           upto[i \in Nat] ==
              IF i = 0 THEN [k \in {} |-> <<>>]
              ELSE See(upto[i - 1], EdgeKeys(Served(series[i])), i)
           l == Len(series)
           Says(n) == /\ DOMAIN upto[n] = UNION {Keys(i) : i \in 1 .. n}
                      /\ \A k \in DOMAIN upto[n] : Spans(upto[n][k], Commits(series, k), n)
<1>1. EdgeHistory(series) = upto[l]
      BY DEF EdgeHistory
<1>2. l \in Nat /\ DOMAIN series = 1 .. l
      OBVIOUS
<1>3. \A i \in Nat : upto[i] = IF i = 0 THEN none ELSE See(upto[i - 1], Keys(i), i)
  <2>1. PICK f : Rounds("history", series, none, f, Nat)
        BY RoundsExist
  <2>2. \A g : Rounds("history", series, none, g, Nat) <=>
           g = [i \in Nat |-> IF i = 0 THEN [k \in {} |-> <<>>]
                              ELSE See(g[i - 1], EdgeKeys(Served(series[i])), i)]
        BY DEF Rounds, Round
  <2>3. Rounds("history", series, none, upto, Nat)
        BY <2>1, <2>2
  <2> HIDE DEF upto, none
  <2>4. QED BY <2>3 DEF Rounds, Round
<1> HIDE DEF upto
<1>4. Says(0)
      BY <1>3
<1>5. ASSUME NEW n \in Nat, n + 1 <= l, Says(n) PROVE Says(n + 1)
  <2> DEFINE h == upto[n]
             next == upto[n + 1]
  <2>1. next = See(h, Keys(n + 1), n + 1)
    <3>1. n + 1 \in Nat /\ n + 1 # 0 /\ (n + 1) - 1 = n
          OBVIOUS
    <3>2. QED BY <1>3, <3>1
  <2>2. n + 1 \in DOMAIN series /\ \A i \in 1 .. n : i \in DOMAIN series
        BY <1>2, <1>5
  <2>3. DOMAIN next = DOMAIN h \cup Keys(n + 1)
        BY <2>1 DEF See
  <2>4. DOMAIN next = UNION {Keys(i) : i \in 1 .. n + 1}
    <3>1. \A i : i \in 1 .. n + 1 <=> i \in 1 .. n \/ i = n + 1
          OBVIOUS
    <3> HIDE DEF Keys, next, h
    <3>2. DOMAIN h = UNION {Keys(i) : i \in 1 .. n}
          BY <1>5 DEF h
    <3>3. QED BY <2>3, <3>1, <3>2
  <2>5. ASSUME NEW k \in DOMAIN next PROVE Spans(next[k], Commits(series, k), n + 1)
    <3> DEFINE at == Commits(series, k)
    <3>1. n + 1 \in at <=> k \in Keys(n + 1)
          BY <2>2 DEF Commits
    <3>2. CASE k \notin DOMAIN h
      <4>1. next[k] = <<[first |-> n + 1, last |-> n + 1]>> /\ k \in Keys(n + 1)
            BY <2>1, <2>3, <2>5, <3>2 DEF See
      <4>2. \A m \in 1 .. n : m \notin at
            BY <1>5, <3>2 DEF Commits
      <4> HIDE DEF at, next, Keys
      <4>3. Spans(next[k], at, n + 1)
            BY <3>1, <4>1, <4>2, FirstSpans
      <4>4. QED BY <4>3 DEF at
    <3>3. CASE k \in DOMAIN h
      <4>1. Spans(h[k], at, n)
            BY <1>5, <3>3
      <4>2. next[k] = IF k \in Keys(n + 1) THEN Seen(h[k], n + 1) ELSE h[k]
            BY <2>1, <2>3, <2>5, <3>3 DEF See
      <4> HIDE DEF at, next, Keys, h
      <4>3. Spans(next[k], at, n + 1)
            BY <3>1, <4>1, <4>2, SeenSpans, UnseenSpans
      <4>4. QED BY <4>3 DEF at
    <3>4. QED BY <3>2, <3>3
  <2>6. QED BY <2>4, <2>5
<1>6. \A n \in Nat : n <= l => Says(n)
  <2> DEFINE T == {n \in Nat : n <= l => Says(n)}
  <2> HIDE DEF Says
  <2>1. 0 \in T
        BY <1>4
  <2>2. ASSUME NEW n \in Nat, n \in T PROVE n + 1 \in T
        BY <1>2, <1>5, <2>2
  <2>3. Nat \subseteq T
    <3> HIDE DEF T
    <3>1. QED BY <2>1, <2>2, AllNumbers
  <2>4. QED BY <2>3
<1>7. Says(l)
      BY <1>2, <1>6
<1>8. QED BY <1>1, <1>2, <1>7

\* A part of the hosts behaves as it does alone.
LEMMA HostsAreParts ==
    HostsSpec => /\ LinkingSpec /\ EmbeddedSpec
                 /\ StoresInit /\ [][StoresNext]_storesVars
<1>1. HostsInit => LinkingInit /\ StoresInit /\ EmbeddedInit
      BY DEF HostsInit
<1>2. [HostsNext]_hostsVars => /\ [LinkingNext]_linkingVars /\ [EmbeddedNext]_embeddedVars
                               /\ [StoresNext]_storesVars
      BY DEF HostsNext, hostsVars
<1>3. QED BY <1>1, <1>2, PTL DEF HostsSpec, LinkingSpec, EmbeddedSpec

\* HistoryIsPresence: a series' history gives every edge the intervals of commits it was
\* served at, none too long and none missing (history.py), and consumers_over_time and
\* changed_between agree with it.
THEOREM HistoryIsAlwaysPresence == HostsSpec => []HistoryIsPresence
<1>1. HistoryIsPresence
  <2> DEFINE series == <<ToSet(memory), neo, sqlite>>
             history == EdgeHistory(series)
             There(k, i) == i \in DOMAIN series /\ k \in EdgeKeys(Served(series[i]))
  <2>1. /\ Len(series) = 3 /\ DOMAIN series = 1 .. 3
        /\ series \in Seq({ToSet(memory), neo, sqlite})
        OBVIOUS
  <2> HIDE DEF series
  <2>2. /\ DOMAIN history = UNION {EdgeKeys(Served(series[i])) : i \in DOMAIN series}
        /\ \A k \in DOMAIN history : Spans(history[k], Commits(series, k), 3)
        BY <2>1, HistoryIs
  <2> HIDE DEF history
  <2>3. \A k, i : There(k, i) <=> i \in Commits(series, k)
        BY DEF Commits
  <2>4. ASSUME NEW k
        PROVE  Commits(series, k) \subseteq 1 .. 3
        BY <2>1 DEF Commits
  <2>5. ASSUME NEW k \in DOMAIN history
        PROVE  /\ ToSet(history[k]) =
                    {v \in [first : DOMAIN series, last : DOMAIN series] :
                        /\ v.first <= v.last /\ \A i \in v.first .. v.last : There(k, i)
                        /\ ~There(k, v.first - 1) /\ ~There(k, v.last + 1)}
               /\ Last(history[k]).last = 3 <=> There(k, 3)
               /\ DOMAIN history[k] = 1 .. Len(history[k])
               /\ \A i \in DOMAIN history[k] : history[k][i] \in ToSet(history[k])
               /\ \A m \in 1 .. 3 : There(k, m) =>
                     \E i \in DOMAIN history[k] :
                        history[k][i].first <= m /\ m <= history[k][i].last
    <3>1. Spans(history[k], Commits(series, k), 3)
          BY <2>2
    <3>2. ToSet(history[k]) =
             {v \in [first : 1 .. 3, last : 1 .. 3] :
                /\ v.first <= v.last /\ \A i \in v.first .. v.last : i \in Commits(series, k)
                /\ v.first - 1 \notin Commits(series, k) /\ v.last + 1 \notin Commits(series, k)}
          BY <2>4, <3>1, SpansAreWhole
    <3>3. DOMAIN history[k] = 1 .. Len(history[k])
          BY <3>1, SpanIs
    <3>4. 3 \in Commits(series, k) <=> Last(history[k]).last = 3
          BY <3>1, LastEnds
    <3>5. \A m \in 1 .. 3 : m \in Commits(series, k) =>
             \E i \in 1 .. Len(history[k]) : history[k][i].first <= m /\ m <= history[k][i].last
          BY <3>1 DEF Spans
    <3>6. \A i \in DOMAIN history[k] : history[k][i] \in ToSet(history[k])
          BY DEF ToSet
    <3> HIDE DEF There
    <3>7. QED BY <2>1, <2>3, <3>2, <3>3, <3>4, <3>5, <3>6
  <2>6. \A k \in UNION {EdgeKeys(Served(series[i])) : i \in DOMAIN series} :
           ToSet(history[k]) =
              {v \in [first : DOMAIN series, last : DOMAIN series] :
                  /\ v.first <= v.last /\ \A i \in v.first .. v.last : There(k, i)
                  /\ ~There(k, v.first - 1) /\ ~There(k, v.last + 1)}
        BY <2>2, <2>5
  <2>7. ASSUME NEW n \in Nodes
        PROVE  LET report == ConsumersOverTime(series, n)
                   ever == {k \in DOMAIN history : k[3] = n /\ k[2] \in DependenceTypes} IN
               /\ report.current \cup report.former = {k[1] : k \in ever}
               /\ report.current =
                     {k[1] : k \in {j \in ever : Last(history[j]).last = Len(series)}}
    <3> DEFINE report == ConsumersOverTime(series, n)
               ever == {k \in DOMAIN history : k[3] = n /\ k[2] \in DependenceTypes}
               At(i) == {e.source : e \in ConsumersOf(series[i], n)}
    <3>1. /\ report.current = At(3)
          /\ report.current \cup report.former = UNION {At(i) : i \in DOMAIN series}
      <4>1. 3 \in DOMAIN series /\ Len(series) = 3
            BY <2>1
      <4> DEFINE all == UNION {At(i) : i \in DOMAIN series}
      <4>2. report.current = At(3) /\ report.former = all \ At(3)
        <5>1. report.current = At(Len(series)) /\ report.former = all \ At(Len(series))
              BY DEF ConsumersOverTime
        <5>2. At(Len(series)) = At(3)
              BY <4>1
        <5> HIDE DEF report, At, all
        <5>3. QED BY <5>1, <5>2
      <4> HIDE DEF report, At
      <4>3. At(3) \subseteq all
            BY <4>1
      <4> HIDE DEF all
      <4>4. report.current = At(3) /\ report.current \cup report.former = all
            BY <4>2, <4>3
      <4>5. QED BY <4>4 DEF all
    <3>2. \A i \in DOMAIN series :
             At(i) = {k[1] : k \in {j \in ever : There(j, i)}}
      <4>1. ASSUME NEW i \in DOMAIN series, NEW e \in ConsumersOf(series[i], n)
            PROVE  e.source \in {k[1] : k \in {j \in ever : There(j, i)}}
        <5>1. /\ e \in Served(series[i]) /\ e.type \in DependenceTypes /\ e.target = n
              BY <4>1 DEF ConsumersOf, Dependence
        <5>2. EdgeKey(e) \in EdgeKeys(Served(series[i]))
              BY <5>1 DEF EdgeKeys
        <5>3. EdgeKey(e)[1] = e.source /\ EdgeKey(e)[2] = e.type /\ EdgeKey(e)[3] = e.target
              BY DEF EdgeKey
        <5>4. EdgeKey(e) \in ever /\ There(EdgeKey(e), i)
              BY <2>2, <4>1, <5>1, <5>2, <5>3
        <5> HIDE DEF ever, There
        <5>5. QED BY <5>3, <5>4
      <4>2. ASSUME NEW i \in DOMAIN series, NEW k \in ever, There(k, i)
            PROVE  k[1] \in At(i)
        <5>1. PICK e \in Served(series[i]) : k = EdgeKey(e)
              BY <4>2 DEF EdgeKeys
        <5>2. k[1] = e.source /\ k[2] = e.type /\ k[3] = e.target
              BY <5>1 DEF EdgeKey
        <5>3. e \in ConsumersOf(series[i], n)
              BY <4>2, <5>1, <5>2 DEF ConsumersOf, Dependence
        <5>4. QED BY <5>2, <5>3
      <4> HIDE DEF ever, There
      <4>3. QED BY <4>1, <4>2
    <3>3. \A k \in ever : k \in DOMAIN history /\ \E i \in DOMAIN series : There(k, i)
          BY <2>2
    <3>4. \A k \in ever : There(k, 3) <=> Last(history[k]).last = 3
          BY <2>5, <3>3
    <3> HIDE DEF report, ever, At, There
    <3>5. UNION {At(i) : i \in DOMAIN series} = {k[1] : k \in ever}
          BY <3>2, <3>3
    <3>6. At(3) = {k[1] : k \in {j \in ever : Last(history[j]).last = 3}}
          BY <2>1, <3>2, <3>4
    <3>7. QED BY <2>1, <3>1, <3>5, <3>6 DEF report, ever
  <2>8. EdgeKeys(Removed(series[2], series[3])) =
           {k \in DOMAIN history : \E i \in DOMAIN history[k] : history[k][i].last = 2}
    <3>1. \A k : k \in EdgeKeys(Removed(series[2], series[3])) <=> There(k, 2) /\ ~There(k, 3)
          BY <2>1 DEF EdgeKeys, Removed
    <3>2. \A k : There(k, 2) => k \in DOMAIN history
          BY <2>2
    <3>3. ASSUME NEW k \in DOMAIN history
          PROVE  There(k, 2) /\ ~There(k, 3) <=>
                    \E i \in DOMAIN history[k] : history[k][i].last = 2
      <4>1. \A i \in DOMAIN history[k] :
               /\ history[k][i].first \in 1 .. 3 /\ history[k][i].last \in 1 .. 3
               /\ history[k][i].first <= history[k][i].last
               /\ There(k, history[k][i].last)
               /\ \A m \in history[k][i].first .. history[k][i].last : There(k, m)
               /\ ~There(k, history[k][i].last + 1)
        <5> DEFINE S == [first : 1 .. 3, last : 1 .. 3]
        <5>1. ASSUME NEW v \in ToSet(history[k])
              PROVE  /\ v \in S /\ v.first <= v.last /\ \A m \in v.first .. v.last : There(k, m)
                     /\ ~There(k, v.last + 1)
              BY <2>1, <2>5
        <5>2. \A v \in S : v.first \in 1 .. 3 /\ v.last \in 1 .. 3
              OBVIOUS
        <5>3. \A i \in DOMAIN history[k] : history[k][i] \in ToSet(history[k])
              BY <2>5
        <5> HIDE DEF S, There
        <5>4. QED BY <5>1, <5>2, <5>3
      <4>2. There(k, 2) =>
               \E i \in DOMAIN history[k] : history[k][i].first <= 2 /\ 2 <= history[k][i].last
            BY <2>5
      <4> HIDE DEF There
      <4>3. QED BY <4>1, <4>2
    <3> HIDE DEF There
    <3>4. QED BY <3>1, <3>2, <3>3
  <2>9. QED BY <2>6, <2>7, <2>8 DEF HistoryIsPresence, history, series
<1>2. QED BY <1>1, PTL

------------------------------------------------------------------------------
(* The answers of two stores                                               *)

\* Of any numbers there is a least.
LEMMA LeastNumber ==
    ASSUME NEW S \in SUBSET Nat, S # {}
    PROVE  Min(S) \in S /\ \A y \in S : Min(S) <= y
<1> DEFINE R == OpToRel(<, Nat)
<1>1. PICK x \in S : \A y \in S : ~(<<y, x>> \in R)
  <2>1. IsWellFoundedOn(R, Nat)
        BY NatLessThanWellFounded
  <2> HIDE DEF R
  <2>2. QED BY <2>1, WFMin
<1>2. \A m, n \in Nat : m < n => <<m, n>> \in R
      BY DEF OpToRel
<1>3. \A y \in S : ~(y < x)
      BY <1>1, <1>2
<1>4. \A y \in S : x <= y
      BY <1>3
<1>5. QED BY <1>4 DEF Min

\* The ways along edges are the ends of those that are of the types, and all that matters of
\* an edge is its key.
LEMMA StepsAre ==
    ASSUME NEW es, NEW types, NEW direction
    PROVE  Steps(es, types, direction) =
              UNION {Ends(direction, e) : e \in {d \in es : Typed(types, d)}}
<1> DEFINE Forth == {<<e.source, e.target>> : e \in {d \in es : Typed(types, d) /\ direction # "in"}}
           Back == {<<e.target, e.source>> : e \in {d \in es : Typed(types, d) /\ direction # "out"}}
<1>1. Steps(es, types, direction) = Forth \cup Back
      BY DEF Steps
<1>2. \A s : s \in Forth \cup Back <=> \E e \in es : Typed(types, e) /\ s \in Ends(direction, e)
      BY DEF Ends
<1> HIDE DEF Forth, Back
<1>3. QED BY <1>1, <1>2

LEMMA KeysAreEnough ==
    ASSUME NEW e, NEW d, EdgeKey(e) = EdgeKey(d)
    PROVE  /\ e.source = d.source /\ e.target = d.target /\ e.type = d.type
           /\ \A types : Typed(types, e) <=> Typed(types, d)
           /\ \A direction : Ends(direction, e) = Ends(direction, d)
BY DEF EdgeKey, Typed, Ends

LEMMA StepsOfKeys ==
    ASSUME NEW es, NEW ds, EdgeKeys(es) = EdgeKeys(ds), NEW types, NEW direction
    PROVE  Steps(es, types, direction) = Steps(ds, types, direction)
<1>1. \A e \in es : \E d \in ds : EdgeKey(e) = EdgeKey(d)
      BY DEF EdgeKeys
<1>2. \A d \in ds : \E e \in es : EdgeKey(d) = EdgeKey(e)
      BY DEF EdgeKeys
<1> DEFINE In(all, s) == \E e \in all : Typed(types, e) /\ s \in Ends(direction, e)
<1>3. ASSUME NEW s PROVE In(es, s) <=> In(ds, s)
      BY <1>1, <1>2, KeysAreEnough
<1>4. \A s : /\ s \in Steps(es, types, direction) <=> In(es, s)
             /\ s \in Steps(ds, types, direction) <=> In(ds, s)
      BY StepsAre
<1> HIDE DEF In
<1>5. QED BY <1>3, <1>4

Trails(es, q) == [edges |-> es, types |-> q.types, direction |-> q.direction]
AtNode(q) == {<<q.node, {}>>}

\* SqliteNeighbourhood by its walks, NeoNeighbourhood by its trails

LEMMA WalksAre ==
    ASSUME NEW es, NEW q
    PROVE  \E walk :
              /\ Rounds("walk", Steps(es, q.types, q.direction), {q.node}, walk, Nat)
              /\ LET depths == 1 .. AtLeastOne(q.hops) IN
                 SqliteNeighbourhood(es, q) =
                    {[node |-> n, hops |-> Min({d \in depths : n \in walk[d]})] :
                        n \in (UNION {walk[d] : d \in depths}) \ {q.node}}
<1> DEFINE ways == Steps(es, q.types, q.direction)
           walk[depth \in Nat] ==
              IF depth = 0 THEN {q.node}
              ELSE LET reached == walk[depth - 1] IN
                   {s[2] : s \in {t \in ways : t[1] \in reached}}
<1>1. Rounds("walk", ways, {q.node}, walk, Nat)
  <2>1. PICK f : Rounds("walk", ways, {q.node}, f, Nat)
        BY RoundsExist
  <2> HIDE DEF ways
  <2>2. \A g : Rounds("walk", ways, {q.node}, g, Nat) <=>
           g = [depth \in Nat |->
                   IF depth = 0 THEN {q.node}
                   ELSE LET reached == g[depth - 1] IN
                        {s[2] : s \in {t \in ways : t[1] \in reached}}]
        BY DEF Rounds, Round, Onto
  <2>3. QED BY <2>1, <2>2
<1>2. LET depths == 1 .. AtLeastOne(q.hops) IN
      SqliteNeighbourhood(es, q) =
         {[node |-> n, hops |-> Min({d \in depths : n \in walk[d]})] :
             n \in (UNION {walk[d] : d \in depths}) \ {q.node}}
      BY DEF SqliteNeighbourhood
<1> HIDE DEF walk
<1>3. QED BY <1>1, <1>2

LEMMA TrailsAre ==
    ASSUME NEW es, NEW q
    PROVE  \E trails :
              /\ Rounds("trail", Trails(es, q), AtNode(q), trails, Nat)
              /\ NeoNeighbourhood(es, q) =
                    UNION {{[node |-> t[1], hops |-> k] : t \in trails[k]} : k \in 1 .. q.hops}
<1> DEFINE Along(e) == (IF q.direction = "in" THEN {} ELSE {<<e.source, e.target>>})
                       \cup (IF q.direction = "out" THEN {} ELSE {<<e.target, e.source>>})
           Onward(near) ==
              UNION {{<<s[2], x[1][2] \cup {x[2]}>> : s \in {r \in Along(x[2]) : r[1] = x[1][1]}} :
                     x \in {y \in near \X es :
                              Typed(q.types, y[2]) /\ y[2] \notin y[1][2]}}
           along == Trails(es, q)
           first == {<<q.node, {}>>}
           trails[k \in Nat] == IF k = 0 THEN first ELSE Onward(trails[k - 1])
<1>1. Rounds("trail", along, first, trails, Nat)
  <2>1. PICK f : Rounds("trail", along, first, f, Nat)
        BY RoundsExist
  <2>2. /\ along.edges = es /\ along.types = q.types /\ along.direction = q.direction
        /\ \A e : Ends(along.direction, e) = Along(e)
        BY DEF Ends, Trails
  <2> HIDE DEF Along, along, first
  <2>3. \A near : Trodden(along, near) = Onward(near)
        BY <2>2 DEF Trodden
  <2> HIDE DEF Onward
  <2>4. \A g : Rounds("trail", along, first, g, Nat) <=>
           g = [k \in Nat |-> IF k = 0 THEN first ELSE Trodden(along, g[k - 1])]
        BY DEF Rounds, Round
  <2>5. \A g : [k \in Nat |-> IF k = 0 THEN first ELSE Trodden(along, g[k - 1])] =
               [k \in Nat |-> IF k = 0 THEN first ELSE Onward(g[k - 1])]
        BY <2>3
  <2>6. \A g : Rounds("trail", along, first, g, Nat) <=>
           g = [k \in Nat |-> IF k = 0 THEN first ELSE Onward(g[k - 1])]
        BY <2>4, <2>5
  <2>7. QED BY <2>1, <2>6
<1>2. NeoNeighbourhood(es, q) =
         UNION {{[node |-> t[1], hops |-> k] : t \in trails[k]} : k \in 1 .. q.hops}
      BY DEF NeoNeighbourhood
<1> HIDE DEF trails
<1>3. first = AtNode(q)
      BY DEF AtNode
<1> HIDE DEF along, first
<1>4. QED BY <1>1, <1>2, <1>3 DEF along

\* A trail ends where a walk of its length does, and so does one for the shortest to a node.
ShortestIs(walk, trails) ==
    \A k \in Nat :
       /\ \A t \in trails[k] : t[1] \in walk[k]
       /\ \A n \in walk[k] : (\A j \in 0 .. k - 1 : n \notin walk[j]) =>
             \E t \in trails[k] : t[1] = n

\* A trail is a walk, and of the walks to a node a shortest one is a trail: what an edge of it
\* comes to is nearer than where its next edge goes.
LEMMA ShortestIsTrail ==
    ASSUME NEW es, NEW q, NEW walk, NEW trails,
           Rounds("walk", Steps(es, q.types, q.direction), {q.node}, walk, Nat),
           Rounds("trail", Trails(es, q), AtNode(q), trails, Nat)
    PROVE  ShortestIs(walk, trails)
<1> DEFINE ways == Steps(es, q.types, q.direction)
           along == Trails(es, q)
           Near(k, n) == \E j \in 0 .. k : n \in walk[j]
           Nearby(k, t) == \A e \in t[2] : \A s \in Ends(q.direction, e) : Near(k, s[2])
           Says(k) == /\ \A t \in trails[k] : t[1] \in walk[k]
                      /\ \A n \in walk[k] : (\A j \in 0 .. k - 1 : n \notin walk[j]) =>
                            \E t \in trails[k] : t[1] = n /\ Nearby(k, t)
           S == {k \in Nat : Says(k)}
<1>1. walk[0] = {q.node} /\ trails[0] = {<<q.node, {}>>}
      BY DEF Rounds, AtNode
<1>2. ASSUME NEW k \in Nat
      PROVE  walk[k + 1] = Onto(ways, walk[k]) /\ trails[k + 1] = Trodden(along, trails[k])
  <2>1. k + 1 \in Nat /\ k + 1 # 0 /\ (k + 1) - 1 = k
        OBVIOUS
  <2> HIDE DEF ways, along
  <2>2. /\ walk[k + 1] = Round("walk", ways, k + 1, walk[k])
        /\ trails[k + 1] = Round("trail", along, k + 1, trails[k])
        BY <2>1 DEF Rounds, ways, along
  <2>3. QED BY <2>2 DEF Round
<1>3. \A s : s \in ways <=> \E e \in es : Typed(q.types, e) /\ s \in Ends(q.direction, e)
      BY StepsAre
<1>4. ASSUME NEW near, NEW u
      PROVE  u \in Trodden(along, near) <=>
                \E t \in near, e \in es : \E s \in Ends(q.direction, e) :
                   /\ Typed(q.types, e) /\ e \notin t[2] /\ s[1] = t[1]
                   /\ u = <<s[2], t[2] \cup {e}>>
  <2>1. along.edges = es /\ along.types = q.types /\ along.direction = q.direction
        BY DEF Trails
  <2> HIDE DEF along
  <2>2. u \in Trodden(along, near) <=>
           \E x \in near \X es :
              /\ Typed(q.types, x[2]) /\ x[2] \notin x[1][2]
              /\ \E s \in Ends(q.direction, x[2]) :
                    s[1] = x[1][1] /\ u = <<s[2], x[1][2] \cup {x[2]}>>
        BY <2>1 DEF Trodden
  <2>3. \A x \in near \X es : x[1] \in near /\ x[2] \in es
        OBVIOUS
  <2>4. \A t \in near, e \in es :
           <<t, e>> \in near \X es /\ <<t, e>>[1] = t /\ <<t, e>>[2] = e
        OBVIOUS
  <2>5. ASSUME u \in Trodden(along, near)
        PROVE  \E t \in near, e \in es : \E s \in Ends(q.direction, e) :
                  /\ Typed(q.types, e) /\ e \notin t[2] /\ s[1] = t[1]
                  /\ u = <<s[2], t[2] \cup {e}>>
    <3>1. PICK x \in near \X es :
              /\ Typed(q.types, x[2]) /\ x[2] \notin x[1][2]
              /\ \E s \in Ends(q.direction, x[2]) :
                    s[1] = x[1][1] /\ u = <<s[2], x[1][2] \cup {x[2]}>>
          BY <2>2, <2>5
    <3>2. QED BY <2>3, <3>1
  <2>6. ASSUME NEW t \in near, NEW e \in es, NEW s \in Ends(q.direction, e),
               Typed(q.types, e), e \notin t[2], s[1] = t[1], u = <<s[2], t[2] \cup {e}>>
        PROVE  u \in Trodden(along, near)
    <3> DEFINE x == <<t, e>>
    <3>1. x \in near \X es /\ x[1] = t /\ x[2] = e
          BY <2>4
    <3> HIDE DEF x
    <3>2. QED BY <2>2, <2>6, <3>1
  <2>7. QED BY <2>5, <2>6
<1>5. ASSUME NEW near, NEW n
      PROVE  n \in Onto(ways, near) <=> \E s \in ways : s[1] \in near /\ n = s[2]
      BY DEF Onto
<1>6. 0 \in S
  <2> DEFINE t == <<q.node, {}>>
  <2>1. t \in trails[0] /\ t[1] = q.node /\ t[2] = {}
        BY <1>1
  <2>2. Nearby(0, t)
        BY <2>1
  <2> HIDE DEF Nearby
  <2>3. Says(0)
        BY <1>1, <2>1, <2>2
  <2>4. QED BY <2>3
<1>7. ASSUME NEW k \in Nat, k \in S PROVE k + 1 \in S
  <2> HIDE DEF ways, along, S
  <2>1. Says(k)
        BY <1>7 DEF S
  <2>2. ASSUME NEW u \in trails[k + 1] PROVE u[1] \in walk[k + 1]
    <3>1. PICK t \in trails[k], e \in es : \E s \in Ends(q.direction, e) :
             /\ Typed(q.types, e) /\ e \notin t[2] /\ s[1] = t[1]
             /\ u = <<s[2], t[2] \cup {e}>>
          BY <1>2, <1>4
    <3>2. PICK s \in Ends(q.direction, e) :
             Typed(q.types, e) /\ s[1] = t[1] /\ u = <<s[2], t[2] \cup {e}>>
          BY <3>1
    <3>3. s \in ways /\ s[1] \in walk[k] /\ u[1] = s[2]
          BY <1>3, <2>1, <3>2
    <3>4. QED BY <1>2, <1>5, <3>3
  <2>3. ASSUME NEW n \in walk[k + 1], \A j \in 0 .. (k + 1) - 1 : n \notin walk[j]
        PROVE  \E u \in trails[k + 1] : u[1] = n /\ Nearby(k + 1, u)
    <3>1. \A j \in 0 .. k : n \notin walk[j]
          BY <2>3
    <3>2. PICK s \in ways : s[1] \in walk[k] /\ n = s[2]
          BY <1>2, <1>5, <2>3
    <3>3. \A j \in 0 .. k - 1 : s[1] \notin walk[j]
      <4>1. SUFFICES ASSUME NEW j \in 0 .. k - 1, s[1] \in walk[j] PROVE FALSE
            OBVIOUS
      <4>2. j \in Nat /\ j + 1 \in 0 .. k
            OBVIOUS
      <4>3. n \in walk[j + 1]
            BY <1>2, <1>5, <3>2, <4>1, <4>2
      <4>4. QED BY <3>1, <4>2, <4>3
    <3>4. PICK t \in trails[k] : t[1] = s[1] /\ Nearby(k, t)
          BY <2>1, <3>2, <3>3
    <3>5. PICK e \in es : Typed(q.types, e) /\ s \in Ends(q.direction, e)
          BY <1>3
    <3>6. ~Near(k, n)
          BY <3>1
    <3>7. e \notin t[2]
          BY <3>2, <3>4, <3>5, <3>6
    <3> DEFINE u == <<n, t[2] \cup {e}>>
    <3>8. u \in trails[k + 1]
          BY <1>2, <1>4, <3>2, <3>4, <3>5, <3>7
    <3>9. ASSUME NEW r \in Ends(q.direction, e) PROVE Near(k + 1, r[2])
      <4>1. \A a \in Ends(q.direction, e) : r[2] = a[2] \/ r[2] = a[1]
            BY <3>9 DEF Ends
      <4>2. r[2] = n \/ r[2] = s[1]
            BY <3>2, <3>5, <4>1
      <4>3. k \in 0 .. k + 1 /\ k + 1 \in 0 .. k + 1
            OBVIOUS
      <4>4. QED BY <2>3, <3>2, <4>2, <4>3
    <3>10. \A m : Near(k, m) => Near(k + 1, m)
      <4>1. 0 .. k \subseteq 0 .. k + 1
            OBVIOUS
      <4>2. QED BY <4>1
    <3> HIDE DEF Near
    <3>11. Nearby(k + 1, u)
          BY <3>4, <3>9, <3>10
    <3>12. QED BY <3>8, <3>11
  <2> HIDE DEF Nearby
  <2>4. Says(k + 1)
        BY <2>2, <2>3
  <2>5. QED BY <2>4 DEF S
<1>8. Nat \subseteq S
  <2> HIDE DEF S
  <2>1. QED BY <1>6, <1>7, AllNumbers
<1> HIDE DEF Nearby
<1>9. QED BY <1>8 DEF ShortestIs

\* So SQLite answers with the shortest of the patterns.
LEMMA WalksAreShortestTrails ==
    ASSUME NEW es, NEW ds, EdgeKeys(es) = EdgeKeys(ds), NEW q, q.hops \in Nat \ {0}
    PROVE  LET patterns == NeoNeighbourhood(es, q) IN
           SqliteNeighbourhood(ds, q) =
              {r \in patterns : r.node # q.node /\
                  \A s \in patterns : s.node = r.node => s.hops >= r.hops}
<1>1. Steps(ds, q.types, q.direction) = Steps(es, q.types, q.direction)
      BY StepsOfKeys
<1> DEFINE depths == 1 .. q.hops
           patterns == NeoNeighbourhood(es, q)
           rows == SqliteNeighbourhood(ds, q)
<1>2. AtLeastOne(q.hops) = q.hops
      BY DEF AtLeastOne
<1> DEFINE Answer(walk, D) ==
              {[node |-> n, hops |-> Min({d \in D : n \in walk[d]})] :
                  n \in (UNION {walk[d] : d \in D}) \ {q.node}}
<1>3. PICK walk :
         /\ Rounds("walk", Steps(es, q.types, q.direction), {q.node}, walk, Nat)
         /\ rows = Answer(walk, depths)
  <2>1. PICK walk :
           /\ Rounds("walk", Steps(ds, q.types, q.direction), {q.node}, walk, Nat)
           /\ rows = Answer(walk, 1 .. AtLeastOne(q.hops))
        BY WalksAre
  <2> HIDE DEF Answer, rows
  <2>2. QED BY <1>1, <1>2, <2>1
<1>4. PICK trails :
         /\ Rounds("trail", Trails(es, q), AtNode(q), trails, Nat)
         /\ patterns = UNION {{[node |-> t[1], hops |-> k] : t \in trails[k]} : k \in depths}
      BY TrailsAre
<1>5. \A k \in Nat :
         /\ \A t \in trails[k] : t[1] \in walk[k]
         /\ \A n \in walk[k] : (\A j \in 0 .. k - 1 : n \notin walk[j]) =>
               \E t \in trails[k] : t[1] = n
  <2> HIDE DEF patterns, rows, Answer
  <2>1. Rounds("walk", Steps(es, q.types, q.direction), {q.node}, walk, Nat)
        BY <1>3
  <2>2. Rounds("trail", Trails(es, q), AtNode(q), trails, Nat)
        BY <1>4
  <2>3. ShortestIs(walk, trails)
        BY <2>1, <2>2, ShortestIsTrail
  <2>4. QED BY <2>3 DEF ShortestIs
<1>6. walk[0] = {q.node}
      BY <1>3 DEF Rounds
<1> HIDE DEF patterns, rows
<1>7. \A r : r \in patterns <=>
         \E k \in depths : \E t \in trails[k] : r = [node |-> t[1], hops |-> k]
      BY <1>4
<1> DEFINE Depths(n) == {d \in depths : n \in walk[d]}
<1>8. \A r : r \in rows <=>
         \E n : n # q.node /\ Depths(n) # {} /\ r = [node |-> n, hops |-> Min(Depths(n))]
  <2>1. \A n : n \in UNION {walk[d] : d \in depths} <=> Depths(n) # {}
        OBVIOUS
  <2> HIDE DEF depths
  <2>2. QED BY <1>3, <2>1
<1>9. ASSUME NEW n, n # q.node, Depths(n) # {}
      PROVE  /\ [node |-> n, hops |-> Min(Depths(n))] \in patterns
             /\ \A d \in Depths(n) : Min(Depths(n)) <= d
             /\ Min(Depths(n)) \in depths
  <2>1. Depths(n) \in SUBSET Nat
        OBVIOUS
  <2> DEFINE m == Min(Depths(n))
  <2>2. m \in Depths(n) /\ \A d \in Depths(n) : m <= d
        BY <1>9, <2>1, LeastNumber
  <2>3. m \in depths /\ n \in walk[m] /\ m \in Nat
        BY <2>2
  <2>4. ASSUME NEW j \in 0 .. m - 1 PROVE n \notin walk[j]
    <3>1. CASE j = 0
          BY <1>6, <1>9, <3>1
    <3>2. CASE j # 0
      <4>1. j \in depths /\ ~(m <= j)
            BY <2>3, <3>2
      <4>2. QED BY <2>2, <4>1
    <3>3. QED BY <3>1, <3>2
  <2> HIDE DEF m
  <2>5. PICK t \in trails[m] : t[1] = n
        BY <1>5, <2>3, <2>4
  <2>6. [node |-> n, hops |-> m] \in patterns
        BY <1>7, <2>3, <2>5
  <2>7. QED BY <2>2, <2>3, <2>6 DEF m
<1>10. ASSUME NEW r \in patterns
       PROVE  r.hops \in Depths(r.node) /\ r = [node |-> r.node, hops |-> r.hops]
  <2>1. PICK k \in depths : \E t \in trails[k] : r = [node |-> t[1], hops |-> k]
        BY <1>7
  <2>2. PICK t \in trails[k] : r = [node |-> t[1], hops |-> k]
        BY <2>1
  <2>3. r.node = t[1] /\ r.hops = k /\ t[1] \in walk[k]
        BY <1>5, <2>2
  <2>4. QED BY <2>2, <2>3
<1>11. ASSUME NEW r \in rows
       PROVE  /\ r \in patterns /\ r.node # q.node
              /\ \A s \in patterns : s.node = r.node => s.hops >= r.hops
  <2>1. PICK n : n # q.node /\ Depths(n) # {} /\ r = [node |-> n, hops |-> Min(Depths(n))]
        BY <1>8
  <2>2. r.node = n /\ r.hops = Min(Depths(n))
        BY <2>1
  <2> HIDE DEF Depths
  <2>3. \A s \in patterns : s.node = n => s.hops \in Depths(n)
        BY <1>10
  <2>4. \A d \in Depths(n) : d >= Min(Depths(n))
    <3>1. Depths(n) \subseteq Nat /\ Min(Depths(n)) \in Nat
          BY <1>9, <2>1 DEF Depths
    <3>2. QED BY <1>9, <2>1, <3>1
  <2>5. QED BY <1>9, <2>1, <2>2, <2>3, <2>4
<1>12. ASSUME NEW r \in patterns, r.node # q.node,
              \A s \in patterns : s.node = r.node => s.hops >= r.hops
       PROVE  r \in rows
  <2> DEFINE m == Min(Depths(r.node))
             s == [node |-> r.node, hops |-> m]
  <2>1. r.hops \in Depths(r.node) /\ r = [node |-> r.node, hops |-> r.hops]
        BY <1>10, <1>12
  <2>2. /\ s \in patterns /\ m <= r.hops /\ m \in depths /\ r.hops \in depths
        BY <1>9, <1>12, <2>1
  <2>3. s.node = r.node /\ s.hops = m
        OBVIOUS
  <2>4. m >= r.hops
        BY <1>12, <2>2, <2>3
  <2> HIDE DEF m
  <2>5. m = r.hops
        BY <2>2, <2>4
  <2> HIDE DEF Depths
  <2>6. Depths(r.node) # {}
        BY <2>1
  <2>7. QED BY <1>8, <1>12, <2>1, <2>5, <2>6 DEF m
<1>13. QED BY <1>11, <1>12 DEF patterns, rows

------------------------------------------------------------------------------
\* The paths of a query, of edges to new nodes ("simple") or merely of new edges
Routes(es, q, simple) ==
    [edges |-> es, types |-> q.types, source |-> q.source, simple |-> simple]

LEMMA SqlitePathsAre ==
    ASSUME NEW es, NEW q
    PROVE  \E paths :
              /\ Rounds("path", Routes(es, q, TRUE), {<<>>}, paths, Nat)
              /\ SqlitePaths(es, q) =
                    {p \in UNION {paths[k] : k \in 1 .. q.max_hops} : End(q.source, p) = q.target}
<1> DEFINE Onward(near) ==
              {Append(x[1], x[2]) : x \in {y \in near \X es :
                 /\ Typed(q.types, y[2]) /\ y[2].source = End(q.source, y[1])
                 /\ y[2].target \notin Visited(q.source, y[1])}}
           along == Routes(es, q, TRUE)
           first == {<<>>}
           paths[k \in Nat] == IF k = 0 THEN first ELSE Onward(paths[k - 1])
<1>1. Rounds("path", along, first, paths, Nat)
  <2>1. PICK f : Rounds("path", along, first, f, Nat)
        BY RoundsExist
  <2>2. /\ along.edges = es /\ along.types = q.types /\ along.source = q.source
        /\ along.simple = TRUE
        BY DEF Routes
  <2> HIDE DEF along, first
  <2>3. \A p, e : MayGoOn(along, p, e) <=> e.target \notin Visited(q.source, p)
        BY <2>2 DEF MayGoOn
  <2>4. \A near : Longer(along, near) = Onward(near)
        BY <2>2, <2>3 DEF Longer
  <2> HIDE DEF Onward
  <2>5. \A g : Rounds("path", along, first, g, Nat) <=>
           g = [k \in Nat |-> IF k = 0 THEN first ELSE Longer(along, g[k - 1])]
        BY DEF Rounds, Round
  <2>6. \A g : [k \in Nat |-> IF k = 0 THEN first ELSE Longer(along, g[k - 1])] =
               [k \in Nat |-> IF k = 0 THEN first ELSE Onward(g[k - 1])]
        BY <2>4
  <2>7. \A g : Rounds("path", along, first, g, Nat) <=>
           g = [k \in Nat |-> IF k = 0 THEN first ELSE Onward(g[k - 1])]
        BY <2>5, <2>6
  <2>8. QED BY <2>1, <2>7
<1>2. SqlitePaths(es, q) =
         {p \in UNION {paths[k] : k \in 1 .. q.max_hops} : End(q.source, p) = q.target}
      BY DEF SqlitePaths, PathsBy
<1> HIDE DEF paths
<1>3. QED BY <1>1, <1>2

LEMMA NeoPathsAre ==
    ASSUME NEW es, NEW q
    PROVE  \E paths :
              /\ Rounds("path", Routes(es, q, FALSE), {<<>>}, paths, Nat)
              /\ NeoPaths(es, q) =
                    {p \in UNION {paths[k] : k \in 1 .. AtLeastOne(q.max_hops)} :
                        End(q.source, p) = q.target}
<1> DEFINE Onward(near) ==
              {Append(x[1], x[2]) : x \in {y \in near \X es :
                 /\ Typed(q.types, y[2]) /\ y[2].source = End(q.source, y[1])
                 /\ y[2] \notin ToSet(y[1])}}
           along == Routes(es, q, FALSE)
           first == {<<>>}
           paths[k \in Nat] == IF k = 0 THEN first ELSE Onward(paths[k - 1])
<1>1. Rounds("path", along, first, paths, Nat)
  <2>1. PICK f : Rounds("path", along, first, f, Nat)
        BY RoundsExist
  <2>2. /\ along.edges = es /\ along.types = q.types /\ along.source = q.source
        /\ along.simple = FALSE
        BY DEF Routes
  <2> HIDE DEF along, first
  <2>3. \A p, e : MayGoOn(along, p, e) <=> e \notin ToSet(p)
        BY <2>2 DEF MayGoOn
  <2>4. \A near : Longer(along, near) = Onward(near)
        BY <2>2, <2>3 DEF Longer
  <2> HIDE DEF Onward
  <2>5. \A g : Rounds("path", along, first, g, Nat) <=>
           g = [k \in Nat |-> IF k = 0 THEN first ELSE Longer(along, g[k - 1])]
        BY DEF Rounds, Round
  <2>6. \A g : [k \in Nat |-> IF k = 0 THEN first ELSE Longer(along, g[k - 1])] =
               [k \in Nat |-> IF k = 0 THEN first ELSE Onward(g[k - 1])]
        BY <2>4
  <2>7. \A g : Rounds("path", along, first, g, Nat) <=>
           g = [k \in Nat |-> IF k = 0 THEN first ELSE Onward(g[k - 1])]
        BY <2>5, <2>6
  <2>8. QED BY <2>1, <2>7
<1>2. NeoPaths(es, q) =
         {p \in UNION {paths[k] : k \in 1 .. AtLeastOne(q.max_hops)} : End(q.source, p) = q.target}
      BY DEF NeoPaths, PathsBy
<1> HIDE DEF paths
<1>3. QED BY <1>1, <1>2

\* What a path is: edges of the types, each from where the last one leads, and to a node or
\* along an edge that is new.
Whence(q, p, i) == IF i = 1 THEN q.source ELSE p[i - 1].target
New(q, simple, p, i) ==
    IF simple
    THEN p[i].target # q.source /\ \A j \in 1 .. i - 1 : p[j].target # p[i].target
    ELSE \A j \in 1 .. i - 1 : p[j] # p[i]
Leads(es, q, simple, p) ==
    /\ p \in Seq(es)
    /\ \A i \in 1 .. Len(p) :
          Typed(q.types, p[i]) /\ p[i].source = Whence(q, p, i) /\ New(q, simple, p, i)

\* A path goes on by one edge.
LEMMA GoesOn ==
    ASSUME NEW es, NEW q, NEW simple \in BOOLEAN, NEW r \in Seq(es), NEW e \in es
    PROVE  Leads(es, q, simple, Append(r, e)) <=>
              /\ Leads(es, q, simple, r)
              /\ Typed(q.types, e) /\ e.source = End(q.source, r)
              /\ MayGoOn(Routes(es, q, simple), r, e)
<1> DEFINE p == Append(r, e)
           n == Len(r)
           Links(s, i) == Typed(q.types, s[i]) /\ s[i].source = Whence(q, s, i) /\ New(q, simple, s, i)
<1>1. /\ p \in Seq(es) /\ Len(p) = n + 1 /\ n \in Nat /\ p[n + 1] = e
      /\ \A i \in 1 .. n : p[i] = r[i]
      BY AppendProperties
<1> HIDE DEF p
<1>2. ASSUME NEW i \in 1 .. n PROVE Links(p, i) <=> Links(r, i)
  <2>1. p[i] = r[i] /\ \A j \in 1 .. i - 1 : j \in 1 .. n /\ p[j] = r[j]
        BY <1>1
  <2>2. i # 1 => i - 1 \in 1 .. n /\ p[i - 1] = r[i - 1]
        BY <1>1
  <2>3. Whence(q, p, i) = Whence(q, r, i)
        BY <2>2 DEF Whence
  <2>4. New(q, simple, p, i) <=> New(q, simple, r, i)
        BY <2>1 DEF New
  <2>5. QED BY <2>1, <2>3, <2>4
<1>3. Whence(q, p, n + 1) = End(q.source, r)
  <2>1. CASE n = 0
    <3>1. r = <<>>
          BY <2>1, EmptySeq
    <3>2. QED BY <2>1, <3>1 DEF Whence, End
  <2>2. CASE n # 0
    <3>1. r # <<>> /\ n \in 1 .. n /\ n + 1 # 1 /\ (n + 1) - 1 = n
          BY <1>1, <2>2
    <3>2. p[n] = r[n]
          BY <1>1, <3>1
    <3>3. QED BY <3>1, <3>2 DEF Whence, End, Last
  <2>3. QED BY <2>1, <2>2
<1>4. New(q, simple, p, n + 1) <=> MayGoOn(Routes(es, q, simple), r, e)
  <2>1. (n + 1) - 1 = n /\ DOMAIN r = 1 .. n
        BY <1>1
  <2>2. Routes(es, q, simple).simple = simple /\ Routes(es, q, simple).source = q.source
        BY DEF Routes
  <2>3. CASE simple
    <3>1. MayGoOn(Routes(es, q, simple), r, e) <=> e.target \notin Visited(q.source, r)
          BY <2>2, <2>3 DEF MayGoOn
    <3>2. e.target \notin Visited(q.source, r) <=>
             e.target # q.source /\ \A j \in 1 .. n : r[j].target # e.target
          BY <2>1 DEF Visited
    <3>3. New(q, simple, p, n + 1) <=>
             e.target # q.source /\ \A j \in 1 .. n : p[j].target # e.target
          BY <1>1, <2>1, <2>3 DEF New
    <3>4. QED BY <1>1, <3>1, <3>2, <3>3
  <2>4. CASE ~simple
    <3>1. MayGoOn(Routes(es, q, simple), r, e) <=> e \notin ToSet(r)
          BY <2>2, <2>4 DEF MayGoOn
    <3>2. e \notin ToSet(r) <=> \A j \in 1 .. n : r[j] # e
          BY <2>1 DEF ToSet
    <3>3. New(q, simple, p, n + 1) <=> \A j \in 1 .. n : p[j] # e
          BY <1>1, <2>1, <2>4 DEF New
    <3>4. QED BY <1>1, <3>1, <3>2, <3>3
  <2>5. QED BY <2>3, <2>4
<1>5. Leads(es, q, simple, p) <=> \A i \in 1 .. n + 1 : Links(p, i)
      BY <1>1 DEF Leads
<1>6. Leads(es, q, simple, r) <=> \A i \in 1 .. n : Links(r, i)
      BY DEF Leads
<1>7. Links(p, n + 1) <=> /\ Typed(q.types, e) /\ e.source = End(q.source, r)
                         /\ MayGoOn(Routes(es, q, simple), r, e)
      BY <1>1, <1>3, <1>4
<1> HIDE DEF Links
<1>8. (\A i \in 1 .. n + 1 : Links(p, i)) <=> (\A i \in 1 .. n : Links(p, i)) /\ Links(p, n + 1)
  <2>1. 1 .. n + 1 = (1 .. n) \cup {n + 1}
        BY <1>1
  <2>2. QED BY <2>1
<1>9. QED BY <1>2, <1>5, <1>6, <1>7, <1>8 DEF p

AllLead(es, q, simple, paths) ==
    \A k \in Nat : \A p : p \in paths[k] <=> Leads(es, q, simple, p) /\ Len(p) = k

LEMMA PathsLead ==
    ASSUME NEW es, NEW q, NEW simple \in BOOLEAN, NEW paths,
           Rounds("path", Routes(es, q, simple), {<<>>}, paths, Nat)
    PROVE  AllLead(es, q, simple, paths)
<1> DEFINE along == Routes(es, q, simple)
           Says(k) == \A p : p \in paths[k] <=> Leads(es, q, simple, p) /\ Len(p) = k
           S == {k \in Nat : Says(k)}
<1>1. along.edges = es /\ along.types = q.types /\ along.source = q.source
      BY DEF Routes
<1>2. 0 \in S
  <2>1. paths[0] = {<<>>}
        BY DEF Rounds
  <2>2. Leads(es, q, simple, <<>>) /\ Len(<<>>) = 0
        BY EmptySeq DEF Leads
  <2>3. ASSUME NEW p, Leads(es, q, simple, p), Len(p) = 0 PROVE p = <<>>
        BY <2>3, EmptySeq DEF Leads
  <2>4. QED BY <2>1, <2>2, <2>3
<1>3. ASSUME NEW k \in Nat, k \in S PROVE k + 1 \in S
  <2>1. paths[k + 1] = Longer(along, paths[k])
    <3>1. k + 1 \in Nat /\ k + 1 # 0 /\ (k + 1) - 1 = k
          OBVIOUS
    <3>2. paths[k + 1] = Round("path", along, k + 1, paths[k])
          BY <3>1 DEF Rounds
    <3> HIDE DEF along
    <3>3. QED BY <3>2 DEF Round
  <2>2. Says(k)
        BY <1>3
  <2> HIDE DEF along
  <2>3. ASSUME NEW p \in paths[k + 1] PROVE Leads(es, q, simple, p) /\ Len(p) = k + 1
    <3>1. PICK x \in paths[k] \X es :
             /\ Typed(q.types, x[2]) /\ x[2].source = End(q.source, x[1])
             /\ MayGoOn(along, x[1], x[2]) /\ p = Append(x[1], x[2])
          BY <1>1, <2>1 DEF Longer
    <3>2. x[1] \in paths[k] /\ x[2] \in es
          OBVIOUS
    <3>3. Leads(es, q, simple, x[1]) /\ Len(x[1]) = k
          BY <2>2, <3>2
    <3>4. x[1] \in Seq(es)
          BY <3>3 DEF Leads
    <3>5. Len(p) = k + 1
          BY <3>1, <3>2, <3>3, <3>4, AppendProperties
    <3>6. Leads(es, q, simple, p)
          BY <3>1, <3>2, <3>3, <3>4, GoesOn DEF along
    <3>7. QED BY <3>5, <3>6
  <2>4. ASSUME NEW p, Leads(es, q, simple, p), Len(p) = k + 1 PROVE p \in paths[k + 1]
    <3>1. p \in Seq(es) /\ p # <<>>
          BY <2>4, EmptySeq DEF Leads
    <3>2. PICK r \in Seq(es), e \in es : p = Append(r, e)
          BY <3>1, SequenceEmptyOrAppend
    <3>3. Len(r) = k
      <4>1. Len(r) \in Nat /\ Len(p) = Len(r) + 1
            BY <3>2, AppendProperties
      <4>2. QED BY <2>4, <4>1
    <3>4. /\ Leads(es, q, simple, r) /\ Typed(q.types, e) /\ e.source = End(q.source, r)
          /\ MayGoOn(along, r, e)
          BY <2>4, <3>2, GoesOn DEF along
    <3>5. r \in paths[k]
          BY <2>2, <3>3, <3>4
    <3> DEFINE x == <<r, e>>
    <3>6. x \in paths[k] \X es /\ x[1] = r /\ x[2] = e
          BY <3>5
    <3> HIDE DEF x
    <3>7. QED BY <1>1, <2>1, <3>2, <3>4, <3>6 DEF Longer
  <2>5. QED BY <2>3, <2>4
<1>4. Nat \subseteq S
  <2> HIDE DEF S
  <2>1. QED BY <1>2, <1>3, AllNumbers
<1>5. QED BY <1>4 DEF AllLead

\* A path of one store is one of another that holds the same keys.
Place(p) == [i \in DOMAIN p |-> p[i].target]

Copies(r, p) == Len(r) = Len(p) /\ \A i \in 1 .. Len(p) : EdgeKey(r[i]) = EdgeKey(p[i])

LEMMA CopyLeads ==
    ASSUME NEW es, NEW ds, EdgeKeys(es) = EdgeKeys(ds), NEW p \in Seq(es)
    PROVE  \E r \in Seq(ds) : Copies(r, p) /\ Place(r) = Place(p)
<1>1. Len(p) \in Nat /\ DOMAIN p = 1 .. Len(p) /\ \A i \in 1 .. Len(p) : p[i] \in es
      OBVIOUS
<1>2. ASSUME NEW e \in es PROVE \E d \in ds : EdgeKey(d) = EdgeKey(e)
  <2>1. EdgeKey(e) \in EdgeKeys(es)
        BY DEF EdgeKeys
  <2>2. EdgeKey(e) \in EdgeKeys(ds)
        BY <2>1
  <2>3. QED BY <2>2 DEF EdgeKeys
<1> DEFINE Copy(e) == CHOOSE d \in ds : EdgeKey(d) = EdgeKey(e)
           r == [i \in 1 .. Len(p) |-> Copy(p[i])]
<1>3. \A e \in es : Copy(e) \in ds /\ EdgeKey(Copy(e)) = EdgeKey(e)
      BY <1>2
<1> HIDE DEF Copy
<1>4. r \in [1 .. Len(p) -> ds]
      BY <1>1, <1>3
<1>5. r \in Seq(ds) /\ Len(r) = Len(p) /\ DOMAIN r = 1 .. Len(p)
      BY <1>1, <1>4
<1>6. \A i \in 1 .. Len(p) : EdgeKey(r[i]) = EdgeKey(p[i])
      BY <1>1, <1>3
<1> HIDE DEF r
<1>7. \A i \in 1 .. Len(p) : r[i].target = p[i].target
      BY <1>6, KeysAreEnough
<1>8. Place(r) = Place(p)
      BY <1>1, <1>5, <1>7 DEF Place
<1>9. QED BY <1>5, <1>6, <1>8 DEF Copies

\* A path to new nodes, from the source, is one that comes to no node twice.
LEMMA SimpleIsInjective ==
    ASSUME NEW es, NEW q, NEW p \in Seq(es)
    PROVE  (\A i \in 1 .. Len(p) : New(q, TRUE, p, i)) <=> IsInjective(<<q.source>> \o Place(p))
<1> DEFINE n == Len(p)
           S == {q.source} \cup {p[i].target : i \in 1 .. n}
           s == <<q.source>> \o Place(p)
<1>1. n \in Nat /\ DOMAIN p = 1 .. n
      OBVIOUS
<1>2. Place(p) \in Seq(S) /\ Len(Place(p)) = n /\ \A i \in 1 .. n : Place(p)[i] = p[i].target
      BY <1>1 DEF Place
<1>3. <<q.source>> \in Seq(S) /\ Len(<<q.source>>) = 1 /\ <<q.source>>[1] = q.source
      OBVIOUS
<1> HIDE DEF S
<1>4. s \in Seq(S) /\ Len(s) = n + 1 /\ s[1] = q.source /\ \A i \in 1 .. n : s[i + 1] = p[i].target
  <2>1. /\ s \in Seq(S) /\ Len(s) = 1 + n
        /\ \A i \in 1 .. 1 + n :
              s[i] = IF i <= 1 THEN <<q.source>>[i] ELSE Place(p)[i - 1]
        BY <1>2, <1>3, ConcatProperties
  <2>2. 1 \in 1 .. 1 + n /\ \A i \in 1 .. n : i + 1 \in 1 .. 1 + n /\ ~(i + 1 <= 1) /\ (i + 1) - 1 = i
        BY <1>1
  <2> HIDE DEF s
  <2>3. QED BY <1>1, <1>2, <1>3, <2>1, <2>2
<1> HIDE DEF s, n
<1>5. DOMAIN s = 1 .. n + 1
      BY <1>4
<1>6. ASSUME IsInjective(s), NEW i \in 1 .. n PROVE New(q, TRUE, p, i)
  <2>1. 1 \in DOMAIN s /\ i + 1 \in DOMAIN s /\ i + 1 # 1
        BY <1>1, <1>5
  <2>2. p[i].target # q.source
        BY <1>4, <1>6, <2>1 DEF IsInjective
  <2>3. ASSUME NEW j \in 1 .. i - 1 PROVE p[j].target # p[i].target
    <3>1. j \in 1 .. n /\ j + 1 \in DOMAIN s /\ j + 1 # i + 1
          BY <1>1, <1>5
    <3>2. QED BY <1>4, <1>6, <2>1, <3>1 DEF IsInjective
  <2>4. QED BY <2>2, <2>3 DEF New
<1>7. ASSUME \A i \in 1 .. n : New(q, TRUE, p, i), NEW a \in 1 .. n + 1, NEW b \in 1 .. n + 1, a < b
      PROVE  s[a] # s[b]
  <2>1. b - 1 \in 1 .. n /\ (b - 1) + 1 = b
        BY <1>1, <1>7
  <2>2. s[b] = p[b - 1].target
        BY <1>4, <2>1
  <2>3. CASE a = 1
        BY <1>4, <1>7, <2>1, <2>2, <2>3 DEF New
  <2>4. CASE a # 1
    <3>1. a - 1 \in 1 .. n /\ (a - 1) + 1 = a /\ a - 1 \in 1 .. (b - 1) - 1
          BY <1>1, <1>7, <2>4
    <3>2. s[a] = p[a - 1].target
          BY <1>4, <3>1
    <3>3. QED BY <1>7, <2>1, <2>2, <3>1, <3>2 DEF New
  <2>5. QED BY <2>3, <2>4
<1>8. ASSUME \A i \in 1 .. n : New(q, TRUE, p, i) PROVE IsInjective(s)
  <2>1. ASSUME NEW a \in 1 .. n + 1, NEW b \in 1 .. n + 1, s[a] = s[b] PROVE a = b
    <3>1. ~(a < b) /\ ~(b < a)
          BY <1>7, <1>8, <2>1
    <3>2. QED BY <1>1, <3>1
  <2>2. QED BY <1>5, <2>1 DEF IsInjective
<1>9. QED BY <1>6, <1>8 DEF s, n

\* What is asked of a copy of a path, but for what is new
CopyLike(q, r, p) ==
    /\ End(q.source, r) = End(q.source, p)
    /\ \A i \in 1 .. Len(p) : /\ Typed(q.types, r[i]) <=> Typed(q.types, p[i])
                              /\ r[i].source = p[i].source /\ r[i].target = p[i].target
                              /\ Whence(q, r, i) = Whence(q, p, i)
                              /\ New(q, TRUE, r, i) <=> New(q, TRUE, p, i)

LEMMA CopyIs ==
    ASSUME NEW es, NEW ds, NEW q, NEW p \in Seq(es), NEW r \in Seq(ds), Copies(r, p)
    PROVE  CopyLike(q, r, p)
<1> DEFINE n == Len(p)
<1>1. n \in Nat /\ Len(r) = n
      BY DEF Copies
<1>2. \A i \in 1 .. n : /\ Typed(q.types, r[i]) <=> Typed(q.types, p[i])
                       /\ r[i].source = p[i].source /\ r[i].target = p[i].target
      BY KeysAreEnough DEF Copies
<1> HIDE DEF n
<1>3. ASSUME NEW i \in 1 .. n PROVE Whence(q, r, i) = Whence(q, p, i)
  <2>1. i # 1 => i - 1 \in 1 .. n
        BY <1>1
  <2>2. QED BY <1>2, <2>1 DEF Whence
<1>4. ASSUME NEW i \in 1 .. n PROVE New(q, TRUE, r, i) <=> New(q, TRUE, p, i)
  <2>1. \A j \in 1 .. i - 1 : j \in 1 .. n
        BY <1>1
  <2>2. QED BY <1>2, <2>1 DEF New
<1>5. End(q.source, r) = End(q.source, p)
  <2>1. CASE n = 0
    <3>1. p = <<>> /\ r = <<>>
          BY <1>1, <2>1, EmptySeq DEF n
    <3>2. QED BY <3>1
  <2>2. CASE n # 0
    <3>1. p # <<>> /\ r # <<>>
          BY <1>1, <2>2, EmptySeq DEF n
    <3>2. n \in 1 .. n
          BY <1>1, <2>2
    <3>3. End(q.source, p) = p[n].target /\ End(q.source, r) = r[n].target
          BY <1>1, <3>1 DEF End, Last, n
    <3>4. QED BY <1>2, <3>2, <3>3
  <2>3. QED BY <2>1, <2>2
<1>6. QED BY <1>2, <1>3, <1>4, <1>5 DEF n, CopyLike

\* So the paths of SQLite are the patterns that come to no node twice.
LEMMA PathsAreSimplePatterns ==
    ASSUME NEW es, NEW ds, EdgeKeys(es) = EdgeKeys(ds), NEW q, q.max_hops \in Nat
    PROVE  Places(SqlitePaths(ds, q)) =
              {p \in Places(NeoPaths(es, q)) :
                  Len(p) <= q.max_hops /\ IsInjective(<<q.source>> \o p)}
<1> DEFINE m == q.max_hops
           l == AtLeastOne(q.max_hops)
           rows == SqlitePaths(ds, q)
           patterns == NeoPaths(es, q)
<1>1. m \in Nat /\ l \in Nat /\ m <= l
      BY DEF AtLeastOne
<1>2. \A p : p \in rows <=> /\ Leads(ds, q, TRUE, p) /\ Len(p) \in 1 .. m
                           /\ End(q.source, p) = q.target
  <2>1. PICK paths : /\ Rounds("path", Routes(ds, q, TRUE), {<<>>}, paths, Nat)
                     /\ rows = {p \in UNION {paths[k] : k \in 1 .. m} : End(q.source, p) = q.target}
        BY SqlitePathsAre
  <2>2. \A k \in Nat : \A p : p \in paths[k] <=> Leads(ds, q, TRUE, p) /\ Len(p) = k
    <3>1. Rounds("path", Routes(ds, q, TRUE), {<<>>}, paths, Nat)
          BY <2>1
    <3>2. AllLead(ds, q, TRUE, paths)
          BY <3>1, PathsLead
    <3>3. QED BY <3>2 DEF AllLead
  <2> HIDE DEF rows, m
  <2>3. \A p : p \in rows <=> (\E k \in 1 .. m : p \in paths[k]) /\ End(q.source, p) = q.target
        BY <2>1
  <2>4. \A k \in 1 .. m : k \in Nat
        BY <1>1
  <2>5. \A p : (\E k \in 1 .. m : p \in paths[k]) <=>
                  Leads(ds, q, TRUE, p) /\ Len(p) \in 1 .. m
        BY <2>2, <2>4
  <2>6. QED BY <2>3, <2>5
<1>3. \A p : p \in patterns <=> /\ Leads(es, q, FALSE, p) /\ Len(p) \in 1 .. l
                               /\ End(q.source, p) = q.target
  <2>1. PICK paths : /\ Rounds("path", Routes(es, q, FALSE), {<<>>}, paths, Nat)
                     /\ patterns = {p \in UNION {paths[k] : k \in 1 .. l} :
                                        End(q.source, p) = q.target}
        BY NeoPathsAre
  <2>2. \A k \in Nat : \A p : p \in paths[k] <=> Leads(es, q, FALSE, p) /\ Len(p) = k
    <3>1. Rounds("path", Routes(es, q, FALSE), {<<>>}, paths, Nat)
          BY <2>1
    <3>2. AllLead(es, q, FALSE, paths)
          BY <3>1, PathsLead
    <3>3. QED BY <3>2 DEF AllLead
  <2> HIDE DEF patterns, l
  <2>3. \A p : p \in patterns <=> (\E k \in 1 .. l : p \in paths[k]) /\ End(q.source, p) = q.target
        BY <2>1
  <2>4. \A k \in 1 .. l : k \in Nat
        BY <1>1
  <2>5. \A p : (\E k \in 1 .. l : p \in paths[k]) <=>
                  Leads(es, q, FALSE, p) /\ Len(p) \in 1 .. l
        BY <2>2, <2>4
  <2>6. QED BY <2>3, <2>5
<1>4. \A paths, s : s \in Places(paths) <=> \E p \in paths : s = Place(p)
      BY DEF Places, Place
<1> HIDE DEF rows, patterns, m, l
<1>5. ASSUME NEW p \in rows
      PROVE  /\ Place(p) \in Places(patterns) /\ Len(Place(p)) <= m
             /\ IsInjective(<<q.source>> \o Place(p))
  <2> DEFINE n == Len(p)
  <2>1. /\ p \in Seq(ds) /\ n \in 1 .. m /\ End(q.source, p) = q.target
        /\ \A i \in 1 .. n : /\ Typed(q.types, p[i]) /\ p[i].source = Whence(q, p, i)
                             /\ New(q, TRUE, p, i)
        BY <1>2 DEF Leads
  <2>2. PICK r \in Seq(es) : Copies(r, p) /\ Len(r) = n /\ Place(r) = Place(p)
        BY <2>1, CopyLeads DEF Copies
  <2>3. /\ End(q.source, r) = q.target
        /\ \A i \in 1 .. n : /\ Typed(q.types, r[i]) /\ r[i].source = Whence(q, r, i)
                             /\ New(q, TRUE, r, i)
    <3>1. CopyLike(q, r, p)
          BY <2>1, <2>2, CopyIs
    <3>2. QED BY <2>1, <3>1 DEF CopyLike
  <2>4. \A i \in 1 .. n : New(q, FALSE, r, i)
        BY <2>3 DEF New
  <2>5. Leads(es, q, FALSE, r)
        BY <2>2, <2>3, <2>4 DEF Leads
  <2>6. r \in patterns
    <3>1. n \in 1 .. l
          BY <1>1, <2>1
    <3>2. QED BY <1>3, <2>2, <2>3, <2>5, <3>1
  <2>7. Place(p) \in Places(patterns)
        BY <1>4, <2>2, <2>6
  <2>8. Len(Place(p)) = n
        BY <2>1 DEF Place
  <2>9. IsInjective(<<q.source>> \o Place(p))
        BY <2>1, SimpleIsInjective
  <2>10. QED BY <1>1, <2>1, <2>7, <2>8, <2>9
<1>6. ASSUME NEW r \in patterns, Len(Place(r)) <= m, IsInjective(<<q.source>> \o Place(r))
      PROVE  Place(r) \in Places(rows)
  <2> DEFINE n == Len(r)
  <2>1. /\ r \in Seq(es) /\ n \in 1 .. l /\ End(q.source, r) = q.target
        /\ \A i \in 1 .. n : Typed(q.types, r[i]) /\ r[i].source = Whence(q, r, i)
        BY <1>3 DEF Leads
  <2>2. Len(Place(r)) = n
        BY <2>1 DEF Place
  <2>3. \A i \in 1 .. n : New(q, TRUE, r, i)
        BY <1>6, <2>1, SimpleIsInjective
  <2>4. PICK p \in Seq(ds) : Copies(p, r) /\ Len(p) = n /\ Place(p) = Place(r)
        BY <2>1, CopyLeads DEF Copies
  <2>5. /\ End(q.source, p) = q.target
        /\ \A i \in 1 .. n : /\ Typed(q.types, p[i]) /\ p[i].source = Whence(q, p, i)
                             /\ New(q, TRUE, p, i)
    <3>1. CopyLike(q, p, r)
          BY <2>1, <2>4, CopyIs
    <3>2. QED BY <2>1, <2>3, <3>1 DEF CopyLike
  <2>6. Leads(ds, q, TRUE, p)
        BY <2>4, <2>5 DEF Leads
  <2>7. n \in 1 .. m
        BY <1>1, <1>6, <2>1, <2>2
  <2>8. p \in rows
        BY <1>2, <2>4, <2>5, <2>6, <2>7
  <2>9. QED BY <1>4, <2>4, <2>8
<1>7. ASSUME NEW s \in Places(rows)
      PROVE  s \in Places(patterns) /\ Len(s) <= m /\ IsInjective(<<q.source>> \o s)
  <2>1. PICK p \in rows : s = Place(p)
        BY <1>4
  <2>2. QED BY <1>5, <2>1
<1>8. ASSUME NEW s \in Places(patterns), Len(s) <= m, IsInjective(<<q.source>> \o s)
      PROVE  s \in Places(rows)
  <2>1. PICK p \in patterns : s = Place(p)
        BY <1>4
  <2>2. QED BY <1>6, <1>8, <2>1
<1>9. QED BY <1>7, <1>8 DEF rows, patterns, m

\* Rows that differ in their keys are counted by their keys.
OneByOne(es) == \A d, e \in es : EdgeKey(d) = EdgeKey(e) => d = e

LEMMA CountsAreOfKeys ==
    ASSUME NEW es, IsFiniteSet(es), OneByOne(es)
    PROVE  Counts(es, LAMBDA e : e.type) = Counts(EdgeKeys(es), LAMBDA k : k[2])
<1> DEFINE keys == EdgeKeys(es)
           Rows(t) == {e \in es : e.type = t}
           Keys(t) == {k \in keys : k[2] = t}
<1>1. \A e \in es : EdgeKey(e) \in keys /\ EdgeKey(e)[2] = e.type
      BY DEF EdgeKeys, EdgeKey
<1>2. \A k \in keys : \E e \in es : k = EdgeKey(e)
      BY DEF EdgeKeys
<1> HIDE DEF keys
<1>3. ASSUME NEW t PROVE Cardinality(Rows(t)) = Cardinality(Keys(t))
  <2> DEFINE f == [e \in Rows(t) |-> EdgeKey(e)]
  <2>1. f \in [Rows(t) -> Keys(t)]
        BY <1>1
  <2>2. \A d, e \in Rows(t) : f[d] = f[e] => d = e
        BY DEF OneByOne
  <2>3. \A k \in Keys(t) : \E e \in Rows(t) : f[e] = k
    <3>1. ASSUME NEW k \in Keys(t) PROVE \E e \in Rows(t) : f[e] = k
      <4>1. PICK e \in es : k = EdgeKey(e)
            BY <1>2
      <4>2. e.type = t
            BY <1>1, <4>1
      <4>3. QED BY <4>1, <4>2
    <3>2. QED BY <3>1
  <2> HIDE DEF f
  <2>4. IsFiniteSet(Rows(t))
        BY FS_Subset
  <2> HIDE DEF Rows, Keys
  <2>5. f \in Bijection(Rows(t), Keys(t))
    <3>1. DOMAIN f = Rows(t)
          BY <2>1
    <3>2. IsInjective(f)
          BY <2>2, <3>1 DEF IsInjective
    <3>3. f \in Injection(Rows(t), Keys(t)) /\ f \in Surjection(Rows(t), Keys(t))
          BY <2>1, <2>3, <3>2 DEF Injection, Surjection
    <3>4. QED BY <3>3 DEF Bijection
  <2>6. QED BY <2>4, <2>5, FS_Bijection DEF ExistsBijection
<1>4. {e.type : e \in es} = {k[2] : k \in keys}
      BY <1>1, <1>2
<1> DEFINE types == {e.type : e \in es}
           seconds == {k[2] : k \in keys}
<1>5. Counts(es, LAMBDA e : e.type) = {<<t, Cardinality(Rows(t))>> : t \in types}
      BY DEF Counts
<1>6. Counts(keys, LAMBDA k : k[2]) = {<<t, Cardinality(Keys(t))>> : t \in seconds}
      BY DEF Counts
<1>7. types = seconds
      BY <1>4
<1> HIDE DEF Rows, Keys, types, seconds
<1>8. QED BY <1>3, <1>5, <1>6, <1>7 DEF keys

\* What the stores hold at any time: finitely many edges, and SQLite one row for each key.
StoresInv == IsFiniteSet(sqlite) /\ IsFiniteSet(neo) /\ OneByOne(sqlite)

LEMMA StoresInvInit == StoresInit => StoresInv
<1>1. SUFFICES ASSUME StoresInit PROVE StoresInv
      OBVIOUS
<1>2. sqlite = {} /\ neo = {}
      BY <1>1 DEF StoresInit
<1>3. QED BY <1>2, FS_EmptySet DEF StoresInv, OneByOne

LEMMA StoresInvNext == StoresInv /\ [StoresNext]_storesVars => StoresInv'
<1>1. SUFFICES ASSUME StoresInv, [StoresNext]_storesVars PROVE StoresInv'
      OBVIOUS
<1>2. IsFiniteSet(sqlite) /\ IsFiniteSet(neo) /\ OneByOne(sqlite)
      BY <1>1 DEF StoresInv
<1>3. CASE UpsertEdge
  <2>1. PICK e \in Written :
           /\ sqlite' = {d \in sqlite : EdgeKey(d) # EdgeKey(e)} \cup {e}
           /\ neo' = MergeNeo(neo, e)
        BY <1>3 DEF UpsertEdge
  <2>2. IsFiniteSet(sqlite')
    <3>1. IsFiniteSet({d \in sqlite : EdgeKey(d) # EdgeKey(e)})
          BY <1>2, FS_Subset
    <3>2. QED BY <2>1, <3>1, FS_AddElement
  <2>3. IsFiniteSet(neo')
    <3> DEFINE kept == {d \in neo : EdgeKey(d) # EdgeKey(e) \/ d.by # e.by}
               now == [e EXCEPT !.run = IF @ = Unlinked THEN Null ELSE @]
    <3>1. IsFiniteSet(kept)
          BY <1>2, FS_Subset
    <3>2. neo' = neo \/ neo' = kept \cup {now}
          BY <2>1 DEF MergeNeo
    <3> HIDE DEF kept, now
    <3>3. QED BY <1>2, <3>1, <3>2, FS_AddElement
  <2>4. OneByOne(sqlite')
        BY <1>2, <2>1 DEF OneByOne
  <2>5. QED BY <2>2, <2>3, <2>4 DEF StoresInv
<1>4. CASE UpsertNode
      BY <1>2, <1>4 DEF UpsertNode, StoresInv
<1>5. CASE DeleteByRun
  <2>1. sqlite' \subseteq sqlite /\ neo' \subseteq neo
        BY <1>5 DEF DeleteByRun
  <2>2. QED BY <1>2, <2>1, FS_Subset DEF StoresInv, OneByOne
<1>6. CASE MigrateToSqlite
  <2>1. /\ neo' = neo /\ sqlite' \subseteq neo
        /\ \A e \in neo : \E d \in sqlite' : {k \in sqlite' : EdgeKey(k) = EdgeKey(e)} = {d}
        BY <1>6 DEF MigrateToSqlite
  <2>2. IsFiniteSet(sqlite')
        BY <1>2, <2>1, FS_Subset
  <2>3. ASSUME NEW d \in sqlite', NEW e \in sqlite', EdgeKey(d) = EdgeKey(e) PROVE d = e
    <3>1. PICK k \in sqlite' : {j \in sqlite' : EdgeKey(j) = EdgeKey(e)} = {k}
          BY <2>1
    <3>2. d \in {j \in sqlite' : EdgeKey(j) = EdgeKey(e)} /\ e \in {j \in sqlite' : EdgeKey(j) = EdgeKey(e)}
          BY <2>3
    <3>3. QED BY <3>1, <3>2
  <2>4. QED BY <1>2, <2>1, <2>2, <2>3 DEF StoresInv, OneByOne
<1>7. CASE UNCHANGED storesVars
      BY <1>2, <1>7 DEF storesVars, StoresInv
<1>8. QED BY <1>1, <1>3, <1>4, <1>5, <1>6, <1>7 DEF StoresNext

LEMMA PatternsAre == StoresInv => PatternsAgree
<1>1. SUFFICES ASSUME StoresInv, EdgeKeys(neo) = EdgeKeys(sqlite) PROVE PatternsAgree
      BY DEF PatternsAgree
<1>2. ASSUME NEW q \in Neighbourhoods
      PROVE  LET patterns == NeoNeighbourhood(neo, q) IN
             SqliteNeighbourhood(sqlite, q) =
                {r \in patterns : r.node # q.node /\
                    \A s \in patterns : s.node = r.node => s.hops >= r.hops}
  <2>1. q.hops \in Nat \ {0}
    <3>1. q.hops \in 1 .. 3
          BY DEF Neighbourhoods
    <3>2. QED BY <3>1
  <2>2. QED BY <1>1, <2>1, WalksAreShortestTrails
<1>3. ASSUME NEW q \in BoundedPaths
      PROVE  Places(SqlitePaths(sqlite, q)) =
                {p \in Places(NeoPaths(neo, q)) :
                    Len(p) <= q.max_hops /\ IsInjective(<<q.source>> \o p)}
  <2>1. q.max_hops \in Nat
    <3>1. q.max_hops \in 0 .. 3
          BY DEF BoundedPaths
    <3>2. QED BY <3>1
  <2>2. QED BY <1>1, <2>1, PathsAreSimplePatterns
<1>4. Counts(sqlite, LAMBDA e : e.type) = Counts(EdgeKeys(sqlite), LAMBDA k : k[2])
      BY <1>1, CountsAreOfKeys DEF StoresInv
<1>5. Counts(sqlite, LAMBDA e : e.type) = Counts(EdgeKeys(neo), LAMBDA k : k[2])
      BY <1>1, <1>4
<1>6. QED BY <1>2, <1>3, <1>5 DEF PatternsAgree

\* PatternsAgree: SQLite's recursive query over walks (sqlite_store.py) and Neo4j's pattern
\* over trails (neo4j_store.py) find the same nodes, at the same least distances, and the
\* same paths without a cycle, and SQLite counts each edge once (migrate_to_sqlite too).
THEOREM PatternsAlwaysAgree == HostsSpec => []PatternsAgree
<1>1. QED BY HostsAreParts, StoresInvInit, StoresInvNext, PatternsAre, PTL

=================================================================================
