------------------------------- MODULE Worlds -------------------------------
(* World snapshots (world.py): the layers of the surroundings of a site, built *)
(* by providers that fail or fall back, reused from the latest world where     *)
(* they still fit, stored by the hash of their content; and the elevations     *)
(* that a scene takes from the terrain of its world.                           *)
EXTENDS Integers, FiniteSets, Sequences, Functions

CONSTANTS Snapshots, ParcelOf,  \* site snapshots, and the parcel of each
          Buffers, Releases,    \* buffers in metres, Overture releases
          Objects,              \* proposed objects of a scene
          MaxWorlds

VARIABLES worlds,   \* stored world snapshots, oldest first
          request,  \* create() that awaits its providers, or none
          last,     \* what the last create() was given and returned
          scene
worldVars == <<worlds, request, last, scene>>

NoRequest == [status |-> "none"]
NoResult == [request |-> NoRequest]
NoWorld == 0
Optional == {"buildings", "water", "land_cover"}
Overture == Optional \cup {"roads"}
Pyramid == 2  \* TERRAIN_TILE_PYRAMID_VERSION; worlds of an older program have 1
Unavailable == [available |-> FALSE]
NoLayers == [l \in {} |-> Unavailable]
Aoi(s, b) == <<ParcelOf[s], b>>

-----------------------------------------------------------------------------
\* USGSTerrainProvider: what the catalogue, the products and the export give.
\* The first choice is the 1 m product, or with prefer_1m = False the 10 m one.
\* A 1 m product too large or with holes is given up for the 10 m one; an export
\* that fails is not made up for.  With no catalogue the export is used, datum
\* unknown.
Discovered(src, prefer, forced) ==
  LET found == src.products \cap IF forced THEN {10} ELSE {1, 10}
      first == IF prefer THEN 1 ELSE 10
  IN IF ~src.catalog THEN 10
     ELSE IF found = {} THEN 0
     ELSE IF first \in found THEN first ELSE CHOOSE m \in found : TRUE
Attempt(src, prefer, forced) ==
  LET m == Discovered(src, prefer, forced) IN
    IF m = 1 /\ src.downloads THEN IF src.large \/ 1 \in src.holes THEN "again" ELSE "fine"
    ELSE IF m = 10 /\ src.exports /\ 10 \notin src.holes THEN "coarse" ELSE "failed"
Terrain(src, prefer) ==
  IF Attempt(src, prefer, FALSE) = "again" THEN Attempt(src, prefer, TRUE) ELSE Attempt(src, prefer, FALSE)
BuildTerrain(src, prefer, aoi) ==
  LET found == Terrain(src, prefer) IN
    IF found = "failed" THEN Unavailable
    ELSE [available |-> TRUE, builtFor |-> aoi, version |-> Pyramid,
          datum |-> src.catalog /\ (IF found = "fine" THEN 1 ELSE 10) \in src.dated]

\* The Overture providers: a release and an area, or a failure or time out.
BuildOverture(layer, src, aoi, release) ==
  IF layer \in src.up THEN [available |-> TRUE, builtFor |-> aoi, release |-> release] ELSE Unavailable

-----------------------------------------------------------------------------
LatestOf(indices) == CHOOSE i \in indices : \A j \in indices : j <= i
\* The layers of the latest world of the snapshot, or if it has none of any
\* other, where the area is the same.
SameAoi_Parcel(world, aoi) == world.aoi[1] = aoi[1]
SameAoi(world, aoi) == world.aoi = aoi
Existing(s, aoi) ==
  LET own == {i \in DOMAIN worlds : worlds[i].snapshot = s}
      alike == {i \in DOMAIN worlds : worlds[i].aoi = aoi}
      from == IF own /= {} THEN own ELSE alike IN
    IF from /= {} /\ SameAoi(worlds[LatestOf(from)], aoi) THEN worlds[LatestOf(from)].layers ELSE NoLayers

\* create, up to its first await.
BeginWorld(s, b, layers, prefer, release) ==
  /\ request = NoRequest /\ Len(worlds) < MaxWorlds
  /\ request' = [status |-> "building", snapshot |-> s, aoi |-> Aoi(s, b), layers |-> layers,
                 prefer |-> prefer, release |-> release, existing |-> Existing(s, Aoi(s, b))]
  /\ UNCHANGED <<worlds, last, scene>>

ReusableTerrain(r) == "terrain" \in DOMAIN r.existing /\ r.existing["terrain"].available
                      /\ r.existing["terrain"].version = Pyramid
Reusable_Failed(r, layer) == layer \in DOMAIN r.existing /\ (r.existing[layer].available => r.existing[layer].release = r.release)
Reusable(r, layer) == /\ layer \in DOMAIN r.existing /\ r.existing[layer].available
                      /\ r.existing[layer].release = r.release
BuiltLayers(r, src) ==
  [layer \in r.layers |->
     CASE layer = "terrain" -> IF ReusableTerrain(r) THEN r.existing[layer] ELSE BuildTerrain(src, r.prefer, r.aoi)
       [] layer \in Overture -> IF Reusable(r, layer) THEN r.existing[layer]
                                ELSE BuildOverture(layer, src, r.aoi, r.release)
       [] layer = "transmission" -> Unavailable]

\* ... and from its last one: a world of the same content is stored already.
FinishWorld(src) ==
  /\ request /= NoRequest
  /\ LET world == [snapshot |-> request.snapshot, aoi |-> request.aoi, layers |-> BuiltLayers(request, src)] IN
       /\ worlds' = IF world \in Range(worlds) THEN worlds ELSE Append(worlds, world)
       /\ last' = [request |-> request, sources |-> src, world |-> world]
  /\ request' = NoRequest
  /\ UNCHANGED scene

-----------------------------------------------------------------------------
\* anchor_scene, when a scenario is stored with the objects it then has.
Anchors_NewOnly(placed, w) ==
  [o \in placed |-> IF o \in DOMAIN scene.anchors /\ scene.anchors[o] /= NoWorld THEN scene.anchors[o] ELSE w]
Anchors(placed, w) == [o \in placed |-> w]
Kept(placed) == [o \in placed |-> IF o \in DOMAIN scene.anchors THEN scene.anchors[o] ELSE NoWorld]
AnchorScene(placed, w) ==
  LET layers == worlds[w].layers IN
    /\ worlds[w].snapshot = scene.snapshot /\ "terrain" \in DOMAIN layers
    /\ scene' = IF layers["terrain"].available /\ layers["terrain"].datum
                THEN [scene EXCEPT !.world = w, !.status = "DERIVED", !.anchors = Anchors(placed, w)]
                ELSE [scene EXCEPT !.world = w, !.status = "UNRESOLVED", !.anchors = Kept(placed)]
    /\ UNCHANGED <<worlds, request, last>>

WorldInit(stored) ==
  /\ worlds \in stored
  /\ request = NoRequest /\ last = NoResult
  /\ scene \in [snapshot : Snapshots, world : {NoWorld}, status : {"none"}, anchors : {[o \in {} |-> NoWorld]}]
WorldNext(wanted, sources) ==
  \/ \E s \in Snapshots, b \in Buffers, layers \in wanted, prefer \in BOOLEAN, release \in Releases :
       BeginWorld(s, b, layers, prefer, release)
  \/ \E src \in sources : FinishWorld(src)
  \/ \E w \in DOMAIN worlds, placed \in (SUBSET Objects) \ {{}} : AnchorScene(placed, w)

-----------------------------------------------------------------------------
\* Whatever was reused, every layer of a world that was returned covers the
\* area that was asked for, and the Overture layers are all of one release.
LayersFitTogether ==
  last /= NoResult =>
    \A l \in last.request.layers :
      last.world.layers[l].available =>
        /\ last.world.layers[l].builtFor = last.request.aoi
        /\ l \in Overture => last.world.layers[l].release = last.request.release

\* A layer that some source can give is there: a failure of an earlier world is
\* not kept, and terrain falls back from 1 m to 10 m to the bare export.  Only a
\* request that asks for 10 m first is not given the 1 m product instead.
OneMetre(src) == src.catalog /\ 1 \in src.products /\ ~src.large /\ 1 \notin src.holes
TenMetres(src) == src.exports /\ 10 \notin src.holes /\ (src.catalog => 10 \in src.products)
TerrainCanBeHad(src, prefer) == TenMetres(src) \/ (OneMetre(src) /\ (prefer \/ 10 \notin src.products))
FailuresAreNotKept ==
  last /= NoResult =>
    \A l \in last.request.layers :
      \/ l \in last.sources.up
      \/ l = "terrain" /\ last.sources.downloads /\ TerrainCanBeHad(last.sources, last.request.prefer)
      => last.world.layers[l].available

\* Derived elevations are those of the world the scene is in, for every object
\* of the scene, and that world knows what its elevations refer to.
ElevationsAreOfTheirWorld ==
  scene.status = "DERIVED" =>
    /\ worlds[scene.world].layers["terrain"].datum
    /\ \A o \in DOMAIN scene.anchors : scene.anchors[o] = scene.world
=============================================================================
