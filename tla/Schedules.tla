----------------------------- MODULE Schedules ------------------------------
(* The static schedules of one agency: the catalog MobilityDatabase keeps  *)
(* of its datasets, the reference marts pipeline/gtfs.py writes once per   *)
(* content of a dataset and the manifest that says which one a day uses    *)
(* (with analysis/gtfs_fetcher.py, its resolver), and their copy in        *)
(* PostGIS (pipeline/postgis_sync.py over pipeline/sql/postgis_schema.sql).*)
(*                                                                         *)
(* A run of gtfs.py may die between any two files; the next one goes on    *)
(* from what is on disk.  A sync starts when no gtfs.py runs: it "only     *)
(* depends on gtfs.py having already run", to its end or not.              *)
EXTENDS StaticSchedule

CONSTANTS FeedScopes,    \* the scopes of the agency's feeds in the archive, in order
          ArchiveOf,     \* content hash -> the archive
          ServiceDates,
          Spans,         \* the validity a dataset may have, <<first day, last day>>
          MaxCrawls,     \* datasets the catalog gains
          MaxRuns,       \* runs of gtfs.py
          MaxDeaths,     \* runs that die or lose the catalog or the archive
          MaxSyncs       \* versions synced to PostGIS

\* A feed is its place among the feeds of a run.
GtfsFeeds == DOMAIN FeedScopes
Hashes == DOMAIN ArchiveOf

ASSUME SchedulesAssumption ==
  /\ GtfsFeeds \subseteq Nat
  /\ ServiceDates \subseteq Nat
  /\ Spans \subseteq Nat \X Nat
  /\ MaxCrawls \in Nat
  /\ \A h \in Hashes : DOMAIN ArchiveOf[h].routes \subseteq Nat

VARIABLES catalog,       \* the datasets, with when each was crawled
          run,           \* the gtfs.py process
          zips,          \* the archives in the local cache, by version
          marts,         \* <<mart, feed, version>> -> the archive and scope it was built from
          manifest,      \* <<feed, day>> -> the dataset the day uses
          database,      \* PostGIS: what is stored per <<feed, version>>, and per day
          history        \* what the runs did: deaths, forced runs, builds per content

schedulesVars == <<catalog, run, zips, marts, manifest, database, history>>

VersionMarts == <<"gtfs_stops", "gtfs_routes", "gtfs_route_aliases", "gtfs_calendar",
                  "gtfs_calendar_dates", "gtfs_shapes", "gtfs_route_patterns",
                  "gtfs_directions", "gtfs_checkpoints", "route_shapes", "route_shape_stops">>

Datasets == [start : {s[1] : s \in Spans}, end : {s[2] : s \in Spans}, crawled : 1..MaxCrawls,
             hash : Hashes \cup {Absent}]

\* Mutant of VersionSlug: each crawl is a version.
VersionSlugOfCrawl(snap) == snap.crawled

\* The identity of a snapshot is its content, not when it was crawled.
VersionSlug(snap) == snap.hash

Resting == [phase |-> "rest", force |-> FALSE, jobs |-> {}, memo |-> {},
            loaded |-> {}, written |-> {}, snap |-> Absent, next |-> 1]

SchedulesInit ==
  /\ catalog = {} /\ run = Resting /\ zips = {}
  /\ marts = <<>> /\ manifest = <<>>
  /\ database = [rows |-> <<>>, days |-> <<>>, rejected |-> FALSE, fresh |-> {}]
  /\ history = [runs |-> 0, deaths |-> 0, forced |-> 0, syncs |-> 0,
                built |-> [f \in GtfsFeeds |-> [h \in Hashes |-> 0]]]

-----------------------------------------------------------------------------
(* MobilityDatabase and the resolver                                        *)

\* A crawl lists one more dataset, of the same content as before or not.  A run
\* looks at the catalog once, so a crawl beside it is one before or after it.
Crawl ==
  /\ run.phase = "rest"
  /\ Cardinality(catalog) < MaxCrawls
  /\ \E d \in Datasets :
       /\ <<d.start, d.end>> \in Spans /\ d.crawled = Cardinality(catalog) + 1
       /\ catalog' = catalog \cup {d}
  /\ UNCHANGED <<run, zips, marts, manifest, database, history>>

\* Mutant of FetchCatalog: a dataset without a hash is kept.
FetchCatalogUnhashed ==
  /\ run.phase = "fetch" /\ run.jobs # {}
  /\ run' = [run EXCEPT !.phase = "resolve", !.memo = catalog]
  /\ UNCHANGED <<catalog, zips, marts, manifest, database, history>>

\* A dataset without a hash has no identity and is dropped.
FetchCatalog ==
  /\ run.phase = "fetch" /\ run.jobs # {}
  /\ run' = [run EXCEPT !.phase = "resolve", !.memo = {d \in catalog : d.hash # Absent}]
  /\ UNCHANGED <<catalog, zips, marts, manifest, database, history>>

\* The schedule in effect on a day: the latest starting one, then the latest crawled.
Eligible(datasets, day) == {d \in datasets : d.start <= day /\ day <= d.end}

PickSnapshot(datasets, day) ==
  CHOOSE d \in Eligible(datasets, day) :
    \A e \in Eligible(datasets, day) :
      e.start < d.start \/ (e.start = d.start /\ e.crawled <= d.crawled)

\* Mutant of LoadedKey: the resolver forgets the scope.
LoadedKeyUnscoped(slug, scope) == slug

LoadedKey(slug, scope) == <<slug, scope>>

-----------------------------------------------------------------------------
(* One run of gtfs.py over the agency's feeds and days                      *)

Job == Earliest(run.jobs)
Feed == Job[1]
Slug == VersionSlug(run.snap)

Put(f, keys, value) == [k \in DOMAIN f \cup keys |-> IF k \in keys THEN value ELSE f[k]]

VersionPaths(feed, slug) == {<<VersionMarts[i], feed, slug>> : i \in DOMAIN VersionMarts}

OnDisk(feed, slug) == VersionPaths(feed, slug) \subseteq DOMAIN marts

StartRun ==
  /\ run.phase = "rest" /\ history.runs < MaxRuns
  /\ \E force \in BOOLEAN, jobs \in SUBSET (GtfsFeeds \X ServiceDates) :
       /\ run' = [Resting EXCEPT !.phase = "fetch", !.force = force, !.jobs = jobs]
       /\ history' = [history EXCEPT !.runs = @ + 1, !.forced = IF force THEN @ + 1 ELSE @]
  /\ UNCHANGED <<catalog, zips, marts, manifest, database>>

\* The catalog or the archive cannot be had: the agency's other days and feeds
\* are skipped.  Any other death of the process loses as much.
RunEndsEarly ==
  /\ run.phase # "rest" /\ history.deaths < MaxDeaths
  /\ run' = Resting
  /\ history' = [history EXCEPT !.deaths = @ + 1]
  /\ UNCHANGED <<catalog, zips, marts, manifest, database>>

\* No dataset covers the day: it is skipped.
SkipDay ==
  /\ run.phase = "resolve" /\ run.jobs # {}
  /\ Eligible(run.memo, Job[2]) = {}
  /\ run' = [run EXCEPT !.jobs = @ \ {Job}]
  /\ UNCHANGED <<catalog, zips, marts, manifest, database, history>>

\* Mutant of MustBuild: a day of the manifest is taken for a version.
MustBuildUnlessManifested(feed, slug) ==
  /\ <<feed, slug>> \notin run.written
  /\ run.force \/ \A d \in ServiceDates : <<feed, d>> \notin DOMAIN manifest

\* The version is built unless this run built it or an earlier one left every
\* mart of it on disk.
MustBuild(feed, slug) == <<feed, slug>> \notin run.written /\ (run.force \/ ~OnDisk(feed, slug))

Resolve ==
  /\ run.phase = "resolve" /\ run.jobs # {}
  /\ Eligible(run.memo, Job[2]) # {}
  /\ LET snap == PickSnapshot(run.memo, Job[2])
         build == MustBuild(Feed, VersionSlug(snap))
     IN run' = [run EXCEPT !.snap = snap, !.next = 1,
                  !.phase = IF build THEN "load" ELSE "manifest",
                  !.written = IF build THEN @ ELSE @ \cup {<<Feed, VersionSlug(snap)>>}]
  /\ UNCHANGED <<catalog, zips, marts, manifest, database, history>>

\* The archive is downloaded unless cached, and parsed unless this resolver
\* has it under the same scope.
ForDate ==
  /\ run.phase = "load"
  /\ LET key == LoadedKey(Slug, FeedScopes[Feed])
     IN /\ run' = [run EXCEPT !.phase = "marts",
                     !.loaded = IF \E l \in @ : l.key = key THEN @
                                ELSE @ \cup {[key |-> key, hash |-> run.snap.hash,
                                              scope |-> FeedScopes[Feed]]}]
        /\ zips' = IF \E l \in run.loaded : l.key = key THEN zips ELSE zips \cup {Slug}
  /\ UNCHANGED <<catalog, marts, manifest, database, history>>

\* One mart after the other, each renamed into place whole.
WriteMart ==
  /\ run.phase = "marts"
  /\ LET path == <<VersionMarts[run.next], Feed, Slug>>
         last == run.next = Len(VersionMarts)
         gtfs == CHOOSE l \in run.loaded : l.key = LoadedKey(Slug, FeedScopes[Feed])
     IN /\ marts' = Put(marts, {path}, [hash |-> gtfs.hash, scope |-> gtfs.scope])
        /\ run' = [run EXCEPT !.next = @ + 1,
                     !.phase = IF last THEN "manifest" ELSE "marts",
                     !.written = IF last THEN @ \cup {<<Feed, Slug>>} ELSE @]
        /\ history' = IF last THEN [history EXCEPT !.built[Feed][Slug] = @ + 1]
                      ELSE history
        /\ database' = [database EXCEPT !.fresh = {v \in @ : v[1] # Feed}]
  /\ UNCHANGED <<catalog, zips, manifest>>

\* Which dataset the day uses, written last and kept unless forced.
WriteManifest ==
  /\ run.phase = "manifest"
  /\ LET write == run.force \/ Job \notin DOMAIN manifest
     IN /\ manifest' = IF write THEN Put(manifest, {Job}, run.snap) ELSE manifest
        /\ database' = IF write THEN [database EXCEPT !.fresh = {v \in @ : v[1] # Feed}]
                       ELSE database
  /\ run' = [run EXCEPT !.phase = "resolve", !.jobs = @ \ {Job}, !.snap = Absent]
  /\ UNCHANGED <<catalog, zips, marts, history>>

FinishRun ==
  /\ run.phase \in {"fetch", "resolve"} /\ run.jobs = {}
  /\ run' = Resting
  /\ UNCHANGED <<catalog, zips, marts, manifest, database, history>>

-----------------------------------------------------------------------------
(* The copy in PostGIS                                                      *)

\* What every mart holds when it is built from an archive under a scope.
Built == [mart \in Range(VersionMarts) |-> [h \in Hashes |-> [f \in GtfsFeeds |->
            RowBuilder(mart, ArchiveOf[h], FeedScopes[f])]]]

\* The rows of a mart on disk; a missing file reads as no rows.
ReadMart(mart, feed, slug) ==
  IF <<mart, feed, slug>> \notin DOMAIN marts
  THEN IF mart \in {"route_shapes", "route_shape_stops"} THEN {} ELSE <<>>
  ELSE LET from == marts[<<mart, feed, slug>>]
       IN Built[mart][from.hash][CHOOSE f \in GtfsFeeds : FeedScopes[f] = from.scope]

AliasKey(row) == <<row.alias_type, row.alias_token>>

\* Mutant of InsertCrosswalk: the last row of a key stays.
InsertCrosswalkLast(aliases) ==
  [key \in {AliasKey(r) : r \in Range(aliases)} |->
     aliases[LatestPair({p \in DOMAIN aliases : AliasKey(aliases[p]) = key})].route_id]

\* ON CONFLICT DO NOTHING: the first row of a key stays.
InsertCrosswalk(aliases) ==
  [key \in {AliasKey(r) : r \in Range(aliases)} |->
     aliases[Earliest({p \in DOMAIN aliases : AliasKey(aliases[p]) = key})].route_id]

\* Only the stops with a place, only the lines of two points or more.
Insert(feed, slug) ==
  [routes    |-> {r.route_id : r \in Range(ReadMart("gtfs_routes", feed, slug))},
   stops     |-> {s.stop_id : s \in Range(Complete(ReadMart("gtfs_stops", feed, slug),
                                                   {"stop_lat", "stop_lon"}))},
   crosswalk |-> InsertCrosswalk(ReadMart("gtfs_route_aliases", feed, slug)),
   shapes    |-> ReadMart("route_shapes", feed, slug),
   offsets   |-> ReadMart("route_shape_stops", feed, slug)]

\* The foreign keys of the schema.
ForeignKeysHold(rows) ==
  /\ \A key \in DOMAIN rows.crosswalk : rows.crosswalk[key] \in rows.routes
  /\ \A o \in rows.offsets : <<o[1], o[2]>> \in rows.shapes /\ o[3] \in rows.stops

AlreadySynced(feed, slug) ==
  <<feed, slug>> \in DOMAIN database.rows /\ database.rows[<<feed, slug>>].routes # {}

DaysOf(feed, slug) == {j \in DOMAIN manifest : j[1] = feed /\ VersionSlug(manifest[j]) = slug}

\* Mutant of UpsertVersions: a day keeps the version it had.
InsertNewVersions(days, feed, slug) == Put(days, DaysOf(feed, slug) \ DOMAIN days, slug)

UpsertVersions(days, feed, slug) == Put(days, DaysOf(feed, slug), slug)

\* Deleted and written again in one transaction, with the days that use it.
SyncFeedVersion ==
  /\ run.phase = "rest" /\ history.syncs < MaxSyncs
  /\ history' = [history EXCEPT !.syncs = @ + 1]
  /\ \E feed \in GtfsFeeds, force \in BOOLEAN, path \in DOMAIN marts :
       /\ path[1] = "gtfs_stops" /\ path[2] = feed
       /\ force \/ ~AlreadySynced(feed, path[3])
       /\ LET rows == Insert(feed, path[3])
          IN database' = IF ForeignKeysHold(rows)
                         THEN [database EXCEPT !.rows = Put(@, {<<feed, path[3]>>}, rows),
                                 !.days = UpsertVersions(@, feed, path[3]),
                                 !.fresh = @ \cup {<<feed, path[3]>>}]
                         ELSE [database EXCEPT !.rejected = TRUE]
  /\ UNCHANGED <<catalog, run, zips, marts, manifest>>

SchedulesNext ==
  \/ Crawl \/ FetchCatalog \/ StartRun \/ RunEndsEarly \/ SkipDay \/ Resolve
  \/ ForDate \/ WriteMart \/ WriteManifest \/ FinishRun \/ SyncFeedVersion

SchedulesSpec == SchedulesInit /\ [][SchedulesNext]_schedulesVars

-----------------------------------------------------------------------------

\* The types of catalog, marts, manifest and database.
SchedulesTypeOK ==
  /\ catalog \subseteq Datasets
  /\ run.phase \in {"rest", "fetch", "resolve", "load", "marts", "manifest"}
  /\ run.memo \subseteq catalog
  /\ run.written \subseteq GtfsFeeds \X Hashes
  /\ zips \subseteq Hashes
  /\ DOMAIN marts \subseteq Range(VersionMarts) \X GtfsFeeds \X Hashes
  /\ DOMAIN manifest \subseteq GtfsFeeds \X ServiceDates
  /\ DOMAIN database.rows \subseteq GtfsFeeds \X Hashes

(* A day's manifest never names a version some reference mart of which is   *)
(* not on disk, however many runs died while they wrote.                    *)
ManifestBacked ==
  \A j \in DOMAIN manifest : OnDisk(j[1], VersionSlug(manifest[j]))

(* A content is built once per feed however often it is crawled again and   *)
(* however many days use it; only a forced run builds it again.             *)
BuiltOncePerContent ==
  \A f \in GtfsFeeds, h \in Hashes : history.built[f][h] <= 1 + history.forced

(* A mart holds the rows of its own feed's operator and of its own version, *)
(* also when a feed of the same agency loaded the archive before it.        *)
MartsAreScoped ==
  \A path \in DOMAIN marts :
    marts[path].scope = FeedScopes[path[2]] /\ marts[path].hash = path[3]

(* A sync never violates a foreign key, whatever part of a version a run    *)
(* that died left on disk: each mart is written after those it refers to.   *)
SyncNeverRejected == ~database.rejected

(* When the version a day uses was synced since the last write to the      *)
(* feed's marts, PostGIS says of the day what the manifest says, whatever   *)
(* it said before.                                                          *)
SyncedMirrorsManifest ==
  \A j \in DOMAIN manifest :
    <<j[1], VersionSlug(manifest[j])>> \in database.fresh
      => j \in DOMAIN database.days /\ database.days[j] = VersionSlug(manifest[j])

Indexes ==
  [f \in GtfsFeeds |-> [h \in Hashes |-> RouteShortNames(ArchiveOf[h], FeedScopes[f])]]

(* The crosswalk resolves a display name to the route the archive's own     *)
(* keep-first index gives it.                                               *)
CrosswalkMatchesIndex ==
  \A v \in DOMAIN database.rows :
    LET crosswalk == database.rows[v].crosswalk
        index == Indexes[v[1]][v[2]]
        Lookup(name) == IF <<"short_name", name>> \in DOMAIN crosswalk
                        THEN crosswalk[<<"short_name", name>>]
                        ELSE crosswalk[<<"long_name", name>>]
    IN DOMAIN crosswalk # {} =>
         \A name \in DOMAIN index : Lookup(name) = index[name]

(* gtfs.py, postgis_sync.py: through crawls that die, are forced or         *)
(* repeated, and syncs that fail, the manifest only names what was built,   *)
(* each content is built once, and the database follows manifest and index. *)
SchedulesSound ==
  /\ SchedulesTypeOK
  /\ ManifestBacked
  /\ BuiltOncePerContent
  /\ MartsAreScoped
  /\ SyncNeverRejected
  /\ SyncedMirrorsManifest
  /\ CrosswalkMatchesIndex
=============================================================================
