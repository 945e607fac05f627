------------------------------ MODULE Analysis ------------------------------
(***************************************************************************)
(* The analysis of suspicious media (services/ai.py, the routes of main.py *)
(* and the detection cycle of services/pipeline.py) by concurrent          *)
(* handlers, while others register media: the search for the best match,   *)
(* with its index of the registered pictures, the public sightings, and    *)
(* the bounded cache of reports.                                           *)
(*                                                                         *)
(* Handlers run in threads that may be switched at any call and any turn   *)
(* of a loop.  Walking a dict to which another thread adds raises an       *)
(* exception, which ends the handler with a 500.                           *)
(***************************************************************************)
EXTENDS Matching, SequencesExt

CONSTANTS
    Thread,         \* threads that run handlers
    Originals,      \* the media that owners register
    Probes,         \* the media that are analysed or seen in public
    None,           \* stands for no registration and no report
    Limit,          \* ANALYSIS_CACHE_LIMIT
    Confirmed,      \* match_threshold, in tenths of a percent
    Review,         \* review_threshold
    MaxRegs,        \* bound on the registrations
    MaxSightings,   \* bound on the sightings
    MaxAnalyses     \* bound on the analyses

ASSUME AnalysisAssumption ==
    /\ IsFiniteSet(Thread) /\ Thread # {}
    /\ Originals \subseteq Media /\ Probes \subseteq Media
    /\ None \notin Media
    /\ Limit \in Nat \ {0}
    /\ Confirmed \in 0 .. 1000 /\ Review \in 0 .. Confirmed
    /\ {MaxRegs, MaxSightings, MaxAnalyses} \subseteq Nat

VARIABLES
    regs,        \* the registrations, oldest first
    sightings,   \* store.crawler_index: the media seen in public
    index,       \* _img_index and _img_index_key
    cache,       \* analysis_cache: identifiers of reports, oldest first
    stored,      \* reports that were put into the cache
    incidents,   \* incidents opened
    served,      \* analyses begun
    pc,          \* pc[t]: the next step of thread t
    job          \* job[t]: the local variables of its handler

vars == <<regs, sightings, index, cache, stored, incidents, served, pc, job>>

store == <<regs, sightings>>
reports == <<cache, stored>>

NoJob == [id |-> 0, route |-> "none", probe |-> None, since |-> 0, key |-> 0,
          size |-> 0, pictures |-> {}, best |-> 0, score |-> 0,
          urls |-> {}, victim |-> None]

Goto(t, step) == pc' = [pc EXCEPT ![t] = step]
End(t) == Goto(t, "idle") /\ job' = [job EXCEPT ![t] = NoJob]

IsPicture(m) == Hashes[m].kind = "image"
Probe(t) == job[t].probe
ScoreOf(t, m) == Score[Probe(t)][m]

-----------------------------------------------------------------------------
(* Reports of earlier analyses may be in the cache: their identifiers are  *)
(* negative.                                                               *)
Init ==
    /\ regs = <<>>
    /\ sightings = {}
    /\ index = [key |-> -1, pictures |-> {}]
    /\ stored \in 0 .. Limit
    /\ cache = [n \in 1 .. stored |-> -n]
    /\ incidents = {}
    /\ served = 0
    /\ pc = [t \in Thread |-> "idle"]
    /\ job = [t \in Thread |-> NoJob]

(* Another handler registers a medium.                                     *)
Register(m) ==
    /\ Len(regs) < MaxRegs
    /\ regs' = Append(regs, m)
    /\ UNCHANGED <<sightings, index, reports, incidents, served, pc, job>>

(* index_public_media: a sighting joins the public index.                  *)
Sight(m) ==
    /\ m \notin sightings
    /\ Cardinality(sightings) < MaxSightings
    /\ sightings' = sightings \cup {m}
    /\ UNCHANGED <<regs, index, reports, incidents, served, pc, job>>

(* POST /api/analyze or /api/realtime/detect, and the cycle that a crawl   *)
(* runs for every file: without registrations there is nothing to search.  *)
Begin(t, route, m) ==
    /\ pc[t] = "idle"
    /\ served < MaxAnalyses
    /\ served' = served + 1
    /\ job' = [job EXCEPT ![t] =
                  [NoJob EXCEPT !.id = served', !.route = route, !.probe = m,
                                !.since = Len(regs)]]
    /\ Goto(t, IF regs = <<>> THEN "urls"
               ELSE IF IsPicture(m) THEN "key" ELSE "scan")
    /\ UNCHANGED <<store, index, reports, incidents>>

-----------------------------------------------------------------------------
(* _image_index: the registered pictures, cached under the number of the   *)
(* registrations.                                                          *)

ReadKey(t) ==
    /\ pc[t] = "key"
    /\ IF index.key = Len(regs)
       THEN /\ job' = [job EXCEPT ![t].pictures = index.pictures]
            /\ Goto(t, "pick")
       ELSE /\ job' = [job EXCEPT ![t].key = Len(regs)]
            /\ Goto(t, "list")
    /\ UNCHANGED <<store, index, reports, incidents, served>>

(* A fault: the registrations are counted from zero.                       *)
PicturesFromZero ==
    {n \in 0 .. Len(regs) - 1 : IsPicture(regs[n + 1])}

Pictures == {n \in DOMAIN regs : IsPicture(regs[n])}

(* The walk over the registrations begins.                                 *)
StartList(t) ==
    /\ pc[t] = "list"
    /\ job' = [job EXCEPT ![t].size = Len(regs)]
    /\ Goto(t, "listing")
    /\ UNCHANGED <<store, index, reports, incidents, served>>

(* It ends with the positions of the pictures, or raises.                  *)
EndList(t) ==
    /\ pc[t] = "listing"
    /\ IF job[t].size = Len(regs)
       THEN /\ job' = [job EXCEPT ![t].size = 0, ![t].pictures = Pictures]
            /\ Goto(t, "index")
       ELSE End(t)
    /\ UNCHANGED <<store, index, reports, incidents, served>>

(* A fault: the number of registrations is taken when the list is done.    *)
LateKey(t) == Len(regs)

(* The number that was read before the list was made.                      *)
IndexKey(t) == job[t].key

StoreIndex(t) ==
    /\ pc[t] = "index"
    /\ index' = [key |-> IndexKey(t), pictures |-> job[t].pictures]
    /\ job' = [job EXCEPT ![t].key = 0]
    /\ Goto(t, "pick")
    /\ UNCHANGED <<store, reports, incidents, served>>

(* argmax over the pictures: the first that no other one beats.            *)
BestPicture(t, pictures) ==
    LET Picture(m) == Hashes[m].picture
        Combined(n) == ImageScore(Picture(Probe(t)), Picture(regs[n]))
        Beaten(n) == \E k \in pictures : Less(Combined(n), Combined(k))
    IN  Min({n \in pictures : ~Beaten(n)})

(* _best_image_registration; its score is computed once more from the      *)
(* registration.                                                           *)
Pick(t) ==
    /\ pc[t] = "pick"
    /\ LET pictures == job[t].pictures IN
       IF pictures = {}
       THEN UNCHANGED job
       ELSE LET best == BestPicture(t, pictures) IN
            job' = [job EXCEPT ![t].pictures = {},
                               ![t].best = best,
                               ![t].score = ScoreOf(t, regs[best])]
    /\ Goto(t, "scan")
    /\ UNCHANGED <<store, index, reports, incidents, served>>

-----------------------------------------------------------------------------
(* The loop over the other registrations.                                  *)
StartScan(t) ==
    /\ pc[t] = "scan"
    /\ job' = [job EXCEPT ![t].size = Len(regs)]
    /\ Goto(t, "scanning")
    /\ UNCHANGED <<store, index, reports, incidents, served>>

(* The registrations that the loop does not pass over.                     *)
Others(t) ==
    {n \in DOMAIN regs : ~(IsPicture(Probe(t)) /\ IsPicture(regs[n]))}

(* The first of those that score the most.                                 *)
BestOther(t) ==
    Min({n \in Others(t) : \A k \in Others(t) :
                             ScoreOf(t, regs[k]) <= ScoreOf(t, regs[n])})

(* It is taken if nothing was found before, or something that scores less. *)
Improves(t) ==
    /\ Others(t) # {}
    /\ \/ job[t].best = 0
       \/ ScoreOf(t, regs[BestOther(t)]) > job[t].score

(* The loop is done, or raises; without anything found the next statement  *)
(* does.                                                                   *)
EndScan(t) ==
    /\ pc[t] = "scanning"
    /\ IF job[t].size = Len(regs) /\ (Improves(t) \/ job[t].best # 0)
       THEN /\ job' = IF Improves(t)
                      THEN [job EXCEPT
                               ![t].size = 0,
                               ![t].best = BestOther(t),
                               ![t].score = ScoreOf(t, regs[BestOther(t)])]
                      ELSE [job EXCEPT ![t].size = 0]
            /\ Goto(t, "urls")
       ELSE End(t)
    /\ UNCHANGED <<store, index, reports, incidents, served>>

(* The outcome of _find_best_match.                                        *)
Outcome(t) ==
    CASE job[t].best = 0 -> "no_registrations"
      [] job[t].best # 0 /\ job[t].score >= Confirmed -> "match"
      [] job[t].best # 0 /\ job[t].score \in Review .. Confirmed - 1 ->
            "possible_match"
      [] OTHER -> "no_match"

(* _matched_urls, and what the route does with the report.                 *)
CollectUrls(t) ==
    /\ pc[t] = "urls"
    /\ job' = [job EXCEPT ![t].urls =
                  {m \in sightings : ScoreOf(t, m) >= 650}]
    /\ Goto(t, IF job[t].route = "analyze" THEN "report" ELSE "cycle")
    /\ UNCHANGED <<store, index, reports, incidents, served>>

(* run_detection_cycle: only a confirmed match opens an incident.          *)
Detect(t) ==
    /\ pc[t] = "cycle"
    /\ incidents' = IF Outcome(t) = "match"
                    THEN incidents \cup {[probe |-> Probe(t),
                                          reg   |-> job[t].best,
                                          urls  |-> job[t].urls]}
                    ELSE incidents
    /\ End(t)
    /\ UNCHANGED <<store, index, reports, served>>

-----------------------------------------------------------------------------
(* The end of analyze(): room is made in the cache and the report stored.  *)

(* A fault: the cache may exceed its limit by one.                         *)
OverFull == Len(cache) > Limit

Full == Len(cache) >= Limit

LookAtCache(t) ==
    /\ pc[t] = "report"
    /\ Goto(t, IF Full THEN "iter" ELSE "insert")
    /\ UNCHANGED <<store, index, reports, incidents, served, job>>

(* iter(analysis_cache).                                                   *)
StartWalk(t) ==
    /\ pc[t] = "iter"
    /\ job' = [job EXCEPT ![t].size = Len(cache)]
    /\ Goto(t, "oldest")
    /\ UNCHANGED <<store, index, reports, incidents, served>>

(* next(...): the oldest report; it raises when the cache has changed its  *)
(* size, or is empty.                                                      *)
Oldest(t) ==
    /\ pc[t] = "oldest"
    /\ IF Len(cache) = job[t].size /\ cache # <<>>
       THEN /\ job' = [job EXCEPT ![t].size = 0, ![t].victim = cache[1]]
            /\ Goto(t, "pop")
       ELSE End(t)
    /\ UNCHANGED <<store, index, reports, incidents, served>>

(* pop(...) raises when another handler has taken the report out.          *)
Evict(t) ==
    /\ pc[t] = "pop"
    /\ \/ /\ \E n \in DOMAIN cache :
                /\ cache[n] = job[t].victim
                /\ cache' = RemoveAt(cache, n)
          /\ Goto(t, "insert")
          /\ UNCHANGED job
       \/ /\ job[t].victim \notin Range(cache)
          /\ End(t)
          /\ UNCHANGED cache
    /\ UNCHANGED <<store, index, stored, incidents, served>>

Insert(t) ==
    /\ pc[t] = "insert"
    /\ cache' = Append(cache, job[t].id)
    /\ stored' = stored + 1
    /\ End(t)
    /\ UNCHANGED <<store, index, incidents, served>>

-----------------------------------------------------------------------------
Search(t) ==
    \/ ReadKey(t)
    \/ StartList(t)
    \/ EndList(t)
    \/ StoreIndex(t)
    \/ Pick(t)
    \/ StartScan(t)
    \/ EndScan(t)
    \/ CollectUrls(t)
    \/ Detect(t)

Report(t) ==
    \/ LookAtCache(t)
    \/ StartWalk(t)
    \/ Oldest(t)
    \/ Evict(t)
    \/ Insert(t)

Next ==
    \/ \E m \in Originals : Register(m)
    \/ \E m \in Probes : Sight(m)
    \/ \E t \in Thread, m \in Probes :
          Begin(t, "analyze", m) \/ Begin(t, "cycle", m)
    \/ \E t \in Thread : Search(t) \/ Report(t)

Spec == Init /\ [][Next]_vars

-----------------------------------------------------------------------------
TypeOK ==
    /\ regs \in Seq(Originals)
    /\ sightings \subseteq Probes
    /\ index.key \in -1 .. Len(regs)
    /\ index.pictures \subseteq DOMAIN regs
    /\ cache \in Seq(-Limit .. MaxAnalyses)
    /\ \A t \in Thread :
          /\ job[t].id \in 0 .. MaxAnalyses
          /\ job[t].best \in 0 .. Len(regs)
          /\ job[t].score \in 0 .. 1000

Searched(t) == pc[t] \in {"urls", "cycle", "report"}

(* No registration that was there when an analysis began scores more than  *)
(* the one it reports, although the pictures come from an index cached     *)
(* under the number of registrations, which other handlers replace         *)
(* (_image_index, _find_best_match).                                       *)
AnswersComplete ==
    \A t \in Thread : Searched(t) =>
        \A n \in 1 .. job[t].since :
            job[t].best # 0 /\ ScoreOf(t, regs[n]) <= job[t].score

(* a is a part of b that begins after the first k elements of it.          *)
PartAt(a, b, k) ==
    Len(a) + k <= Len(b) /\ a = SubSeq(b, k + 1, k + Len(a))

(* A medium taken from another one as it is: some of its sampled frames    *)
(* with the sound, if any, cut where the coarse search passes; or one      *)
(* sampled frame on its own.                                               *)
TakenFrom(a, b) ==
    LET frames == First(b.frames, MaxFrames)
        sound == First(b.sound, MaxSound)
    IN  /\ b.picture = Nothing
        /\ \/ /\ a.picture = Nothing
              /\ Len(a.frames) >= MinFrames
              /\ \E k \in 0 .. Len(frames) : PartAt(a.frames, frames, k)
              /\ \/ Len(a.sound) <= MinSounds
                 \/ \E k \in 0 .. Len(sound) :
                       /\ (k + Len(a.sound) - 1 - MinSounds) % 4 = 0
                       /\ PartAt(a.sound, sound, k)
           \/ /\ a.picture # Nothing
              /\ a.picture.coeffs \in Range(frames)

(* What was cut from a registered video is found, wherever the cut begins, *)
(* from its decoded frames and sound to the outcome (phash,                *)
(* audio_fingerprint_bits, match_frame_sequences, match_audio_bits,        *)
(* _match_image_to_frames).                                                *)
ClipFound ==
    \A t \in Thread :
        (/\ Searched(t)
         /\ \E n \in 1 .. job[t].since :
               TakenFrom(Raw[Probe(t)], Raw[regs[n]]))
            => Outcome(t) = "match" /\ job[t].score = 1000

At(step) == Cardinality({t \in Thread : pc[t] = step})

(* The cache and the reports about to be inserted exceed the limit by less *)
(* than the number of threads, and reports are evicted one for one: once   *)
(* the limit is reached the cache does not fall below it (analyze()).      *)
CacheBounded ==
    /\ Len(cache) + At("insert") < Limit + Cardinality(Thread)
    /\ \/ Len(cache) + At("insert") >= Limit
       \/ Len(cache) >= stored

(*************************** The inductive invariant ***********************)

Steps == {"idle", "key", "list", "listing", "index", "pick", "scan",
          "scanning", "urls", "cycle", "report", "iter", "oldest", "pop",
          "insert"}

(* The steps of _best_image_registration, which is for pictures only.      *)
Picking == {"key", "list", "listing", "index", "pick"}

Local == [id : 0 .. MaxAnalyses, route : {"none", "analyze", "cycle"},
          probe : Probes \cup {None}, since : Nat, key : Nat, size : Nat,
          pictures : SUBSET Nat, best : Nat, score : 0 .. 1000,
          urls : SUBSET Probes, victim : Int \cup {None}]

TypeInv ==
    /\ regs \in Seq(Originals)
    /\ sightings \subseteq Probes
    /\ index \in [key : Int, pictures : SUBSET Nat]
    /\ index.key \in -1 .. Len(regs)
    /\ cache \in Seq(-Limit .. MaxAnalyses)
    /\ served \in 0 .. MaxAnalyses
    /\ pc \in [Thread -> Steps]
    /\ job \in [Thread -> Local]
    /\ \A t \in Thread : pc[t] # "idle" => Probe(t) \in Probes
    /\ \A t \in Thread : pc[t] \in Picking => IsPicture(Probe(t))

(* A list of pictures that has all of them among the first n registrations. *)
Lists(pictures, n) ==
    /\ pictures \subseteq Pictures
    /\ \A k \in Pictures : k <= n => k \in pictures

(* Thread t has found something as good as registration n.                 *)
Covers(t, n) ==
    job[t].best # 0 /\ ScoreOf(t, regs[n]) <= job[t].score

(* A thread has in hand the pictures that were there when it began, then   *)
(* something as good as each of these, then as each registration that was  *)
(* there.  What it stores as the index is complete up to the number it     *)
(* stores with it.                                                         *)
SearchInv(t) ==
    /\ job[t].since <= Len(regs)
    /\ job[t].best # 0 =>
          /\ job[t].best \in DOMAIN regs
          /\ job[t].score = ScoreOf(t, regs[job[t].best])
    /\ pc[t] \in {"list", "listing", "index"} =>
          job[t].key \in job[t].since .. Len(regs)
    /\ pc[t] = "listing" => job[t].size \in job[t].key .. Len(regs)
    /\ pc[t] = "index" => Lists(job[t].pictures, job[t].key)
    /\ pc[t] = "pick" => Lists(job[t].pictures, job[t].since)
    /\ pc[t] \in {"scan", "scanning"} /\ IsPicture(Probe(t)) =>
          \A n \in Pictures : n <= job[t].since => Covers(t, n)
    /\ Searched(t) => \A n \in 1 .. job[t].since : Covers(t, n)

AnswerInv ==
    /\ TypeInv
    /\ Lists(index.pictures, index.key)
    /\ \A t \in Thread : SearchInv(t)
=============================================================================
