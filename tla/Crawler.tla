------------------------------- MODULE Crawler -------------------------------
(***************************************************************************)
(* The crawler (services/crawler.py).  Each job is a task of the event     *)
(* loop that walks the pages of its allowed domains breadth first, within  *)
(* a number of pages and a depth, asks the robots file of a host before it *)
(* requests a URL, spaces its requests to a host, follows redirects hop by *)
(* hop, and downloads the media that the pages show or link to.            *)
(*                                                                         *)
(* The tasks share what is known of robots files and when each host was    *)
(* last requested, which is noted for some requests and not for others.  A *)
(* step is what a task does between two awaits that can suspend it, or     *)
(* less.  The web is a constant: what the pages contain and where they     *)
(* redirect; whether a request succeeds is not.  The contents of media,    *)
(* and what matching makes of them, are left out.                          *)
(***************************************************************************)
EXTENDS Naturals, SequencesExt

CONSTANTS
    Job,           \* crawl jobs
    Url,           \* URLs without their fragments
    Host,          \* hosts
    HostOf,        \* HostOf[u]: the host of u
    Seeds,         \* the sequence of seed URLs
    Scope,         \* the URLs inside the allowed domains
    MediaFile,     \* the URLs with the extension of a media file
    Blocked,       \* the URLs of other schemes or of hosts that are not public
    Disallowed,    \* the URLs that the robots file of their host disallows
    Redirect,      \* Redirect[u]: where u redirects to, None if it does not
    Links,         \* Links[u]: the links of page u, in order
    Media,         \* Media[u]: the media that page u shows
    None,          \* no URL, no job
    MaxPages,      \* MaxPages[j], MaxDepth[j]: the bounds of job j
    MaxDepth,
    MaxRedirects,  \* MAX_REDIRECTS of net_guard.py
    MaxRestarts    \* bound on the number of process restarts

ASSUME CrawlerAssumption ==
    /\ None \notin Url \cup Job
    /\ HostOf \in [Url -> Host]
    /\ Seeds \in Seq(Url) /\ ToSet(Seeds) \ Blocked # {}
    /\ Redirect \in [Url -> Url \cup {None}]
    /\ Links \in [Url -> Seq(Url)] /\ Media \in [Url -> Seq(Url)]
    /\ MaxPages \in [Job -> Nat] /\ MaxDepth \in [Job -> Nat]
    /\ MaxRedirects \in Nat /\ MaxRestarts \in Nat

VARIABLES
    status,    \* status[j]: the status of job j, "none" before it is created
    disk,      \* the statuses in the snapshot file
    pc,        \* pc[j]: where the task of job j is suspended, "none" without one
    queue,     \* queue[j]: the URLs to visit, each with its depth
    visited,   \* visited[j]: visited_pages
    seen,      \* seen[j]: seen_media
    pages,     \* pages[j]: pages_crawled
    depth,     \* depth[j]: the depth of the page in hand
    pending,   \* pending[j]: the media found on it and not looked at yet
    target,    \* target[j]: what the task requests, a page or a media file
    at,        \* at[j]: how far it has been redirected
    hops,      \* hops[j]: in how many hops
    robots,    \* robots[h]: what _robots holds about host h
    window,    \* window[h]: the jobs whose requests to h that _be_polite noted
               \* are less than POLITENESS_SECONDS ago, oldest first; the last
               \* is the one in _last_hit
    unnoted,   \* unnoted[h]: the latest request to h that _be_polite did not
               \* note, a robots file or a redirect: after how many of window[h]
               \* it was sent, None if not within POLITENESS_SECONDS
    awaited,   \* awaited[j]: the request that a sleeping task waits to be past
    clean,     \* clean[j]: no page has failed job j, and no robots file any job
    restarts   \* restarts so far

jobs == <<status, disk>>
walk == <<queue, visited, seen, pages, depth>>
request == <<target, at, hops, awaited>>
traffic == <<window, unnoted>>
vars == <<jobs, pc, walk, pending, request, robots, traffic, clean, restarts>>

NoTarget == [kind |-> "none", url |-> None]

(* The items of sequence s that are in S, in their order.                  *)
Among(s, S) ==
    LET kept[n \in 0 .. Len(s)] ==
            IF n = 0 THEN <<>>
            ELSE IF s[n] \in S THEN Append(kept[n - 1], s[n])
            ELSE kept[n - 1]
    IN  kept[Len(s)]

(* The URLs of s as the queue holds them.                                  *)
AtDepth(s, d) == [n \in DOMAIN s |-> <<s[n], d>>]

-----------------------------------------------------------------------------
Init ==
    /\ status = [j \in Job |-> "none"]
    /\ disk = [j \in Job |-> "none"]
    /\ pc = [j \in Job |-> "none"]
    /\ queue = [j \in Job |-> <<>>]
    /\ visited = [j \in Job |-> {}]
    /\ seen = [j \in Job |-> {}]
    /\ pages = [j \in Job |-> 0]
    /\ depth = [j \in Job |-> 0]
    /\ pending = [j \in Job |-> <<>>]
    /\ target = [j \in Job |-> NoTarget]
    /\ at = [j \in Job |-> None]
    /\ hops = [j \in Job |-> 0]
    /\ robots = [h \in Host |-> "unknown"]
    /\ window = [h \in Host |-> <<>>]
    /\ unnoted = [h \in Host |-> None]
    /\ awaited = [j \in Job |-> None]
    /\ clean = [j \in Job |-> TRUE]
    /\ restarts = 0

Goto(j, to) == pc' = [pc EXCEPT ![j] = to]

SetStatus(j, s) == status' = [status EXCEPT ![j] = s]

Spoil(j) == clean' = [clean EXCEPT ![j] = FALSE]

(* The request is over: the walk goes on with the next page or, for a      *)
(* media file, with the rest of its page.                                  *)
Back(j) == IF target[j].kind = "page" THEN "next" ELSE "media"

Release(j) ==
    /\ target' = [target EXCEPT ![j] = NoTarget]
    /\ at' = [at EXCEPT ![j] = None]
    /\ hops' = [hops EXCEPT ![j] = 0]
    /\ awaited' = [awaited EXCEPT ![j] = None]

(* The task is over: its last save succeeds or not.                        *)
End(j, s) ==
    /\ SetStatus(j, s)
    /\ disk' \in {status', disk}
    /\ Goto(j, "none")
    /\ pending' = [pending EXCEPT ![j] = <<>>]
    /\ Release(j)
    /\ UNCHANGED <<walk, robots, traffic, clean, restarts>>

(* A request that _be_polite does not see: it is neither spaced nor noted. *)
SendUnnoted(h) ==
    unnoted' = [unnoted EXCEPT ![h] = Len(window[h])]

(* The request is sent, and its time noted.                                *)
Send(j, u) ==
    /\ at' = [at EXCEPT ![j] = u]
    /\ awaited' = [awaited EXCEPT ![j] = None]
    /\ window' = [window EXCEPT ![HostOf[u]] = Append(@, j)]
    /\ Goto(j, "get")

(* A fault: nobody waits.                                                  *)
BeImpolite(j, u) == Send(j, u)

(* _be_polite: the wait is computed from the latest request to the host.   *)
BePolite(j, u) ==
    IF window[HostOf[u]] = <<>>
    THEN Send(j, u)
    ELSE /\ awaited' = [awaited EXCEPT ![j] = Last(window[HostOf[u]])]
         /\ Goto(j, "asleep")
         /\ UNCHANGED <<at, window>>

(* The robots file of the host is at hand: r says whether it was found.    *)
Consult(j, kind, u, r) ==
    /\ UNCHANGED <<hops, unnoted>>
    /\ IF r = "found" /\ u \in Disallowed
       THEN /\ target' = [target EXCEPT ![j] = NoTarget]
            /\ Goto(j, IF kind = "page" THEN "next" ELSE "media")
            /\ UNCHANGED <<at, awaited, window>>
       ELSE /\ target' = [target EXCEPT ![j] = [kind |-> kind, url |-> u]]
            /\ BePolite(j, u)

(* A fault: a robots file that is at hand is not looked into.              *)
ApproachUnchecked(j, kind, u) ==
    /\ target' = [target EXCEPT ![j] = [kind |-> kind, url |-> u]]
    /\ hops' = hops
    /\ IF robots[HostOf[u]] = "unknown"
       THEN /\ Goto(j, "robots")
            /\ SendUnnoted(HostOf[u])
            /\ UNCHANGED <<at, awaited, window>>
       ELSE BePolite(j, u) /\ UNCHANGED unnoted

(* _robots_allowed, then the request.  A robots file is requested without  *)
(* a wait; its own redirects are left out.                                 *)
Approach(j, kind, u) ==
    IF robots[HostOf[u]] = "unknown"
    THEN /\ target' = [target EXCEPT ![j] = [kind |-> kind, url |-> u]]
         /\ Goto(j, "robots")
         /\ SendUnnoted(HostOf[u])
         /\ UNCHANGED <<at, hops, awaited, window>>
    ELSE Consult(j, kind, u, robots[HostOf[u]])

(************************************ Jobs *********************************)

(* create_job and start_job.                                               *)
Create(j) ==
    /\ status[j] = "none"
    /\ SetStatus(j, "queued")
    /\ disk' = status'
    /\ Goto(j, "start")
    /\ UNCHANGED <<walk, pending, request, robots, traffic, clean, restarts>>

(* create_job cannot save the job: it stays queued and is not started.     *)
CreateUnsaved(j) ==
    /\ status[j] = "none"
    /\ SetStatus(j, "queued")
    /\ UNCHANGED <<disk, pc, walk, pending, request, robots, traffic, clean,
                   restarts>>

(* run_job up to the first page.                                           *)
Begin(j) ==
    /\ pc[j] = "start"
    /\ SetStatus(j, "running")
    /\ disk' = status'
    /\ queue' = [queue EXCEPT ![j] =
                    AtDepth(Among(Seeds, Url \ Blocked), 0)]
    /\ Goto(j, "next")
    /\ UNCHANGED <<visited, seen, pages, depth, pending, request, robots,
                   traffic, clean, restarts>>

(* The first save of run_job fails: nothing catches it, the task is over.  *)
BeginUnsaved(j) ==
    /\ pc[j] = "start"
    /\ SetStatus(j, "running")
    /\ Goto(j, "none")
    /\ UNCHANGED <<disk, walk, pending, request, robots, traffic, clean, restarts>>

(* A fault: an exception ends the task without a word.                     *)
CollapseSilently(j) ==
    /\ pc[j] \in {"get", "media"}
    /\ End(j, status[j])

(* Anything raised while a page is processed fails the job: a save, the    *)
(* matching, a malformed URL.                                              *)
Collapse(j) ==
    /\ pc[j] \in {"get", "media"}
    /\ End(j, "failed")

(* No page is left, or enough have been crawled.                           *)
Complete(j) ==
    /\ pc[j] = "next"
    /\ queue[j] = <<>> \/ pages[j] >= MaxPages[j]
    /\ End(j, "completed")

(************************************ Pages ********************************)

(* A fault: one page too many.                                             *)
ContinuesOnce(j) ==
    pc[j] = "next" /\ queue[j] # <<>> /\ pages[j] <= MaxPages[j]

(* The condition of the loop.                                              *)
Continues(j) == pc[j] = "next" /\ queue[j] # <<>> /\ pages[j] < MaxPages[j]

(* A page visited before, or out of scope, is passed over.                 *)
Skip(j) ==
    /\ Continues(j)
    /\ LET u == Head(queue[j])[1] IN u \in visited[j] \/ u \notin Scope
    /\ queue' = [queue EXCEPT ![j] = Tail(@)]
    /\ UNCHANGED <<jobs, pc, visited, seen, pages, depth, pending, request,
                   robots, traffic, clean, restarts>>

(* A fault: the page found last is visited first.                          *)
VisitLast(j) ==
    /\ Continues(j)
    /\ LET u == Last(queue[j])[1] IN
       /\ u \notin visited[j] /\ u \in Scope
       /\ visited' = [visited EXCEPT ![j] = @ \cup {u}]
       /\ IF u \in Blocked
          THEN UNCHANGED <<pc, request, traffic>>
          ELSE Approach(j, "page", u)
    /\ depth' = [depth EXCEPT ![j] = Last(queue[j])[2]]
    /\ queue' = [queue EXCEPT ![j] = Front(@)]
    /\ UNCHANGED <<jobs, seen, pages, pending, robots, clean, restarts>>

(* The first page of the queue is new.                                     *)
Visit(j) ==
    /\ Continues(j)
    /\ LET u == Head(queue[j])[1] IN
       /\ u \notin visited[j] /\ u \in Scope
       /\ visited' = [visited EXCEPT ![j] = @ \cup {u}]
       /\ IF u \in Blocked
          THEN UNCHANGED <<pc, request, traffic>>
          ELSE Approach(j, "page", u)
    /\ depth' = [depth EXCEPT ![j] = Head(queue[j])[2]]
    /\ queue' = [queue EXCEPT ![j] = Tail(@)]
    /\ UNCHANGED <<jobs, seen, pages, pending, robots, clean, restarts>>

(* The robots file arrives, or does not: then everything is allowed.       *)
RobotsAnswer(j) ==
    /\ pc[j] = "robots"
    /\ \E r \in {"found", "missing"} :
          /\ robots' = [robots EXCEPT ![HostOf[target[j].url]] = r]
          /\ Consult(j, target[j].kind, target[j].url, r)
          /\ clean' = [i \in Job |-> clean[i] /\ r = "found"]
    /\ UNCHANGED <<jobs, walk, pending, restarts>>

(* The sleep is over; the host is not looked at again.                     *)
Wake(j) ==
    /\ pc[j] = "asleep"
    /\ awaited[j] = None
    /\ Send(j, target[j].url)
    /\ UNCHANGED <<jobs, walk, pending, target, hops, robots, unnoted, clean,
                   restarts>>

(* safe_get_async follows a redirect, without a wait.                      *)
Hop(j) ==
    /\ pc[j] = "get"
    /\ Redirect[at[j]] \notin Blocked \cup {None}
    /\ hops[j] < MaxRedirects
    /\ at' = [at EXCEPT ![j] = Redirect[@]]
    /\ hops' = [hops EXCEPT ![j] = @ + 1]
    /\ SendUnnoted(HostOf[Redirect[at[j]]])
    /\ UNCHANGED <<jobs, pc, walk, pending, target, awaited, robots, window,
                   clean, restarts>>

(* A fault: a page whose request failed is tried again.                    *)
FetchRetried(j) ==
    /\ pc[j] = "get"
    /\ IF target[j].kind = "page"
       THEN /\ visited' = [visited EXCEPT ![j] = @ \ {target[j].url}]
            /\ queue' = [queue EXCEPT ![j] =
                            Append(@, <<target[j].url, depth[j]>>)]
       ELSE UNCHANGED <<visited, queue>>
    /\ Goto(j, Back(j))
    /\ Release(j)
    /\ Spoil(j)
    /\ UNCHANGED <<jobs, seen, pages, depth, pending, robots, traffic, restarts>>

(* An error, a bad redirect, a status other than 200, a file too large.    *)
FetchFails(j) ==
    /\ pc[j] = "get"
    /\ Goto(j, Back(j))
    /\ Release(j)
    /\ IF target[j].kind = "page" THEN Spoil(j) ELSE UNCHANGED clean
    /\ UNCHANGED <<jobs, walk, pending, robots, traffic, restarts>>

(* A page of another type counts; one that cannot be parsed is not even    *)
(* saved.                                                                  *)
Unreadable(j) ==
    /\ pc[j] = "get"
    /\ target[j].kind = "page"
    /\ pages' = [pages EXCEPT ![j] = @ + 1]
    /\ \E to \in {"next", "media"} : Goto(j, to)
    /\ Release(j)
    /\ Spoil(j)
    /\ UNCHANGED <<jobs, queue, visited, seen, depth, pending, robots, traffic,
                   restarts>>

(* The links of page u that are followed, and those that are downloaded.   *)
Fresh(j, u) == Among(Links[u], Scope \ visited[j])

Followed(j, u) == Among(Fresh(j, u), Scope \ MediaFile)
Downloaded(j, u) == Among(Fresh(j, u), MediaFile)

(* A page arrives: what it shows, and above the last level what it links   *)
(* to.  The links join the queue here, although the code takes the media   *)
(* in between: nobody else sees the queue.                                 *)
Arrive(j) ==
    /\ pc[j] = "get"
    /\ target[j].kind = "page"
    /\ Redirect[at[j]] = None
    /\ pages' = [pages EXCEPT ![j] = @ + 1]
    /\ LET u == at[j]
           deeper == depth[j] < MaxDepth[j]
           next == IF deeper THEN Followed(j, u) ELSE <<>>
           files == IF deeper THEN Downloaded(j, u) ELSE <<>>
       IN  /\ pending' = [pending EXCEPT ![j] = Media[u] \o files]
           /\ queue' = [queue EXCEPT ![j] = @ \o AtDepth(next, depth[j] + 1)]
    /\ Goto(j, "media")
    /\ Release(j)
    /\ UNCHANGED <<jobs, visited, seen, depth, robots, traffic, clean, restarts>>

(************************************ Media ********************************)

(* The next media file of the page, unless it was taken before.            *)
NextMedia(j) ==
    /\ pc[j] = "media"
    /\ pending[j] # <<>>
    /\ LET u == Head(pending[j]) IN
       IF u \in seen[j] \cup Blocked
       THEN UNCHANGED <<pc, seen, request, traffic>>
       ELSE /\ seen' = [seen EXCEPT ![j] = @ \cup {u}]
            /\ Approach(j, "media", u)
    /\ pending' = [pending EXCEPT ![j] = Tail(@)]
    /\ UNCHANGED <<jobs, queue, visited, pages, depth, robots, clean, restarts>>

(* A media file arrives and is fingerprinted, indexed and matched.         *)
IndexMedia(j) ==
    /\ pc[j] = "get"
    /\ target[j].kind = "media"
    /\ Redirect[at[j]] = None
    /\ disk' = status
    /\ Goto(j, "media")
    /\ Release(j)
    /\ UNCHANGED <<status, walk, pending, robots, traffic, clean, restarts>>

(* The page is done and saved.                                             *)
PageDone(j) ==
    /\ pc[j] = "media"
    /\ pending[j] = <<>>
    /\ disk' = status
    /\ Goto(j, "next")
    /\ UNCHANGED <<status, walk, pending, request, robots, traffic, clean, restarts>>

(******************************** Surroundings *****************************)

(* POLITENESS_SECONDS have passed since the oldest noted request to host   *)
(* h: who waited for that is due.                                          *)
Cool(h) ==
    /\ window[h] # <<>> /\ unnoted[h] # 0
    /\ window' = [window EXCEPT ![h] = Tail(@)]
    /\ unnoted' = [unnoted EXCEPT ![h] = IF @ = None THEN None ELSE @ - 1]
    /\ awaited' = [j \in Job |->
                      IF /\ pc[j] = "asleep"
                         /\ HostOf[target[j].url] = h
                         /\ awaited[j] = Head(window[h])
                      THEN None ELSE awaited[j]]
    /\ UNCHANGED <<jobs, pc, walk, pending, target, at, hops, robots, clean,
                   restarts>>

(* They have passed since the latest unnoted request to it.                *)
CoolUnnoted(h) ==
    /\ unnoted[h] = 0
    /\ unnoted' = [unnoted EXCEPT ![h] = None]
    /\ UNCHANGED <<jobs, pc, walk, pending, request, robots, window, clean,
                   restarts>>

(* What is known of the robots file of host h is an hour old.              *)
ForgetRobots(h) ==
    /\ robots[h] # "unknown"
    /\ robots' = [robots EXCEPT ![h] = "unknown"]
    /\ UNCHANGED <<jobs, pc, walk, pending, request, traffic, clean, restarts>>

(* The process dies and starts again: the jobs are loaded, no task is.     *)
Restart ==
    /\ restarts < MaxRestarts
    /\ restarts' = restarts + 1
    /\ status' = disk
    /\ pc' = [j \in Job |-> "none"]
    /\ queue' = [j \in Job |-> <<>>]
    /\ visited' = [j \in Job |-> {}]
    /\ seen' = [j \in Job |-> {}]
    /\ pages' = [j \in Job |-> 0]
    /\ depth' = [j \in Job |-> 0]
    /\ pending' = [j \in Job |-> <<>>]
    /\ target' = [j \in Job |-> NoTarget]
    /\ at' = [j \in Job |-> None]
    /\ hops' = [j \in Job |-> 0]
    /\ robots' = [h \in Host |-> "unknown"]
    /\ window' = [h \in Host |-> <<>>]
    /\ unnoted' = [h \in Host |-> None]
    /\ awaited' = [j \in Job |-> None]
    /\ clean' = [j \in Job |-> status'[j] = "none"]
    /\ UNCHANGED disk

-----------------------------------------------------------------------------
(* What the event loop does for the task of job j once it is created.      *)
TaskStep(j) ==
    \/ Begin(j) \/ BeginUnsaved(j)
    \/ Skip(j) \/ Visit(j) \/ Complete(j)
    \/ RobotsAnswer(j)
    \/ Wake(j)
    \/ Hop(j) \/ FetchFails(j) \/ Unreadable(j) \/ Arrive(j) \/ IndexMedia(j)
    \/ NextMedia(j) \/ PageDone(j)
    \/ Collapse(j)

Next ==
    \/ \E j \in Job : Create(j) \/ CreateUnsaved(j) \/ TaskStep(j)
    \/ \E h \in Host : Cool(h) \/ CoolUnnoted(h) \/ ForgetRobots(h)
    \/ Restart

(* The event loop runs every task that is ready, a request is answered or  *)
(* times out, and time passes.                                             *)
Fairness ==
    /\ \A j \in Job : WF_vars(TaskStep(j))
    /\ \A h \in Host : WF_vars(Cool(h) \/ CoolUnnoted(h))

Spec == Init /\ [][Next]_vars /\ Fairness

-----------------------------------------------------------------------------
Status == {"none", "queued", "running", "completed", "failed"}

(* Every variable keeps to its domain; a job crawls no more pages than it  *)
(* may and follows no more redirects than the guard allows.                *)
TypeOK ==
    /\ status \in [Job -> Status]
    /\ disk \in [Job -> Status]
    /\ pc \in [Job -> {"none", "start", "next", "robots", "asleep", "get",
                       "media"}]
    /\ queue \in [Job -> Seq(Url \X Nat)]
    /\ \A j \in Job : queue[j] \in Seq(Url \X (0 .. MaxDepth[j]))
    /\ visited \in [Job -> SUBSET Url]
    /\ seen \in [Job -> SUBSET Url]
    /\ pages \in [Job -> Nat] /\ \A j \in Job : pages[j] <= MaxPages[j]
    /\ depth \in [Job -> Nat] /\ \A j \in Job : depth[j] <= MaxDepth[j]
    /\ pending \in [Job -> Seq(Url)]
    /\ target \in [Job -> [kind : {"none", "page", "media"},
                           url  : Url \cup {None}]]
    /\ at \in [Job -> Url \cup {None}]
    /\ hops \in [Job -> 0 .. MaxRedirects]
    /\ robots \in [Host -> {"unknown", "found", "missing"}]
    /\ window \in [Host -> Seq(Job)]
    /\ unnoted \in [Host -> Nat \cup {None}]
    /\ awaited \in [Job -> Job \cup {None}]
    /\ clean \in [Job -> BOOLEAN]
    /\ restarts \in 0 .. MaxRestarts

(* Where a chain of at most n redirects from u ends.                       *)
Landing[n \in 0 .. MaxRedirects] ==
    [u \in Url |-> IF Redirect[u] = None THEN u
                   ELSE IF n = 0 \/ Redirect[u] \in Blocked THEN None
                   ELSE Landing[n - 1][Redirect[u]]]

(* The pages that the pages of S lead to.                                  *)
LinkedFrom(S) ==
    {v \in Scope \ MediaFile : \E u \in S \ Blocked :
        LET end == Landing[MaxRedirects][u] IN
        end # None /\ v \in ToSet(Links[end])}

SeedPages == (ToSet(Seeds) \ Blocked) \cap Scope

(* The pages within n links of a seed, if robots files are ignored and if  *)
(* they are honoured.                                                      *)
Reach[n \in Nat] ==
    IF n = 0 THEN SeedPages ELSE Reach[n - 1] \cup LinkedFrom(Reach[n - 1])

ReachPolite[n \in Nat] ==
    IF n = 0 THEN SeedPages
    ELSE ReachPolite[n - 1] \cup LinkedFrom(ReachPolite[n - 1] \ Disallowed)

(* A job never visits a page that is not within its depth of a seed,       *)
(* whatever fails, and in whatever order it finds the pages; and one that  *)
(* completes without a failed request, and short of its number of pages,   *)
(* has visited every page within its depth: a page found by a long way     *)
(* first would hide what lies behind it, and the breadth-first order is    *)
(* what prevents that.                                                     *)
WalkExact ==
    \A j \in Job :
        /\ visited[j] \subseteq Reach[MaxDepth[j]]
        /\ status[j] = "completed" /\ clean[j] /\ pages[j] < MaxPages[j]
               => visited[j] = ReachPolite[MaxDepth[j]]

(* Of the requests that pass through _be_polite, no job sends two to one   *)
(* host within POLITENESS_SECONDS, whatever the other jobs do.  They are   *)
(* the requests for pages and media.  The redirects that answer them and   *)
(* the requests for robots files, which `unnoted' records, follow without  *)
(* a wait, and two jobs that slept for the same earlier request both send. *)
SpacedPerJob == \A h \in Host : IsInjective(window[h])

(* As long as robots files are found, no job asks for a page or a media    *)
(* file that they disallow.  Where a redirect leads is not looked up, and  *)
(* one job's failure to get the file is believed by all.                   *)
RobotsKept ==
    \A j \in Job : clean[j] /\ pc[j] = "get" /\ hops[j] = 0
                        => at[j] \notin Disallowed

(* A task that was walking ends with a report of its job, unless the       *)
(* process dies.                                                           *)
EndsWithReport ==
    [][restarts' = restarts =>
         \A j \in Job :
            pc[j] \notin {"none", "start"} /\ pc'[j] = "none"
                => status'[j] \in {"completed", "failed"}]_vars

(* Every task ends, whatever the pages link to and redirect to and         *)
(* whichever requests fail.                                                *)
TasksEnd == \A j \in Job : (pc[j] # "none") ~> (pc[j] = "none")

(*************************** The inductive invariant ***********************)

(* The places where a task has a page or a file in hand.                   *)
Requesting == {"robots", "asleep", "get"}

(* A task that has begun its walk.                                         *)
Walking(j) == pc[j] \notin {"none", "start"}

(* The page whose contents the task is about to get.                       *)
InHand(j) == pc[j] \in Requesting /\ target[j].kind = "page"

(* What a task holds at each place it can be suspended.                    *)
PlaceInv(j) ==
    /\ status[j] = "none" => pc[j] = "none"
    /\ pc[j] = "start" => status[j] = "queued"
    /\ Walking(j) => status[j] = "running"
    /\ status[j] = "none" \/ pc[j] = "start" =>
          queue[j] = <<>> /\ visited[j] = {} /\ pages[j] = 0 /\ depth[j] = 0
    /\ pc[j] \in Requesting => /\ target[j].kind \in {"page", "media"}
                               /\ target[j].url \in Url
                               /\ target[j].url \notin Blocked
    /\ pc[j] = "get" => at[j] \in Url
    /\ pc[j] # "get" => hops[j] = 0
    /\ InHand(j) => pages[j] < MaxPages[j]

(* The types, and what each task holds.                                    *)
TypeInv == TypeOK /\ \A j \in Job : PlaceInv(j)

(* A sleeping task that has itself requested its host within the window    *)
(* awaits that request or a later one.                                     *)
Waits(j) ==
    LET w == window[HostOf[target[j].url]] IN
    pc[j] = "asleep" =>
        \A n \in DOMAIN w : w[n] = j => \E m \in DOMAIN w :
                                            n <= m /\ w[m] = awaited[j]

(* No window has two requests of one job, and who waits outlasts its own.  *)
PoliteInv ==
    /\ \A h \in Host : IsInjective(window[h])
    /\ \A j \in Job : Waits(j)

(* While no robots file has failed, what a task requests is allowed.       *)
Allowed(j) ==
    /\ clean[j] => \A h \in Host : robots[h] # "missing"
    /\ clean[j] /\ pc[j] \in {"asleep", "get"} => target[j].url \notin Disallowed
    /\ pc[j] = "get" /\ hops[j] = 0 => at[j] = target[j].url

(* What a queue holds: its pages, those at a level; one that holds the     *)
(* rest of level d and the beginning of the next, and one with no page     *)
(* that is out of reach, R[n] being the pages within n links.              *)
Queued(q) == {q[n][1] : n \in DOMAIN q}
QueuedAt(q, d) == {q[n][1] : n \in {m \in DOMAIN q : q[m][2] = d}}

Levelled(q, d) ==
    \A n \in DOMAIN q :
        /\ q[n][2] \in {d, d + 1}
        /\ \A m \in DOMAIN q : n <= m => q[n][2] <= q[m][2]

InReach(q, R) ==
    \A n \in DOMAIN q : q[n][1] \in Scope => q[n][1] \in R[q[n][2]]

(* The walk stays within reach: what is visited, found and in hand.        *)
WithinReach(j) ==
    /\ visited[j] \subseteq Reach[MaxDepth[j]]
    /\ InReach(queue[j], Reach)
    /\ InHand(j) => target[j].url \in Reach[depth[j]]
    /\ InHand(j) /\ pc[j] = "get" =>
          Landing[MaxRedirects][target[j].url]
             = Landing[MaxRedirects - hops[j]][at[j]]

(* A walk without a failure has found every page up to its level, and has  *)
(* queued what the pages it is done with link to.                          *)
Exhaustive(j) ==
    /\ visited[j] \subseteq ReachPolite[depth[j]]
    /\ ReachPolite[depth[j]] \subseteq visited[j] \cup QueuedAt(queue[j], depth[j])
    /\ InReach(queue[j], ReachPolite)
    /\ depth[j] < MaxDepth[j] =>
          \A u \in visited[j] :
             \/ LinkedFrom({u} \ Disallowed)
                    \subseteq visited[j] \cup Queued(queue[j])
             \/ InHand(j) /\ u = target[j].url

(* How far the walk of a job has come, and what it leaves behind.          *)
WalkInv(j) ==
    /\ WithinReach(j)
    /\ Walking(j) => Levelled(queue[j], depth[j])
    /\ Walking(j) /\ clean[j] => Exhaustive(j)
    /\ InHand(j) => target[j].url \in visited[j]
    /\ status[j] = "completed" /\ clean[j] /\ pages[j] < MaxPages[j]
          => visited[j] = ReachPolite[MaxDepth[j]]

(* All of them.                                                            *)
CrawlInv ==
    /\ TypeInv
    /\ PoliteInv
    /\ \A j \in Job : Allowed(j) /\ WalkInv(j)
=============================================================================
