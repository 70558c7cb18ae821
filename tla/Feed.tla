-------------------------------- MODULE Feed ---------------------------------
(***************************************************************************)
(* Posts (social.js, and the frames feed-req and posts of nodesignald.js):  *)
(* every daemon keeps a bounded store of signed posts, its own, those its   *)
(* contacts wrote, and those its contacts passed on, one hop further.  A    *)
(* new post is pushed to every trusted contact; what was missed is asked    *)
(* for on the next link.  A daemon is its signing key; signatures, texts    *)
(* and names are left out, and time is what the code compares.              *)
(***************************************************************************)
EXTENDS Integers, FiniteSets, Sequences, SequencesExt, Lists

CONSTANTS
  Daemons, Posts,
  Author,           \* who writes each post, when it comes to that
  Trusts,           \* pairs <<d, c>>: c is a contact d added or wrote to, and talked with
  MaxPosts,         \* maxPosts of the store
  TrimTo,           \* 90% of it
  MaxPerAuthor, MaxPerAuthorDay,
  EvictedCap,       \* ids remembered of posts dropped for room
  PerFrame,         \* posts in a frame
  ReplyLimit,       \* posts in an answer
  LinkMaxPosts,     \* posts looked at per connection
  Minute, Overlap, Day, Week, Keep,     \* Overlap: the hour asked for again
  EndOfTime,        \* bound: the clock, which starts at Keep
  MaxLinks,         \* bound: connections made
  Killed,           \* bound: daemons that may be killed
  MaxCrashes,       \* bound: kills
  MaxUnfollows,     \* bound: authors unfollowed, over all daemons
  None

VARIABLES
  written,          \* when a post was written, and as the how-manieth
  held,             \* posts: what a store holds, from whom and over how many hops
  evicted,          \* evicted
  unfollows,        \* state.unfollows
  feedAt,           \* contact.feedAt: when posts last came from a contact; state.json has
                    \* it a tenth of a second later, here at once
  up,               \* links: a contact's link, both hellos exchanged
  postsIn,          \* link.postsIn
  wire,             \* frames under way
  tasks,            \* linkTasks: what to send once a link is up
  disk,             \* social.json: the posts
  had,              \* the posts held at any time since the process started
  now,
  links, crashes    \* connections made, kills

vars == <<written, held, evicted, unfollows, feedAt, up, postsIn, wire, tasks, disk,
          had, now, links, crashes>>
storeVars == <<held, evicted, had>>
linkVars  == <<up, postsIn, wire, tasks>>

Pairs == {s \in Daemons \X Daemons : s[1] # s[2]}
Entry == [via : Daemons \cup {None}, hops : 0..2]
Item  == [p : Posts, h : 0..2]

TypeOK ==
  /\ written \in [Posts -> (0..EndOfTime) \X (1..Cardinality(Posts)) \cup {None}]
  /\ held \in [Daemons -> [Posts -> Entry \cup {None}]]
  /\ \A d \in Daemons : evicted[d] \in Seq(Posts)
  /\ unfollows \in [Daemons -> SUBSET Daemons]
  /\ feedAt \in [Pairs -> 0..EndOfTime \cup {None}]
  /\ up \in [Pairs -> BOOLEAN]
  /\ postsIn \in [Pairs -> 0..LinkMaxPosts]
  /\ \A s \in Pairs : up[s] \/ (postsIn[s] = 0 /\ wire[s] = <<>>)
  /\ \A s \in Pairs : tasks[s] \in Seq(Posts)
  /\ disk \in [Daemons -> [Posts -> Entry \cup {None}]]
  /\ had \in [Daemons -> SUBSET Posts]
  /\ now \in 0..EndOfTime /\ links \in 0..MaxLinks /\ crashes \in 0..MaxCrashes

Init ==
  /\ written = [p \in Posts |-> None]
  /\ held = [d \in Daemons |-> [p \in Posts |-> None]] /\ disk = held
  /\ evicted = [d \in Daemons |-> <<>>]
  /\ unfollows = [d \in Daemons |-> {}]
  /\ feedAt = [s \in Pairs |-> None]
  /\ up = [s \in Pairs |-> FALSE] /\ postsIn = [s \in Pairs |-> 0]
  /\ wire = [s \in Pairs |-> <<>>] /\ tasks = [s \in Pairs |-> <<>>]
  /\ had = [d \in Daemons |-> {}]
  /\ now = Keep /\ links = 0 /\ crashes = 0

-----------------------------------------------------------------------------
(* createStore of social.js.  A store is what it holds and what it remembers *)
(* to have dropped; w says when each post was written.                      *)

Held(s)        == {p \in Posts : s.held[p] # None}
ByAuthor(s, a) == {p \in Held(s) : Author[p] = a}
Forwarded(s)   == {p \in Held(s) : s.held[p].via # None}
OldestFirst(w, ps) == SortedBy(ps, [p \in ps |-> w[p][2]])
Newest(w, ps, n)   == LET all == OldestFirst(w, ps)
                      IN  SubSeq(all, IF Len(all) > n THEN Len(all) - n + 1 ELSE 1, Len(all))

\* drop(): remembered, unless it went for its age.
Forget(s, p) == [s EXCEPT !.held[p] = None]
Drop(s, p)   == LET e == Append(s.evicted, p)
                IN  [held    |-> [s.held EXCEPT ![p] = None],
                     evicted |-> IF Len(e) > EvictedCap THEN Tail(e) ELSE e]

\* trimPosts(): the oldest forwarded posts, those by keep only if the others do
\* not get the store under its cap.
Trim_All(w, s, keep) ==                                            \* mutant
  FoldLeft(LAMBDA u, p : IF Cardinality(Held(u)) <= MaxPosts THEN u ELSE Drop(u, p),
           s, OldestFirst(w, Held(s)))
TrimOther(keep, u, p) == IF Cardinality(Held(u)) <= TrimTo \/ Author[p] \in keep THEN u ELSE Drop(u, p)
TrimAny(u, p)         == IF Cardinality(Held(u)) <= MaxPosts \/ p \notin Held(u) THEN u ELSE Drop(u, p)
Trim(w, s, keep) ==
  LET all == OldestFirst(w, Forwarded(s))
  IN  IF Cardinality(Held(s)) <= MaxPosts THEN s
      ELSE FoldLeft(TrimAny, FoldLeft(LAMBDA u, p : TrimOther(keep, u, p), s, all), all)

\* addPost(): a post held, or dropped for room, is not new; others are checked
\* for their age and their author's posts of the day.
Knows(s, p) == p \in Held(s) \/ p \in ToSet(s.evicted)
SameDay(w, s, p) == {q \in ByAuthor(s, Author[p]) :
                       w[q][1] + Day > w[p][1] /\ w[q][1] <= w[p][1] + Day}
Accepts(w, s, p, mine) ==
  /\ ~Knows(s, p)
  /\ w[p][1] + Keep >= now
  /\ mine \/ Cardinality(SameDay(w, s, p)) < MaxPerAuthorDay
AddPost(w, s, p, entry, mine, keep) ==
  LET theirs  == ByAuthor(s, Author[p])
      put     == [s EXCEPT !.held[p] = entry]
      limited == IF Cardinality(theirs) + 1 > MaxPerAuthor
                 THEN Drop(put, OldestFirst(w, theirs)[1]) ELSE put
  IN  IF Accepts(w, s, p, mine) THEN Trim(w, limited, keep) ELSE s

StoreOf(d) == [held |-> held[d], evicted |-> evicted[d]]
Stores(d, s) ==
  /\ held' = [held EXCEPT ![d] = s.held]
  /\ evicted' = [evicted EXCEPT ![d] = s.evicted]
  /\ had' = [had EXCEPT ![d] = @ \cup Held(s) \cup ToSet(s.evicted)]

-----------------------------------------------------------------------------
(* The daemon.                                                             *)

Contacts(d) == {c \in Daemons : <<d, c>> \in Pairs /\ (<<d, c>> \in Trusts \/ <<c, d>> \in Trusts)}
FollowSet(d) == {c \in Contacts(d) : <<d, c>> \in Trusts} \ unfollows[d]

\* postsSince() of what feed-req and posts pass on: one's own, and what a
\* followed author sent directly.
Passes_AnyHops(d, p) ==                                            \* mutant
  held[d][p].via = None \/ Author[p] \in FollowSet(d)
Passes(d, p) == \/ held[d][p].via = None
                \/ held[d][p].hops <= 1 /\ Author[p] \in FollowSet(d)

\* sendPosts(): in frames of so many.
Frames(items) ==
  [i \in 1..((Len(items) + PerFrame - 1) \div PerFrame) |->
     [t |-> "posts", items |-> SubSeq(items, (i - 1) * PerFrame + 1,
                                      IF i * PerFrame < Len(items) THEN i * PerFrame ELSE Len(items))]]
ItemsOf(h, ps) == [i \in DOMAIN ps |-> [p |-> ps[i], h |-> h[ps[i]].hops]]

\* createPost(): stored, and pushed to every trusted contact, over its link or
\* once one is up.
WritePost(d, p) ==
  LET w == [written EXCEPT ![p] = <<now, Cardinality({q \in Posts : written[q] # None}) + 1>>]
      s == AddPost(w, StoreOf(d), p, [via |-> None, hops |-> 0], TRUE, {})
      to(c) == <<d, c>> \in Trusts
  IN  /\ written[p] = None /\ Author[p] = d
      /\ written' = w /\ Stores(d, s)
      /\ wire' = [x \in Pairs |-> IF x[1] = d /\ to(x[2]) /\ up[x]
                                  THEN wire[x] \o Frames(<<[p |-> p, h |-> 0]>>) ELSE wire[x]]
      /\ tasks' = [x \in Pairs |-> IF x[1] = d /\ to(x[2]) /\ ~up[x]
                                   THEN Append(tasks[x], p) ELSE tasks[x]]
      /\ UNCHANGED <<unfollows, feedAt, up, postsIn, disk, now, links, crashes>>

\* A dial that succeeds, or the contact's own, with the handshake and the two
\* hellos, which touch no posts: afterHello of either side asks for what it may
\* have missed (syncWith: since the last posts, less an hour, or of a week) and
\* runs what waited for the link.
FeedReq(d, c) ==
  [t |-> "feed-req",
   since |-> IF feedAt[<<d, c>>] = None THEN now - Week ELSE feedAt[<<d, c>>] - Overlap]
Synced(x) ==
  <<FeedReq(x[1], x[2])>> \o
  [i \in DOMAIN tasks[x] |-> [t |-> "posts", items |-> <<[p |-> tasks[x][i], h |-> 0]>>]]
Connects(d, c) ==
  LET sides == {<<d, c>>, <<c, d>>} IN
  /\ c \in Contacts(d) /\ ~up[<<d, c>>]
  /\ links < MaxLinks /\ links' = links + 1
  /\ up' = [x \in Pairs |-> up[x] \/ x \in sides]
  /\ wire' = [x \in Pairs |-> IF x \in sides THEN Synced(x) ELSE wire[x]]
  /\ tasks' = [x \in Pairs |-> IF x \in sides THEN <<>> ELSE tasks[x]]
  /\ UNCHANGED <<written, storeVars, unfollows, feedAt, postsIn, disk, now, crashes>>

\* The link closes, or breaks with frames under way.
Disconnects_Counted(d, c) ==                                       \* mutant
  /\ up[<<d, c>>]
  /\ up' = [up EXCEPT ![<<d, c>>] = FALSE, ![<<c, d>>] = FALSE]
  /\ wire' = [wire EXCEPT ![<<d, c>>] = <<>>, ![<<c, d>>] = <<>>]
  /\ UNCHANGED <<written, storeVars, unfollows, feedAt, postsIn, tasks, disk, now, links, crashes>>
Disconnects(d, c) ==
  /\ up[<<d, c>>]
  /\ up' = [up EXCEPT ![<<d, c>>] = FALSE, ![<<c, d>>] = FALSE]
  /\ wire' = [wire EXCEPT ![<<d, c>>] = <<>>, ![<<c, d>>] = <<>>]
  /\ postsIn' = [postsIn EXCEPT ![<<d, c>>] = 0, ![<<c, d>>] = 0]
  /\ UNCHANGED <<written, storeVars, unfollows, feedAt, tasks, disk, now, links, crashes>>

Arrives(c, d, t) == wire[<<c, d>>] # <<>> /\ Head(wire[<<c, d>>]).t = t
Taken(c, d)      == [wire EXCEPT ![<<c, d>>] = Tail(@)]

\* feed-req: at most so many, the newest; with nothing to tell no frame goes.
Answer(d, since) ==
  ItemsOf(held[d], Newest(written, {p \in Held(StoreOf(d)) : written[p][1] > since /\ Passes(d, p)},
                          ReplyLimit))
AnswersFeed(d, c) ==
  /\ Arrives(c, d, "feed-req")
  /\ wire' = [Taken(c, d) EXCEPT ![<<d, c>>] =
                @ \o Frames(Answer(d, Head(wire[<<c, d>>]).since))]
  /\ UNCHANGED <<written, storeVars, unfollows, feedAt, up, postsIn, tasks, disk, now, links, crashes>>

\* posts: a contact that is not trusted may send only its own; nothing comes
\* further than two hops; what is new and young, by someone followed, goes on at
\* once over the links that are up.
TakesItem(d, c, it) == it.h + 1 <= 2 /\ (<<d, c>> \in Trusts \/ Author[it.p] = c)
Looked(d, c, items) == LET left == LinkMaxPosts - postsIn[<<d, c>>]
                       IN  SubSeq(items, 1, IF Len(items) > left THEN left ELSE Len(items))
TakeItem(x, s, it) ==
  IF TakesItem(x[1], x[2], it)
  THEN AddPost(written, s, it.p, [via |-> x[2], hops |-> it.h + 1], FALSE, FollowSet(x[1])) ELSE s
Taking(d, c, items) == FoldLeft(LAMBDA s, it : TakeItem(<<d, c>>, s, it), StoreOf(d), items)
TakesPosts(d, c) ==
  LET items == Looked(d, c, Head(wire[<<c, d>>]).items)
      s     == Taking(d, c, items)
      added == s # StoreOf(d)
      fresh == {p \in Held(s) : /\ s.held[p].via = c /\ s.held[p].hops <= 1
                                /\ written[p][1] + Minute > now /\ Author[p] \in FollowSet(d)}
      onward == IF added THEN Frames(ItemsOf(s.held, Newest(written, fresh, PerFrame))) ELSE <<>>
  IN  /\ Arrives(c, d, "posts")
      /\ IF postsIn[<<d, c>>] >= LinkMaxPosts
         THEN wire' = Taken(c, d) /\ UNCHANGED <<storeVars, feedAt, postsIn>>
         ELSE /\ Stores(d, s)
              /\ postsIn' = [postsIn EXCEPT ![<<d, c>>] = @ + Len(items)]
              /\ feedAt' = [feedAt EXCEPT ![<<d, c>>] = now]
              /\ wire' = [x \in Pairs |->
                            IF x = <<c, d>> THEN Tail(wire[x])
                            ELSE IF x[1] = d /\ x[2] # c /\ up[x] /\ x \in Trusts
                            THEN wire[x] \o onward ELSE wire[x]]
      /\ UNCHANGED <<written, unfollows, up, tasks, disk, now, links, crashes>>

\* The operator unfollows an author, or follows it again.
FollowToggles(d, a) ==
  /\ <<d, a>> \in Trusts
  /\ \/ a \in unfollows[d] /\ unfollows' = [unfollows EXCEPT ![d] = @ \ {a}]
     \/ /\ a \notin unfollows[d]
        /\ Cardinality({x \in Pairs : x[2] \in unfollows[x[1]]}) < MaxUnfollows
        /\ unfollows' = [unfollows EXCEPT ![d] = @ \cup {a}]
  /\ UNCHANGED <<written, storeVars, feedAt, linkVars, disk, now, links, crashes>>

\* prune(), every six hours: forwarded posts that are too old, not remembered.
Expired(d) == {p \in Forwarded(StoreOf(d)) : written[p][1] + Keep < now}
Prune(d) ==
  /\ held' = [held EXCEPT ![d] = [p \in Posts |-> IF p \in Expired(d) THEN None ELSE @[p]]]
  /\ UNCHANGED <<written, evicted, had, unfollows, feedAt, linkVars, disk, now, links, crashes>>

\* social.json is written at most every five seconds.
SavesSocial(d) ==
  /\ d \in Killed /\ disk' = [disk EXCEPT ![d] = held[d]]
  /\ UNCHANGED <<written, storeVars, unfollows, feedAt, linkVars, now, links, crashes>>

\* A kill and a restart: load() reads the posts as they were on disk.
Crash(d) ==
  /\ d \in Killed /\ crashes < MaxCrashes /\ crashes' = crashes + 1
  /\ held' = [held EXCEPT ![d] = disk[d]]
  /\ evicted' = [evicted EXCEPT ![d] = <<>>]
  /\ had' = [had EXCEPT ![d] = {p \in Posts : disk[d][p] # None}]
  /\ up' = [x \in Pairs |-> up[x] /\ d \notin {x[1], x[2]}]
  /\ postsIn' = [x \in Pairs |-> IF d \in {x[1], x[2]} THEN 0 ELSE postsIn[x]]
  /\ wire' = [x \in Pairs |-> IF d \in {x[1], x[2]} THEN <<>> ELSE wire[x]]
  /\ tasks' = [x \in Pairs |-> IF x[1] = d THEN <<>> ELSE tasks[x]]
  /\ UNCHANGED <<written, unfollows, feedAt, disk, now, links>>

Time ==
  /\ now < EndOfTime /\ now' = now + 1
  /\ UNCHANGED <<written, storeVars, unfollows, feedAt, linkVars, disk, links, crashes>>

Next ==
  \/ \E d \in Daemons : Prune(d) \/ SavesSocial(d) \/ Crash(d)
  \/ \E d \in Daemons, p \in Posts : WritePost(d, p)
  \/ \E x \in Pairs : \/ Connects(x[1], x[2]) \/ Disconnects(x[1], x[2])
                      \/ AnswersFeed(x[1], x[2]) \/ TakesPosts(x[1], x[2])
                      \/ FollowToggles(x[1], x[2])
  \/ Time

Spec == Init /\ [][Next]_vars

-----------------------------------------------------------------------------

\* A daemon's own posts stay its own: whatever floods in, comes back by way of
\* a contact or grows old, they go only when their author writes more than is
\* kept of anyone.  (A kill before the write of social.json may lose one, and a
\* later one then comes back from a contact.)
OwnStays ==
  [][\A d \in Daemons, p \in Posts :
       /\ held[d][p] # None /\ held[d][p].via = None
       /\ held'[d][p] # held[d][p]
       => crashes' > 0 \/ \E q \in Posts : Author[q] = d /\ written'[q] # written[q]]_vars

\* A post is new once: one that was dropped, for room or for its age, does not
\* come back while the process runs, by whatever route it is sent again.
NewOnce ==
  [][\A d \in Daemons : \A p \in had[d] :
       held[d][p] = None /\ held'[d][p] # None => crashes' # crashes]_vars

\* "passed on at most one hop further, by contacts who follow you"
\* (CHANGELOG.md:56): what goes out is the sender's own, or what an author it
\* follows sent to it directly.
PassedOnOnce ==
  [][\A x \in Pairs : \A i \in DOMAIN wire'[x] \ DOMAIN wire[x] :
       wire'[x][i].t = "posts" =>
         \A it \in ToSet(wire'[x][i].items) :
           \/ Author[it.p] = x[1]
           \/ /\ Author[it.p] \in FollowSet(x[1])
              /\ held'[x[1]][it.p].via = Author[it.p]]_vars

\* Neither of the two lets a post go round for ever.
TravelsOnce == NewOnce /\ PassedOnOnce
=============================================================================
