------------------------------ MODULE MCSocial ------------------------------
(***************************************************************************)
(* Rooms, posts, and the history of a daemon, sealed under a passphrase.    *)
(* They share no state: a run checks them, each by itself (which), so that  *)
(* its states are a sum and not a product.                                  *)
(***************************************************************************)
EXTENDS Rooms, TLC

CONSTANTS
  Posts, Author, Trusts, MaxPosts, TrimTo, MaxPerAuthor, MaxPerAuthorDay, EvictedCap, PerFrame,
  PostsReplyLimit, LinkMaxPosts, Minute, PostsOverlap, Day, Week, PostsKeep, PostsEnd,
  MaxPostLinks, Killed, MaxPostKills, MaxUnfollows,         \* of Feed
  Msgs, Passphrases, Calls, OneSet, MaxKeys, VaultKills,    \* of Vault
  KillsEnd, RoundEnd, Bystanders                            \* bounds of a run

VARIABLES
  which,
  written, held, evicted, unfollows, feedAt, feedUp, postsIn, feedWire, feedTasks, feedFile, had,
  feedNow, feedLinks, feedKills,
  vault, texts, key, vaultFile, dirty, call, wait, keys, told, vaultKills

feedVars == <<written, held, evicted, unfollows, feedAt, feedUp, postsIn, feedWire, feedTasks,
              feedFile, had, feedNow, feedLinks, feedKills>>
vaultVars == <<vault, texts, key, vaultFile, dirty, call, wait, keys, told, vaultKills>>

F == INSTANCE Feed WITH
       ReplyLimit <- PostsReplyLimit, Overlap <- PostsOverlap, Keep <- PostsKeep,
       EndOfTime <- PostsEnd, MaxLinks <- MaxPostLinks, MaxCrashes <- MaxPostKills,
       up <- feedUp, wire <- feedWire, tasks <- feedTasks, disk <- feedFile, now <- feedNow,
       links <- feedLinks, crashes <- feedKills
H == INSTANCE Vault WITH MaxCrashes <- VaultKills,
       rec <- texts, disk <- vaultFile, crashes <- vaultKills

ASSUME VaultAssumption ==
  /\ {MaxKeys, VaultKills} \subseteq Nat
  /\ None \notin Passphrases \cup H!Vaults \cup (0..MaxKeys)

ASSUME FeedAssumption ==
  /\ IsFiniteSet(Posts) /\ Author \in [Posts -> Daemons]
  /\ {MaxPosts, TrimTo, MaxPerAuthorDay, EvictedCap, PostsReplyLimit, LinkMaxPosts, Minute,
      PostsOverlap, Day, Week, PostsKeep, PostsEnd, MaxPostLinks, MaxPostKills, MaxUnfollows} \subseteq Nat
  /\ MaxPerAuthor \in Nat \ {0} /\ PerFrame \in Nat \ {0} /\ PostsKeep <= PostsEnd
  /\ None \notin Daemons \cup F!Entry \cup ((0..PostsEnd) \X (1..Cardinality(Posts)))

\* With saves and kills the room's clock stops earlier.
RoomsBound ==
  \/ now <= KillsEnd
  \/ /\ crashes = 0 /\ \A d \in Daemons \ {Founder} : disk[d] = None
     /\ disk[Founder] # None /\ Known(disk[Founder]) = {Founder} /\ disk[Founder].msgs = {}

\* One post goes round, with no save, no kill and nobody unfollowed; or two posts
\* meet in the stores of the others, while the Bystanders have no link.
PostsBound ==
  LET count == Cardinality({p \in Posts : written[p] # None})
      apart == {s \in Pairs : {s[1], s[2]} \cap Bystanders # {}}
  IN  \/ /\ count <= 1 /\ feedNow <= RoundEnd /\ feedKills = 0
         /\ \A d \in Daemons : unfollows[d] = {} /\ \A p \in Posts : feedFile[d][p] = None
      \/ /\ count <= 2 /\ feedLinks <= 2
         /\ \A s \in apart : ~feedUp[s] /\ s[2] \notin unfollows[s[1]]
         /\ \A d \in Bystanders : had[d] = {}

SocialInit ==
  /\ which \in {"rooms", "posts", "vault"}
  /\ Init /\ F!Init /\ H!Init

SocialNext ==
  \/ which = "rooms" /\ Next /\ UNCHANGED <<which, feedVars, vaultVars>> /\ RoomsBound'
  \/ which = "posts" /\ F!Next /\ UNCHANGED <<which, vars, vaultVars>> /\ PostsBound'
  \/ which = "vault" /\ H!Next /\ UNCHANGED <<which, vars, feedVars>>

SocialSpec == SocialInit /\ [][SocialNext]_<<which, vars, feedVars, vaultVars>>

-----------------------------------------------------------------------------
(* The constants of a run: ann, ben and cat know each other; ann writes p1  *)
(* and p3, ben writes p2.                                                   *)

CONSTANTS ann, ben, cat, p1, p2, p3
BothWays(s) == s \cup {<<t[2], t[1]>> : t \in s}
AllThree == BothWays({<<ann, ben>>, <<ben, cat>>, <<ann, cat>>})
Writer == (p1 :> ann) @@ (p2 :> ben) @@ (p3 :> ann)

-----------------------------------------------------------------------------
(* The properties of Feed and Vault, stated there.                         *)

\* The variables of all keep their types.
SocialTypeOK == TypeOK /\ F!TypeOK /\ H!TypeOK

\* One's own posts go only when one writes more than is kept.
OwnStays == F!OwnStays

\* A post that was dropped does not come back, and a post is passed on by those
\* who follow its author, one hop.
TravelsOnce == F!TravelsOnce

\* No text is in the clear once a passphrase is set.
NeverInClear == H!NeverInClear

\* The passphrase last told opens the vault, and the vault's key the history.
OpensWithTold == H!OpensWithTold
=============================================================================
