# NodeSignal: models, checks and proofs

This directory holds TLA+ models of NodeSignal, the messenger that runs beside a
Bitcoin node: what its daemon `nodesignald.js` and the modules it loads do, in the
order they do it. TLC checks them on small instances; the TLA+ proof system (tlapm)
proves the most important facts for every value of the constants.

    tlc -workers 2 -config Delivery_links.cfg MCDelivery.tla     # a run
    tlapm DeliveryProofs.tla                                     # a proof module

`PROJECT.json` lists the components, the runs, the lines of code each definition
stands for, the mutants, the findings, the hazards and the theorems. A definition
whose name ends in `_Something` and that is marked `mutant` is a plausible bug: put in
the place of the definition before the underscore, it breaks the property that
`PROJECT.json` names beside it.

## 1. The system

A daemon is one Node.js process: handlers of sockets, timers and console calls that
run one at a time, to their next `await`. Between the two ends of an `await`, and
between any two handlers, everything else may happen. So an action of a model is one
handler, or the part of one up to an `await`; its interleavings are the system's.

### 1.1 Components

| Component | Code | State | Operations | Model |
|---|---|---|---|---|
| message delivery | `nodesignald.js` 1084-2060, 2536-2560 | the records of `contact.msgs` (status, `nextTry`, `heldAt`, `directGaveUp`, `mbTriedAt`), `outText`, links and their `unacked`, `links`, `dialing` | send, cancel, retry, accept or dismiss a key, retry tick, dial, hello, ack, deposit and its answer, receipt, save, restart | `Delivery`, implements `Courier` |
| contact records, trust on first use | `nodesignald.js` 645-1060, 1287-1325, 2358-2535 | `state.contacts`: `peerFp`, `pendingFp`, `prevFps`, `stranger`, `auto`; which record a link is for | calls, hello, dials, mail from strangers, introductions, adding, moving, accepting a key, removing | `Contacts` |
| sealed history (vault) | `nodesignald.js` 283-339, `store.js` | `state.vault`, sealed texts, the key in memory | set, unlock, lock, change, each around a scrypt; saves | `Vault` |
| mailbox service | `mailbox.js`, frames in `nodesignald.js` 1727-1790 | boxes, items, byte count, `mailbox.json` | mb-reg, mb-put, mb-get, mb-ack, expiry, throttled write, shutdown, restart | `Mailbox` |
| collecting one's own mail | `nodesignald.js` 1516-1581 | the fetch under way | mb-get, mb-items, receipts, mb-ack | `Fetch`; its two ends in `Delivery` |
| router port mapping | `portmap.js` | the cycle in flight, the mapping held, `stop()` | map, renew, back off, remove | `Portmap` |
| onion service | `torcontrol.js`, `nodesignald.js` 2579-2620 | the attempt, the control connection, the service's key | attempt, authenticate, add, loss, stop, restart | `Onion` |
| updates | `updater.js`, `nodesignald.js` 2622-2735, `cli.js` 505-620, the systemd units | `updateInfo`, `lastRelease`, files in `updates/` | check, download, hand over, root's apply, answer | `Update` |
| persistence | `nodesignald.js` 189-262 | `state.json` (debounced), `mailbox.json`, `social.json` (throttled) | save, flush, load | inside the models above |
| posts | `social.js` 188-275, `nodesignald.js` 1347-1415, 1584-1618 | the bounded store, what it dropped, `feedAt`, `unfollows`, `linkTasks` | write, push, feed-req, posts, pass on, prune, unfollow, save, restart | `Feed` |
| rooms | `social.js` 277-321, `nodesignald.js` 1417-1442, 1619-1674, 2401-2447 | members, messages, `pendingJoins`, `roomAt`, `linkTasks` | join, send, leave, room-req, room-state, room-items, room-err, prune, save, restart | `Rooms` |
| introductions | `nodesignald.js` 1678-1726 | the introductions table | who-req, who, add | `Contacts` (the records they make) |
| Windows supervisor | `packaging/windows/sea-main.js` 321-345, 430-620 | the child, back-off, two pid files, stop requests | supervise, stop, restart | `Supervisor` |
| Noise sessions | `noise.js` | handshake state, keys, frame numbers | three messages of either version, encrypt, decrypt | `Noise` |
| connection limits | `nodesignald.js` 785-860 | slots, token buckets per source block | take, refill, evict | `Limits` |
| one attempt at a mapping | `portmap.js` 200-728 | the routers that answered, the one asked | search, load, read, add, NAT-PMP | `Gateway` |
| Bitcoin RPC poll | `nodesignald.js` 388-580 | the poll under way, the last result | poll, answers, failures | `NodeRpc` |
| which node, which file | `setup-core.js` 690-1110 | - | one look at a machine | `Detect` |
| edits of bitcoin.conf | `setup-core.js` 40-520 | the file, its copy | put in, renew, take out | `Conf` |
| the RPC login | `setup-core.js`, `cli.js`, `install.js`, `sea-main.js` | hash in bitcoin.conf, password in the config, record of the file | install, add, rotate, remove, uninstall | `Login` |
| program files on Windows | `sea-main.js` 560-640, 990-1090 | app, app.new, app.old, nodesignal.exe | install, upgrade, uninstall | `Install` |
| an older install's state | `setup-core.js` 200-330, `cli.js` 795-925 | the two folders | read, write, hand over | `StateCopy` |
| backup and restore | `backup.js`, `cli.js` 380-470 | the backup file, `state.json`, `social.json` | export, merge, restore | `Backup` |
| dialling | `nodesignald.js` 706-770 | - | TCP, SOCKS5 | not modelled: a dial ends in a link or an error |
| console server, page, QR codes | `nodeps.js`, `nodesignal.html`, `qr.js` | sessions | - | not modelled: request by request, no state between |
| users, units, firewall, release tools | `cli.js`, `install.js`, `packaging/`, `tools/` | - | run once, by hand | not modelled |

### 1.2 How they interact

    console --- ws ---> handleUi -- chat.send ----> queue --> flush --> link --> contact
                                 -- contact.* ----> records <------ hello, handshake
                                 -- vault.* ------> vault <-------- every text stored
                                 -- post, room.* -> store --> links, or linkTasks until one is up
    hello ----------> syncWith: feed-req, room-req --> what was missed
    timers ---------> retryTick, mailboxTick --> dial, deposit, fetch
    contact's mailbox <---- mb-put --- deposit of what a dial could not deliver
    own mailbox ------ mb-items -----> messages and receipts
    every change -----> save() (100 ms) / jsonFile.changed() (30 s) --> disk --> next start

The onion service and the port mapping are ways in: they change where the daemon can be
reached and share nothing else with it. An update ends the process and starts another. The
supervisor starts the daemon again; setup, the installers and `restore` work on the files
beneath it: bitcoin.conf, the config, the program folder, the state folder.

### 1.3 What is hard here

- **Two ways at once.** A message may go out on a dialled link, on the contact's own
  call and to its mailbox at the same time; answers come back in any order, after a
  cancel, after giving up, after a restart.
- **Links outlive what they were for.** A socket's close event comes when another link
  has taken its place, or its contact's record was removed, moved or made again.
- **State read before an await and used after it**: every passphrase call, every install
  call, `stop()` of the two controllers.
- **Saves are late**: a tenth of a second for `state.json`, up to thirty seconds for
  `mailbox.json`; a kill in between goes back.
- **Somebody else's resources**: strangers' budgets, mailbox limits, files that bear the
  same name, a router that forgets.
- **Everything must go on**: retries, renewals, re-attempts with no timer left are silent
  failures.
- **Several files, one fact**: the login is a hash, a password and a record; a backup is two
  files; an upgrade is a folder and an executable. A kill falls between any two writes, and
  the operator, the old daemon or a shortcut acts in between.
- **Nobody vouches for the network**: routers, lines and files lie about who they are.

### 1.4 What makes each part correct

- Delivery: "delivered" is true and final; nothing stays "sending" with nobody sending it;
  what waits at a mailbox never fails for its age; the disk catches up; every message ends
  settled, and delivered if the contact can be reached.
- Contacts: nobody's words are filed under another; a pinned key changes only by the
  operator's word; strangers stay on their budget.
- Vault: nothing in the clear; the history opens with the passphrase last told.
- Mailbox: limits hold for what is really there; mail stays until due, taken or killed.
- Posts: one's own stay, what was dropped does not come back, nothing travels further than
  one hop. Rooms: nobody is in against its operator's word, and of a member's words the
  newest counts, whatever way it came.
- Port mapping, onion service, updates: never asleep, honest status, `stop()` is final, one
  address, one forward, only signed packages.
- Sessions are with whom they say, in order, nothing twice; limits hold for each source.
- The machine: edits change what they were asked and nothing else; hash, password and record
  agree whenever a command is done; no daemon runs files of two versions; an identity is
  carried over whole or not at all; a restore drops nothing; a supervisor neither sleeps nor
  spins.

## 2. The plan

Order: delivery first (the product), then what it rests on, then the machine around it.

1. `Courier`, `Delivery`, `DeliveryProofs`: done.
2. `Vault`; `Mailbox`; `Contacts`: done.
3. `Portmap`, `Onion`, `Update`, `Supervisor`, and `Fetch` with `Mailbox` at the other end,
   composed in `MCServices`: done.
4. `Feed` and `Rooms`, composed with `Vault` in `MCSocial`: done.
5. The machine: `Conf`, `Login`, `Install`, `StateCopy`, `Detect`, `Backup`, `Gateway`,
   `Noise`, `NodeRpc`, `Limits`, composed with `Contacts` in `MCHost`: done.
6. Open: the table of introductions; `Contacts` with `Delivery`: a message queued while its
   record moves; a fair `Feed`, to state what a contact gets in the
   end.
7. Proofs: `Delivery` with its refinement of `Courier` (`DeliveryProofs`), the services
   (`ServicesProofs`), posts, rooms and the vault (`SocialProofs`), the mailbox
   (`MailboxProofs`), contacts and the machine (`HostProofs`), with `NoiseProofs`,
   `LimitsProofs` and `Folding`, the facts about folds, under them: done.
8. Open proofs: `EditsKeep`; the type invariants of `MCServices` and `MCHost`, of which the
   parts that a proof needs are proved.

Small components that share no state are checked in one run as a sum of state spaces
(`MCServices`, `MCSocial`, `MCHost`): a variable `which` chooses the component a
behaviour is about, and the others stand still.

## 3. The models

### 3.1 `Delivery` and `Courier`

One contact and the messages the operator writes to it. `msg[m]` is the record in
`contact.msgs` as far as it decides anything: its status, whether it is held, due, given up
for direct tries, tried at the mailbox within ten minutes, and why it failed. `link[l]` is an
authenticated session with its `unacked` list, the frames and acks under way on it, and
whether the peer still lives; `bound` is `links.get(host)`, `dialing` the entry in the set of
dials. The contact's daemon is `got` (its history), `gotDisk` and `late` (bytes of dead
connections that still arrive). The mailbox is `deposit`, `box`, `receipts`. `disk` and
`dirty` are `state.json` and the debounced save.

Actions are the handlers: `Send`, `Cancel`, `RetryNow`, `AcceptKey`, `DismissKey`, `Unlock`,
`Lock` (console); `RetryTick`, `DialForOther`, `ComesDue`, `Ages`, `MayDepositAgain`
(time); `DialOk`, `DialFail`, `LinkIn`, `HelloIn`, `WrongKeyIn`, `PeerWrites`, `AckIn`,
`LinkClose`, `SockClosed` (network); `Receive`, `ReceiveLate`, `Collect`, `ContactSaves`,
`ContactCrash` (the contact); `MailStored`, `DepositLost`, `DepositOk`, `ReceiptIn`,
`MailExpires`; `Save`, `Crash`. `flushPending`, `deferMsg`, `failMsg`, `retryTick` are
operators on the table of records, so that a handler that calls them is one action.

Time is what the code compares: a `nextTry` that has come or not, an age on either side of
the one-day and seven-day limits, the ten minutes between deposits. Frames on one link are a
set: ids make their order irrelevant to the receiver.

`Courier` is what the operator is promised: one verdict per message (waiting, held,
delivered, cancelled, given up, own address), the ways it may move on, "delivered" only
after the contact stored it, and nothing made up by a restart. `KeepsPromise` is the
refinement.

### 3.2 `Contacts`

Records by host: an address, or a placeholder (`tor`, `mbox`, `peer`) made of a key. Peers
call from addresses or through Tor (`Loopback`), with any key. `Calls` is the handshake
(`serveSecure`), `Hello` the first frame (`applyHello`), two steps with removals, moves and
other calls in between; `DialStarts`, `DialAnswered`, `DialFails` likewise, for a record
that may be gone meanwhile (`listed`). `MsgIn` and `MailIn` store with the stranger's
budget; `Introduced`, `Identified`, `IdentifyFails` make and name records; `Adds`, `Writes`,
`Accepts`, `Joins`, `AcceptsKey`, `DismissesKey`, `Removes` are the operator's. `Rekey` is
`rekeyContact` with the links and dials it moves. Left out: nicknames, what a hello announces
besides the key, addresses a peer claims (a dial to one is a dial that fails).

### 3.3 `Vault`

A text is the number of the key it is sealed to, 0 in the clear. Each console call that
stretches a passphrase is two or three steps (`SetStarts`, `SetDone`, `UnlockStarts`,
`UnlockDone`, `ChangeStarts`, `ChangeChecked`, `ChangeDone`), holding in `call` what it read
before it left the event loop. `StoreText` is any message stored; `Lock`, `WaitOver` (the
delay after a wrong passphrase), `SaveFires`, `Stop`, `Crash`. The cryptography is left out,
and so is the cache of opened texts.

### 3.4 `Mailbox`

`MailboxStore` as operators on `[box, bytes]`: `Register`, `Unregister`, `Deposit`,
`Without` (ack), `Prune`, `Restore` (fromJSON, which registers and deposits again under the
same limits). Around it the frames `Reg`, `Put`, `Get`, `Ack`, the tick, the setting, the
file that is written at most every thirty seconds (`Write`, which may fail), `Stop` (the
flush of a shutdown), `Exit`, `Crash`. Blobs are sizes.

### 3.5 `Portmap`, `Onion`, `Update`, `Supervisor`, `Fetch`, composed in `MCServices`

`Portmap`: one cycle at a time (`Cycle`, then `Add`, `Owner`, `Replace`, `Natpmp`, one per
call to the router), its end (`Granted`, `Missed`, `Adopt`), `Stop` with the work it waits for
and its time limit, removals that ask and then delete. The router refuses timed leases,
answers 718, loses calls or answers, forgets entries and forwards the port for another device.

`Onion`: an attempt over the candidate ports, one step per await (`Connected`, `Informed`,
`CookieRead`, `CookieUnreadable`, `Proven`, `Authenticated`, `Added`), each of which may fail
instead (`Fails`, `Unproven`), what follows (`NextPort`, `Down`), the loss of the connection
that holds the service, `Stop` and a restart at any point. `Up` is startOnion's `onUp`.

`Update`: the check (`Check`, `Checked`), the install calls with `downloadVerified` step by
step on files shared by name (`RemovesPart`, `OpensPart`, `Filled`, `Renames`, `Cleans`), the
hand-over with its two-minute timer, root's side (`Applies`, `Verifies`, `Copies`, `Installs`,
`Succeeds`, `Refuses`), the Windows program in one step, restarts of the daemon at any point.
A release is its version: signatures and manifests are taken to do what they are for.

`Supervisor`: the processes of an installed NodeSignal. `Run`, `Claims`, `TimerStarts`,
`Exited` with `Crashed` and `TooMany`, `RequestStop`, `GraceOver` are supervise();
`OrphanLeaves` is the daemon's guard; `Begin` to `Removes` are stopRunning() with the numbers
it read once. Ends, kills and signals come at any step; on Windows a kill takes the children
along. `MCServices` checks the processes with time standing still (every wait is over at
once), `MCHost` one supervisor with its clock.

`Fetch`: an operator's daemon and its mailbox, which is an instance of `Mailbox`, over one
link. `LinkUp` and `Poke` register and ask; the mailbox reads a frame (`TakesFrame`), answers
one request at a time (`TakesGet`, `Answer`, `Drained`: serveReq) with the oldest page in
frames (`Parts`); `TakesItems` files what it can (`Filed`, `Refuses`), acknowledges that and
asks for more if the last frame moved. Links break, either daemon is killed and goes back to
its file, the operator removes strangers. mb-reg and mb-get, sent together, are one frame.

### 3.6 `Feed` and `Rooms`, composed in `MCSocial`

`Feed`: `createStore` of `social.js` as operators on `[held, evicted]`: `Accepts`, `AddPost`
with the limit per author and `Trim` (own posts never, followed authors last), `Drop` and
what it remembers. Around it `WritePost` (stored and pushed, or left in `tasks` until a link
is up), `Connects` (the hellos, with the feed-req of `syncWith`), `AnswersFeed`, `TakesPosts`
(the whole handler: limits of the link, who may send whose posts, what is passed on at once),
`FollowToggles`, `Prune`, `SavesSocial`, `Crash`. A post is written at a time and as the
how-manieth, so that two of one moment have an order, as two of one millisecond need not.

`Rooms`: one room in each member's store: `AddMember` (the newest word of a member),
`AddRoomMsg`, and the frames. `Join`, `Send`, `Leave` are the operator's; `Connects` asks for
what was missed (`Asks`) and sends what waited; `AnswersReq`, `JoinsBy`, `TakesState`,
`TakesItems`, `TakesErr` are the handlers. Every signed thing has a moment of its own: the
clock moves on with it. `wants` is a history variable: the operator's last word.

### 3.7 The machine, composed with `Contacts` in `MCHost`

- `Conf`: a file is its lines and whether the last one ends in a newline. `UaEdit` and
  `RpcEdit` are what the two edits make of it (put in, renew, take out, with the blank lines,
  sections, `includeconf` and the operator's own `rpcwhitelist` they look at); `Empties` and
  `Writes` are `editConf`, with a kill in between; `OperatorEdits` the operator.
- `Login`: the three files, written by eight commands in their orders. Which file a command
  takes (`Target`) differs: the record or the running node.
- `Install`: `Unpacks`, `StepsAside`, `StepsIn`, `Tidies`, the copy file by file where a
  rename is refused, the executable, the uninstall; a daemon that is started at any step.
- `StateCopy`: read everything as the old folder's owner, write each file `O_EXCL` as the new
  account, start; kills anywhere, an old daemon that may go on saving.
- `Detect`: a machine is chosen at the start (the node, a stranger's bitcoind, folders,
  files), `Found` is `detectBitcoinNode` as one function of it.
- `Backup`: `Merge` is `mergePayload`; `Reads`, `Stops`, `WritesState`, `WritesSocial` are
  `cmdRestore`, beside a daemon that stores messages.
- `NodeRpc`: polls of three calls each, by `pollInFlight` at most one at a time, though calls
  of a failed one outlive it.
- `Gateway`: `map()`, from the first reply of the search to a mapping or an error; each
  device is of a kind (what it claims, where its addresses point, who has the port).
- `Noise`: everything ever written is in `wire`; any end may be handed any of it, or `Junk`.
  A DH value is the set of its two keys, a chaining key the sequence of what was mixed in.
- `Limits`: `rateOk` and `onPeerSocket` with a small table, and a clock.

Of these at most one runs in a behaviour, so `MCHost` lets them share the variables `v1`,
`v2`, ...

## 4. The runs

Model-checking takes between some seconds and four minutes a run with two workers.

| Run | Question | Bounds, and why they are enough |
|---|---|---|
| `Delivery_links` | `SendingIsCarried` | two messages, two sessions: a new link beside a closing one, dialled and inbound, each with its own unacked list; no restarts (below), no ages |
| `Delivery_ways` | `DeliveredWasStored`, `TypedStaysReadable`, `CleanIsSaved`, `KeepsPromise` (refinement of `Courier`) | `MCDelivery`, one message and one session, one plan per behaviour (`WaysPlans`). Running: all dial errors, ages 0 and 1 (before and after the one-day limit), mail may expire. Sealing: the vault on, locked and unlocked, dials that fail plainly or lead back here. Restarting: a restart between any two steps; after it the state is one a save has reached, so a second adds no new kind of state. Messages do not interact except through links, which `Delivery_links` has two of |
| `Delivery_live` | `EventuallySettled`, `EventuallyDelivered` | one message, all three ages, one restart of the contact, so that a link may be dead without our knowing |
| `Delivery_cancel` | a finding, section 7 | |
| `Mailbox_held` | `MailIsHeld` of the mailbox | three recipients for two boxes, two ids of sizes one and two with three bytes in all: every limit binds; two ticks of a clock with a time limit of two: due and not due; kills, clean exits and writes that fail at any step |
| `Mailbox_shutdown` | a finding | |
| `Contacts_dead` | a finding, with two sessions | |
| `Services_run` | `OneAddress`, `OneAttempt`, `NothingForImpostors` of the onion service, `LeavesNothing` of the port mapping, `InstallsOnlyWhole` of updates, `StopLeavesNone` of the processes, `NoneLost` of the fetch; and of them all `ComesUpAgain` and `RunsItsCourse`, each by itself | two control ports (a next one and a last one), two restarts; two router faults before and after `stop()`, another device once; two install calls on the same files, two checks under way, two releases; two supervisors, two daemons, one command, one kill from outside; three deposits, two of them one message of a stranger, pages of two in frames of one, room for one stranger that another has, one link or daemon lost: a page of mail there is no room for happens, and an acknowledgement that is lost |
| `Social_run` | `InOnlyIfWanted`, `LatestWordKept` of rooms; `OwnStays`, `TravelsOnce` of posts; `NeverInClear`, `OpensWithTold` of the vault | `MCSocial`, each by itself. A room of three, two of which have an address, two links, five moments (join, join, leave, join again, a message), of which saves and a kill have the first four (`KillsEnd`); a full room is left to the theorems. One post among three that all know each other: one hop more than is allowed exists. Two posts, of one author or of two, in the stores of two with room for one (total and per author), over two links, with a kill and an unfollow: every limit binds (`PostsBound`). Vault: two messages, three passphrases, two calls under way at once, two restarts; one `vault.set` at a time |
| `Rooms_old` | a finding: a room older than `keepMs` | |
| `Host_run` | `StrangersOnBudget`, `KeysHold` of the contacts; `EditsKeep`, `LoginInOrder`, `NeverMixed`, `Carried`, `FindsTheNode`, `MergeKeeps`, `NoOlderNews`, `OneForward`, `SessionIsTheirs`, `LimitsHold`, `NeverSpins` of what is in section 3.7 | Contacts: one address and the placeholders, two keys that contend for it, one session, one dial, two moves of the operator. bitcoin.conf: one line of the operator's, both edits in any order, one later edit of hers or one kill (an edit looks at one line of hers and at what is ours). Login: two files, three passwords, two kills, one move of the node: a job cut short, mended by the next, with the node elsewhere. Files: two files of two versions, two kills. Copy: one file that sorts before `state.json`, one after. Noise: a caller with two peers, a peer with two callers, and two calls of one caller with two frames. Routers: two devices of eight kinds, which differ from a usable one in one respect each. Limits: two sources and Tor for two buckets. Supervisor: three ends within eight units. `HostTypeOK` holds, beside the types, the inductive invariants of section 5 (`LoginInv`, `InstallInv`, `HalfWritten`, `CopyInv`, `ForwardInv`, `NewsInv`, `LimitsInv`, `CrashesInv`) |
| `Backup_restore` | a finding | |

`Delivery_links`, `Delivery_ways` and `Delivery_cancel` leave out of the fingerprint what
nothing reads any more (`Seen`): the contact's disk, since no plan of theirs restarts it, and
the sender's disk once it does not restart again. Symmetry is used only where no liveness
property is checked.

### What is shown

- A message is never "sending" with no session answering for it and no retry due
  (`SendingIsCarried`), however links are opened, replaced and closed. What a link sent and
  was not told of goes back to the queue when its socket closes.
- "delivered" is never made up, never taken back except by a restart from an older save
  (`DeliveredWasStored`), and all that the operator is shown is what
  `Courier` allows (`KeepsPromise`).
- With no save scheduled the disk holds the same outcome for every message as memory.
- The mailbox's byte count is right after every expiry, acknowledgement and reload, mail is
  there once, oldest first, and leaves a box only when it is due, acknowledged, or lost to a
  kill or to a late shutdown (`MailIsHeld`).
- Mail the mailbox let go of is in the history, once, however often it was left or sent, unless
  a kill came before the save (`NoneLost`); a contact's mail is collected in the end, but for
  one case: a page full of mail from strangers there is no room for stands in the way of
  everything behind it until the operator removes one or it is due (`RunsItsCourse`, `Jammed`).
- Whatever is removed, moved or dialled, a conversation holds only the words of its pinned
  keys, and a pin moves only to a key the operator was shown (`KeysHold`).
- The port mapping is kept and the onion service comes back, one attempt at a time, whatever
  failed (`ComesUpAgain`); after `stop()` nothing comes back and, if the router answers, nothing
  is left (`LeavesNothing`). One
  attempt leaves one forward, at the router it names, or none (`OneForward`), unless a router
  never confirmed what it did.
- A daemon's own posts stay whatever floods in, a dropped post is not taken a second time,
  and what is passed on came from an author one follows, directly. (A
  post goes when its author's next one finds the store, or the author's share of it, full.)
- No room-state, late answer or second invitation puts a daemon into a room that its operator
  does not want; the words of a member, in whatever order they come, end in the newest.
- Two install calls may tear each other's downloads (a file with bytes missing can bear the
  final name, against the comment at `updater.js` 529-531); what root installs is
  nevertheless whole, because it checks its own copy (`InstallsOnlyWhole`), and every install
  that was begun ends on the console (`RunsItsCourse`).
- An edit of bitcoin.conf leaves the operator's lines, in their order and sections, and the
  other RPC users' rights; asked again it changes nothing; taken out, the file is what it was
  (`EditsKeep`). A kill in the middle of an edit loses nothing as long as the operator has not
  edited since NodeSignal first changed the file, whose copy is made once. All this for one
  later edit of hers: two that take our own lines apart (a marker gone, our `rpcwhitelist`
  left behind) make an edit report the wrong line, or change other users' rights.
- Whatever was killed before it, a command on the login that ends without a refusal leaves
  hash, password and record matching (`LoginInOrder`); a purge leaves no login behind when the
  node read one and the same file all the time. After a move of the node the Windows install
  overwrites the record, and the old file keeps its block.
- Setup finds the bitcoin.conf of the node root installed, or of the only one that runs, by its
  -conf, its -datadir or its account's folder if that holds blocks and a cookie
  (`FindsTheNode`); with another default folder it may not (section 7, at the end).
- No daemon runs files of two versions except while files are replaced one by one, and every
  job mends what a killed one left (`NeverMixed`).
- What a session opens is what the peer whose key it names sealed, in order
  (`SessionIsTheirs`), whatever the line repeats, swaps, reflects or holds back.
- `stop` leaves no supervisor and no daemon that would stay (`StopLeavesNone`), a running
  supervisor brings the daemon up again and again, a daemon never outlives its supervisor for
  good (`ComesUpAgain`), and one that keeps ending is given up on (`NeverSpins`).

### Fairness

Safety runs assume none. `Delivery_live`: timers fire and closing sockets close (weak), a
dial ends (it has a time limit; weak), and the ten-second retry interval does not find a
link or a dial in its way every single time (strong: it is not synchronised with them).
`EventuallyDelivered` assumes besides that the contact can be reached again and again and
that connections last for a hello and a frame each way, again and again; `EventuallySettled`
assumes only that time passes. Neither assumes anything of the mailbox.
`ComesUpAgain`, port mapping: each call to the router ends, in an answer or its time limit
(`CallsEnd`, weak); faults are bounded. Onion service: Tor answers each step again and again,
with a method that works here (`Answers`). Processes: a process that can run does, and a
daemon that was asked to leave ends (after five seconds it ends itself); weak.
`RunsItsCourse`, installs: the daemon's awaits end and its timer fires; root's side may never
run. It assumes (`AnswersSoon`) that root's side writes its answer, after the package manager
restarted the daemon, before that new daemon has checked, downloaded and handed over anew.
Mail: both ends read what arrives and the two-minute timer fires (weak); links and daemons die
finitely often.

## 5. Proofs

All are checked by tlapm to the last leaf, for every value of the constants that satisfies
the named assumptions: any number of messages, links, daemons, calls, files, restarts and
kills. Each has the same plan: an invariant that is inductive, a lemma for the initial state,
one lemma or step per action, and the property as a consequence. Where the invariant is more
than the property and its types, this is why:

- `DeliveryProofs`. `DeliveredWasStored` is not inductive: an acknowledgement under way may
  turn any record into "delivered". `StoredFirst` adds that every acknowledgement on a link,
  every receipt and every "delivered" on disk is of a message the contact has stored.
  `SendingIsCarried`, `CleanIsSaved` and `TypedStaysReadable` need no more than the types;
  what their proofs rest on are lemmas about the queue's operators (what a flush, a deferral,
  a retry or a restart may make of a record). `KeepsPromiseTheorem` is the refinement: the
  initial states map to `Courier`'s, and every step to one of its steps or a stutter. It needs
  `StoredFirst` and `Kept`: only a message that was written has a record or a deposit, and
  what a deposit was acknowledged for, the mailbox had.
- `MailboxProofs`. `Good`: in every box the items are in order, within the limits, and the
  sum over the boxes is within the total; the store and the file both are so, and nothing in
  them is younger than the clock (`Past`). `Restore` deposits a file again under the limits:
  that it refuses nothing (`Restores`) is proved by going back over the boxes, each of which
  fits beside those before it because the whole does. `MailIsHeldTheorem` has three parts:
  order, the byte count, and that mail leaves only when due, acknowledged or killed.
- `ServicesProofs`.
  - Onion service: `KeyKept` (the key in memory is the key on disk, and no other was ever
    announced) for `OneAddressTheorem`; `OneAttemptTheorem` with its parts
    `OneOfThreeTheorem` and `HonestAndStopped`; `Busy` and `Unsent` for
    `NothingForImpostorsTheorem`.
  - Port mapping: `Accounted` says that without faults whatever the router forwards is held
    or is being removed, `StopOrder` and `CycleOrder` that a cycle and a `stop()` know of each
    other; hence `LeavesNothingTheorem`.
  - Updates: `Trusted` (root's copy is whole although the file it was made from need not be)
    for `InstallsOnlyWholeTheorem`. The attempt to prove it showed that `Launches` of `Update`
    took a torn file for what Windows is installing, though such a file does not start; the
    model was corrected.
  - Processes: `StopLeavesNoneTheorem` has the hypothesis `~Races`. Two starts at one moment
    both pass the check of the pid file, and then the file knows only one (section 6).
    `OneSup`: otherwise there is one supervisor, whose number is on disk, and one command;
    `Stopping`: what a command has seen to by the time it is where it is.
  - The operator's own mail: `AckedKept`, that an acknowledgement under way names only what is
    filed. A page is filed item by item until one is refused; that what it acknowledges is what
    was filed is proved of the fold (`NoneLostTheorem`).
- `SocialProofs`.
  - Posts. The property is about what a frame may make of a store, and frames come late, twice
    and over any route. `FdInv`: what a store holds without a mark `via` is its own, and what it
    holds at one hop came from the author (`FdStores`, and the same of the file); an item on the wire that says "no hop yet" is by the sender
    (`FdWires`); what a process has ever held it still knows or is too old to take
    (`FdHad`); what it wrote and did not drop for its own next post it holds or
    remembers (`FdOwns`, until a kill). `TravelsOnceTheorem` and `OwnStaysTheorem` suppose
    `EvictedCap >= Cardinality(Posts)`: the code remembers the ids of the last `5 * maxPosts` posts
    dropped. Beyond that the properties are false: a daemon that has forgotten a post takes it
    a second time, even its own from a contact, and gives another for it. What is passed on,
    and the types (`SocialTypeCorrect`), need no such hypothesis.
  - Rooms. What a store has after a frame is a fold over its items. That a member's word is
    never replaced by an older one (`LatestWordKept`) holds for frames of any length by
    induction over the frame, done with the least counterexample. `InOnlyIfWanted` needs that
    who joins wants to (`Wanted`).
  - Vault. `VaTyped`: a call that is under way holds what its next step needs. `VaHidden`
    adds that a vault in memory is the one on disk and that calls under way only exist while
    there is one; `VaReadable` adds, for operators who send one `vault.set` at a time
    (`OneSet`), that no call under way holds another vault than the present one's key pair:
    `vault.change` re-wraps the key it read before.
- `HostProofs`.
  - Contacts. `KeysHold` would be broken by a link that files under a record that meanwhile
    belongs to another. `SafeLinks`: a link that files in a record proved a key of that record,
    its present one or an earlier one. `SafeTable`: every record holds only its keys' words and
    its limits. That each handler keeps both is proved of what it makes of the table and the
    links (`Edit`, `Pin`, `Holds`), once for all handlers.
  - `FindsTheNode`. `detectBitcoinNode` lists processes and picks the first that fits; the
    proof says of each list what it can be, for lists of processes of any length (filtering
    and sorting keep the right one first), and then follows the choice by cases: the node's
    -conf; its -datadir, whose points no other folder reaches; or its account's own folder,
    which others may equal but which is looked at first. That last case needs the folder to
    hold blocks and a cookie, since a folder that is not named gets no points for the node that
    runs in it: without them nothing is promised (section 7, at the end). Nor is
    anything on Windows, where arguments are not seen, or of a node that root did not install
    beside another. The machines are those of `Detect`: one node, one stranger, four folders.
  - The others each have the invariant that the run checks in `HostTypeOK`. `LoginInOrder`
    (`LoginInv`: how far a command has come is how far its files agree, and only the file the
    node reads has a block while the node does not move), `NeverMixed` (`InstallInv`: how far a
    job has come is how much is of its version), `MergeKeeps` (`HalfWritten`: between the two
    files the daemon stands still, and the first is as the merge wants it), `Carried`
    (`CopyInv`: a new file is missing, whole, being filled, or was when a setup was killed, and
    `state.json` is not there before those that precede it), `OneForward` (`ForwardInv`: a
    forward of ours is the one returned, or about to be, or was never confirmed),
    `NoOlderNews` (`NewsInv`: only the poll that is waited for can still bring its third
    answer), `NeverSpins` (`CrashesInv`: each start whose daemon has ended has its end among
    the crashes that count, at or after it, or was a `Window` ago; fewer than `CrashLimit`
    crashes count, so that among `CrashLimit + 1` starts the first was), and the theorems of
    `NoiseProofs` and `LimitsProofs` for the instances of the run.
- `NoiseProofs`. The network hands any end anything that was ever written, so the invariant
  says of all of that which end made it and when (`Written`), and of each end that it finished
  with an end that finished with it (`Own`, `Called`, `Agreed`) and has opened what that one
  sealed up to a point (`Opened`). Hypothesis: `RolesApart`, an end calls or answers.
- `LimitsProofs`. `LimitsHold` counts connections over time, `rateOk` counts tokens. `Paid`
  relates them: connections since any moment and tokens left are at most the burst and the
  refills that were due. That is lost with a bucket that is dropped, and `Ordered` says that
  as many other sources as there are buckets came since its own. Hypothesis: `Sensible` (some
  buckets, some tokens, a refill that takes time; 4096, 12 and 1500 ms in the code).

Loops over lists are folds of the community modules. `Folding` proves what the proofs above
need of a fold, for any operator (`Op`, given by `INSTANCE`): an invariant of each step holds
at the end and at every prefix (`Run`, `Prefix`), a fold that picks keeps order and membership
(`Picks`), a finite set can be put in order (`Sorted`), and a sum does not depend on the order
and is less by what is left out (`AnyOrder`, `SumLeftOut`). Induction over the length is
replaced by the least counterexample (`Least`), since the library's induction theorems take an
operator, which no installed prover can instantiate. `Lists` has the few list operators that
the models share, written as such folds; the models have no RECURSIVE operator.

The assumptions on the constants say: `None` is none of the values; bounds are numbers, and
the limits the code has are not zero (`LimitsAssumption`, `CapAssumption`, `FeedAssumption`,
`PagesAssumption`, `CrashesAssumption`, `RatesAssumption`); messages, fingerprints, posts and the
daemons of a room are finitely many; ends have one role; the list of an older install's files
has `state.json` in it; what is said of a device or a machine is of the kinds there are. TLC
evaluates them in the runs.

Only model-checked:

- All liveness: `EventuallySettled`, `EventuallyDelivered`, `ComesUpAgain`, `RunsItsCourse`.
- `EditsKeep`: it compares what two edits, one after the other, make of a file's lines, with
  `SelectSeq` in `Conf`, which has no definition the provers can expand.
- `ServicesTypeOK` and `HostTypeOK` as they stand, because of a few parts that are about sizes
  (a back-off is a power of two, a count of bytes). Proved of them is what the theorems need:
  `TypeOK` of the onion service and of the contacts, the types of port mapping, updates,
  processes and mail within `MapInv`, `UpdateInv`, `ProcInv` and `MailInv`, and the inductive
  invariants of the machine.

## 6. Not modelled, and why

- Cryptographic primitives, encodings, HTTP, SSDP, XML, SOCKS5, the Bitcoin protocol: parsing
  and formats. A failure of any of them is a failed call or a refused frame. The Noise
  handshakes are modelled with symbolic primitives.
- Lengths of back-offs and of time limits, except the supervisor's and the rate limits': only
  their order and their ends matter elsewhere.
- In `Backup`, why `social.json` could not be read: restore then goes on as if there were none
  and replaces it (`cli.js` 425). `MergeKeeps` is about what was read.
- What of `stop()` of the port mapping is under way when the shutdown's three seconds are over
  (`process.exit` cuts it).
- Daemons that lie about the hops of a post they pass on.
- A `saveNow` that fails (logged, and not tried until the next change); one that fails for
  `mailbox.json` is modelled.
- The v1.2 handshake in `Delivery`, whose peers are flushed to without a hello (its messages
  are in `Noise`); idle and hard closing times of a link are one action.
- What a contact answers: in `Delivery` its own messages are `PeerWrites` only.
- Two `vault.set` calls at a time: the check that none is set comes before scrypt
  (`nodesignald.js` 307), so that they make two key pairs and what the first sealed can never
  be opened. `OneSet` leaves that case out; it is a hazard in `PROJECT.json`.
- Two starts of the supervisor within one moment, or a start during a `stop`: both pass the
  check of the pid file (`Races` leaves them out; the code does not claim to handle them).
- `Update` on Windows after the program has started: the daemon waits for its own end. If
  the upgrade fails it waits for ever, in a state in which it makes no more checks (seen in
  the model, listed as a hazard).
- In `Feed`, authors followed who are no contacts; in `Rooms`, more rooms than one and their
  cap, invitations' text, the hundred members of one frame. A post that reaches a daemon more
  than an hour after it was written is left out of what it answers to contacts that had posts
  meanwhile, since feed-req compares with the time of writing (`nodesignald.js` 1363; seen in
  the model).
- In `Update`, half of one side's files read while the other side writes them: the daemon
  writes its three files in one go, and the request last.
- A bitcoin.conf that changes while it is edited (the edit is one read and one write with no
  wait between), its character sets, and files larger than the limit.
- Users, groups, systemd units, firewall rules, shortcuts, prompts, and the components listed
  as not modelled in section 1.1: run once by hand, or I/O and rendering with no state of
  their own.

## 7. Findings

Each is a run that TLC ends with a counterexample.

1. `Delivery_cancel`: a message that was cancelled while its deposit was under way comes
   back as held when the mailbox answers (`nodesignald.js` 1748 spares only delivered
   messages), is queued and sent. Troubleshooting.txt: "cancel" gives up on that message.
2. `Mailbox_shutdown`: shutdown flushes first and then waits, servers still open, for the
   router to drop the port mapping (`nodesignald.js` 200-207); mail taken or acknowledged
   meanwhile is not written. The comment above `jsonFile` says: "Shutdown flushes."
3. `Backup_restore`: `restore` reads the state, asks, and only then stops the daemon and
   writes what it read, merged (`cli.js` 423-451): what was stored while the question stood is
   gone from the state, though the question says that restore "keeps the message history that
   is here".
4. `Contacts_dead`: `rekeyContact` also moves the link of a record removed earlier under the
   same name; when that link closes its entry stays, and every later dial to the contact
   returns at once (`nodesignald.js` 900-911, 1104-1110).
5. `Rooms_old`: a member's entry is written once, when it joins, and `verify` refuses items
   older than thirty days, member entries too (`social.js` 164). Who joins a room later than
   that refuses the older members' entries and then each of their messages. CHANGELOG.md:
   "Anyone with a room link can join that room and read it from then on."

One more disagreement is stated by what `FindsTheNode` leaves out, without a run of its own:
`score` gives the points of a running node only to a folder named with -datadir
(`setup-core.js` 1004). A node that uses its account's `~/.bitcoin` loses to any folder that
holds blocks and a cookie if its own has none there (another chain's are in a subfolder;
`rpcuser=` makes no cookie; a first start), and setup edits the bitcoin.conf of that other
folder. The comment at 997 says: "Prefer the datadir a running node uses, then one holding a
chain." TLC finds such a machine as soon as the third conjunct of `FindsTheNode` is stated without its
condition on the folder.
