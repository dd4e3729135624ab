# Verification of the network-programming projects

The repository holds the projects of a course on network programming in C. Two
of them are systems with a protocol and state: a store-and-forward messenger
over UDP (`Projects/1_project`) and a talk program with a presence server
(`Projects/2_project`). This directory holds TLA+ models of them, the TLC runs
that check the models, and proofs checked by TLAPS.

## 1. Inventory

| Part | State | Operations | Interacts through |
|---|---|---|---|
| UDP message server, `1_project/UDP_Server` | `users` (growing array; per entry an address, flags and a growing mailbox), `userLimit`, `userIndex`, the two receive buffers | one handler per datagram: NOTIFY, LOGIN, LOGOUT, SEND, VIEW, PRINT; operator commands | one UDP socket |
| UDP message client, `1_project/UDP_Client` | parent: `loggedIn`, `userID`, `outbound`, its place; child: none | menu of seven commands, loops that read an answer; child reads notifications | one UDP socket *shared by two processes* |
| Talk server, `2_project/TCP_Server` | `users`, `userLimit`, the reply buffer `outgoing` | LOGIN, LOGOUT, WHO, TALK_REQ; operator commands | one UDP socket |
| Talk client, `2_project/TCP_Client` | parent: its place, `theServerAddress`, `userID`, the user to talk to, the call it speaks on; shared memory of all processes: `isTalking`, `talkRequest`, `otherID`, `targetUDPAddress`, `targetTCPAddress` | parent: two menus, loops that read answers, the talk handshake, talk mode; child: talk requests and notifications; receivers: one per login, display what a partner says | UDP to the server and to other clients (one socket *shared by two processes*), TCP to the partner |
| Echo pair, `0_project` | none | one message each way | one TCP connection |
| `Code Samples`, `Intro`, `Slideshows` | none of their own | textbook samples, exercises, slides | none |

What makes them hard:

* **Stale state across datagrams.** Both servers keep indices and buffers from
  one datagram to the next, and some handlers use what an earlier one left.
* **Counts, limits and flags that must agree.** Arrays grow in several places;
  flags summarise data changed elsewhere.
* **Two processes on one queue.** Client parent and child read one socket by
  peeking. Each must leave the other's datagrams alone, and something must
  take every datagram.
* **Memory shared without a lock.** Parent, child and receivers of a talk client
  test and set flags and addresses that the others use.
* **Addresses that follow whoever was heard last.** A talk client sends to
  addresses that every look at its socket overwrites.
* **UDP.** Datagrams are lost and nothing is retried. Requests and answers are
  tied together by nothing but their order on the socket.
* **Death.** `dieWithError()` ends a server when a single `sendto()` fails.
  Nothing is persisted, so a restart is a new initial state and there is no
  recovery to model.

What makes each part correct:

* message server: one entry per identifier, no write behind an array, mail is
  neither lost, reordered nor misplaced, whoever has unread mail while logged in
  is told, the server never addresses a notification to nobody;
* message client: an answer belongs to the request that is waited for, and
  comes; no datagram blocks the socket;
* talk server: a session is one entry with one address, starts with a login and
  ends with a logout of its user; everyone is told of every change, and a list of
  users is complete and names nobody twice;
* talk client: who believes to be logged in is, and is alone in it; answers end
  up with their requests; neither process takes the other's datagrams; one talk
  request at a time is with the user; what is meant for the server goes to the
  server, and what is meant for a client to a client; it does not wait for ever.

## 2. Modules

| Module | What it is |
|---|---|
| `Mailbox` | abstract: one append-only mailbox per client |
| `MessageServer` | the UDP message server with an arbitrary environment of clients |
| `MessageServerProofs` | theorems about `MessageServer` |
| `MessageSystem` | `MessageServer` composed with the real clients |
| `MessageSystemProofs` | theorems about `MessageSystem` |
| `Presence` | abstract: sessions that start with a login and end with a logout |
| `TalkServer` | the talk server with an arbitrary environment |
| `TalkLoopsProofs` | lemmas about the loops of `TalkServer` over its table |
| `TalkServerProofs` | theorems about the table and the sessions of `TalkServer` |
| `TalkAnswersProofs` | theorems about what `TalkServer` tells its clients |
| `TalkSystem` | `TalkServer` composed with the real clients: parents, children, receivers, UDP between clients, TCP connections |
| `TalkSystemProofs` | theorems about `TalkSystem`: types, the flags, what carries over from the server |
| `TalkSocketProofs` | a theorem about `TalkSystem`: the two processes on one socket |
| `TalkSessionsProofs` | theorems about `TalkSystem`: answers and sessions as the clients see them |
| `MCMessageServer`, `MCMessageSystem`, `MCTalkServer`, `MCTalkSystem` | values and symmetries for TLC |

Operators whose comment begins with *Fault* are not part of any specification.
Each is a plausible mistake in the definition that follows it; `PROJECT.json`
lists which property it breaks when it replaces that definition.

### How the model corresponds to the code

**One datagram, one action.** Each server is one process that takes a datagram,
handles it and returns to `recvfrom()`. Nobody else sees its memory, and its
`sendto()` calls only append to queues, so a handler is one action: the effect
of all its assignments, and all its datagrams appended in the order of the
code. A handler in which `sendto()` is refused (an address of zeros) ends the
process: `up' = FALSE`. A process killed by the operator in the middle of a
handler leaves a prefix of its datagrams in the queues; with a network that
loses datagrams this looks to clients like an answer of which the rest was lost,
which the lossy run covers.

**Queues.** `inbox` is the queue of the server's socket and `outbox[a]` that of
the socket at `a`. They keep order and never duplicate, as datagrams do between
processes of one machine (the clients' server address is 127.0.0.1). A datagram
may disappear at any position (`RequestLost`, `ReplyLost`: a full buffer); in
`TalkSystem` only until a process has looked at it (`Loss`), since a datagram that
was looked at is in the buffer, and stays there until it is read.

**Indices.** `users[userIndex]` of the program is `users[userIndex + 1]`, and
`getUserIndex` returns -1 for a miss as the C function does. `userIndex` and
`incoming.senderId` of the message server are variables, since handlers read
what earlier ones left; their initial values are arbitrary (`StackInts`,
`ClientIds`), since the program leaves them uninitialised. An access outside the
entries has two outcomes: what is there reads as an entry without messages and
the write has no effect on the table (memory from `calloc`, or the zero bytes in
front of it), or the process dies.

**Loops over the table.** A loop of the talk server whose body runs for some of
the elements is `Selected(users, K)`, the elements at the indices in `K` in their
order; `K` is the condition in front of the body (`OtherIndices`: logged in, and
not the user the datagram is about).

**The talk server's table.** `numUsers++` is executed by every accepted login,
so `users` also contains elements that were counted and never written,
`EmptyEntry`: zeros, and zero is also the server's identifier and a legal user's.
`realloc` does not clear what it adds, but the array is the last block of the
process's heap and grows into memory nothing used before, which is zero too.
Behind `userLimit` elements the memory is taken to read as zeros as well, and
any access may be fatal (`WildAccess`).

**The message client.** Per client, `pc` says where the parent is (menu, in one of the
two answer loops, ended); the child has one place. Peeking and taking the same
datagram is one action: only the process whose kind of datagram is at the head
takes it, so the head cannot change in between. A user may choose any command at
any time, and need not choose any. A save request sent before any other comes
from memory the program never wrote; its first word is taken to be none of the
tags.

**The talk client.** A client is named by the address of its UDP socket. Three
kinds of process act for it, and every action belongs to one of them:

* `User(c)` and `Parent(c)` are the parent. `place[c]` says where it is: in one
  of the menus, looking for a confirmation (`loggingIn`) or a list (`listing`,
  `askingWho`), looking for a talk response of the server (`askingServer`) or of a
  user (`askingUser`), about to take the datagram it has seen (`takingAnswer`,
  `takingList`, `takingWho`, `takingReply`, `takingResponse`), on its way from an
  answer to the next shared variable it writes (`serverHeard`, `naming`,
  `requesting`, `userHeard`, `agreed`), at the prompt about a request and behind it
  (`prompt`, `confirmed`, `confirming`, `refusing`), on the way to `connect()`, or
  talking. What the user decides is `User`; what the parent does by itself is
  `Parent`.
* `Child(c)` takes talk requests and notifications. `child[c]` says whether it
  looks, takes what it has seen, tests one of the two flags, or writes one of the
  three variables with which it publishes a request, or one of the two steps of a
  refusal. `incoming[c]` and `held[c]` are the buffers of parent and child.
* `Receiver(id)` is the process that holds port 20000 + id: it binds, accepts,
  tests `isTalking` of its owner, receives, and tests again. It is indexed by
  the port because a second `bind()` to a held port fails and ends the process.

One step reads or writes one queue, or one variable in shared memory; what a
process does with its own memory is merged into such a step. So looking at a
datagram and taking it are two steps, and what is taken is whatever stands first
by then; the two flags are tested in two steps (`TestTalking`, `TestRequest`; 639)
and set or cleared one at a time (`Confirm` and `Settle`; 292, 298); a refusal
first zeroes the shared address and then sends to it (`ForgetRequester`,
`RefuseRequest`; 642, 643). A look at an empty queue, or at a datagram that changes
nothing, is no step. Every look of the parent stores the datagram's sender, in
`theServerAddress` or in `targetUDPAddress`; this is part of each action that
looks, also of those that leave the datagram on the queue. The loops that wait
for a talk response end after one look whatever it saw, because their `break`
stands behind the `if` (`LookForReply`, `LookForResponse`). Nobody but the parent
writes `isTalking`, so that `Top` may read both flags at once. A receiver that is
forked (`forked[c]`) binds in a step of its own, to the port the shared address
holds by then, which a later login may have changed (`Bind`; 239).

A handler of the server is one action here too, although clients now send to each
other: a datagram of another client may really come to stand between those of one
answer, the confirmation, the notifications and the list of a login for instance.
This is not in the model: what is checked and proved of `TalkSystem` is so on
condition that an answer of the server arrives in one piece.

A connection is a record in `calls`: who called, how many lines went in and how
many were displayed, and whether the called side still has its end. A listening
receiver has a backlog. Several lines may be displayed at once, as TCP keeps no
boundaries; a line displayed in two parts is not distinguished from one displayed
late. Sending on a connection whose other side is gone, or on a socket that never
was connected, is fatal (SIGPIPE), though a first line may still be taken.

Everything runs on one machine: the client is started with 127.0.0.1 as its
server, and it tells others INADDR_ANY as its address, which reaches nobody
elsewhere.

**Left out.** Texts of messages are model values; formatting, colours, logging
and input parsing are not modelled. The `NO` of `VerifyMessage` and
`NO_MESSAGE` are never sent. The peek of the message server
writes 12 bytes into an 8-byte pointer (`Server.c:91`): what lies behind it
depends on the compiler, and it is not modelled. `handlingTalk` of the talk
server is never used, nor is the timeout of the talk client (`Client.c:129`).
Of the talk client these are left out: a new receiver whose `bind()` fails only
because a connection of an earlier one is in TIME_WAIT, the sockets a forked
receiver inherits, and the prompt of a terminal that parent and receivers write
to. The operator's exit of the talk server is an action of `TalkServer` but not
of `TalkSystem`, where it would only end all answers. The environment of `MessageServer` also sends the
datagrams no client of the repository sends (NOTIFY), since the server has a
handler for them.

## 3. Runs

Bounds are constants that guard environment actions and users only, never a
handler: `MaxInbox` and `MaxOutbox` say how little must wait in queues before a
client sends (an answer may be longer), `MaxStored` how long mailboxes may be
when a SEND is sent, `MaxUsers` bounds the logins of the talk server's arbitrary
environment, and `MaxTyped[c]` the requests and lines the user of `c` types in
`TalkSystem` (whose queues are not bounded otherwise). Deadlock checking is off:
a server may exit or die, and no user is obliged to act.

| Run | Checks | Instance |
|---|---|---|
| `MessageServer` | `TypeOK`, `UniqueIds`, `WithinLimits`, `LoggedInHasAddress`, `NewFlagExact`, `MailboxesOwned`, `ImplementsMailbox`, `MailIsAnnounced` | 2 identifiers, 2 addresses, both arrays start with 1 element and grow by 1, 2 messages in a mailbox |
| `MessageSystem` | `SystemTypeOK`, `AnswersMatchRequests` | 2 clients that share an identifier, queues of 2, lossy network |
| `MessageLiveness` | `AnswerArrives`, `SocketKeepsMoving` | 2 clients, no loss, fairness |
| `TalkServer` | `TypeOK`, `OneSessionPerUser`, `LoggedInReachable`, `ImplementsPresence`, `ChangesAnnounced`, `WhoListsOthersOnce` | user 0 and two others, 2 addresses, 4 logins, array of 1 growing by 1 |
| `TalkSystem` | `SystemTypeOK`, `BeliefBacked`, `ListsAwaited`, `OneRequestAtATime`, `HandshakeSound` | 2 clients with a user each, one types three things and the other one, no loss; 0.9 million states |
| `TalkShared` | `SeenIsTaken`, `OneClientPerUser` | 2 clients, at each of which either of two users may sit, two and one things typed, lossy network; 0.3 million states |
| `TalkLiveness` | `AnswersCome` | 2 clients with a user each, one types two things and the other one, no loss, fairness |
| `ViewShowsOther`, `LogoutClearsOther`, `WedgedServer`, `UnheardLine`, `CallOverwritten` | one claim of the code's comments each, violated | see section 5 |

Why the bounds suffice. An array that starts with one element and grows by one
meets its limit at every insertion, so growth happens at once and repeatedly.
`MaxInbox = 1` loses no behaviour of the servers alone: their environment may
send any datagram after any other, so a longer queue only delays what can be
sent anyway. In `MessageSystem` the queue matters, because a client sends and
goes on; there two datagrams wait at the server, so that requests of both
clients, or a client's notification and its request, are in flight together. One
identifier is enough there: the properties are about sockets and processes, and
two clients logged in as the same user are the interference that matters
(notices for one arrive while it waits). The findings that need two identifiers
have runs of their own.

In run `TalkSystem` a user who types three things logs in and requests twice, so that
a second request meets a user who has not yet dealt with the first, who is at the
prompt about it, has confirmed or refused it, talks, or is gone; or logs in, requests
and says a line; or logs in two or three times. Logging out, which needs no typing
budget, and exiting are always possible. In `UnheardLine` and `CallOverwritten` both
users type two things: two handshakes cross. In `TalkShared` the client of two things
logs in as one user and in again as the same or the other, while the other client
does so once. Two clients are enough for everything that is checked: what a third
one would add to a client are notifications and requests, which the second one
sends as well. No run has a client of user 0; what holds of systems that do is in the
theorems whose properties do not except them (section 4).

Symmetry. `TalkServer` exchanges users other than 0 and addresses. Invariants, and
properties of the form `[][A]_v` or `Init /\ [][Next]_v`, are judged state by state or
step by step, so symmetry is sound for them; no run with liveness or a conditional
property (`OneClientPerUser`, `HandshakeSound`) uses it.

**What the safety runs show.** `UniqueIds` is at stake because entries are made
by LOGIN and by SEND to a stranger. `LoggedInHasAddress` is what keeps the
server alive, since a notification to an address of zeros is fatal. It holds
although LOGOUT clears the *wrong* entry, because flag and address of that entry
change together. `AnswersMatchRequests` is the contract between requests
and answers, which carry no identification: whatever is lost, an answer never
outlives its request, since the client leaves its loop only with the end mark.
`ImplementsMailbox` says what the server promises about mail without mentioning
users, limits or sockets; the refinement mapping reads the mailbox of `id` out
of the entry with that identifier. `OneSessionPerUser` and `LoggedInReachable`
show that the empty elements of the talk server's table never become a second or
an unreachable session, not even for user 0, whose identifier they carry.

`ImplementsPresence` looks at the requests too: a session starts in the step that
takes a login of its user, at the address the login came from, and ends in the step
that takes a logout of its user, and in no other. `ChangesAnnounced` asks that
nobody misses a change. It cannot ask that nothing else is announced: the server
also announces the logout of a user who was not logged in (Server.c:246).
`WhoListsOthersOnce` is about both lists, that of WHO and that of an accepted login.

`BeliefBacked` ties a client's belief to the server's table: between them lie a
confirmation, notifications of the same type, and logouts nobody answers. It is
stated for systems in which every client has one user, of its own. Without this
it is wrong: there is a behaviour, which TLC finds, in which a client of two users logs
out as one and in as the other while its requests go to another client; the logout
is lost, and the other client takes the login for the confirmation of its own,
which the server has not seen yet. With a user each, the only login a client can
mistake is its own, sent to itself.

User 0 is excepted in all properties of sessions and answers, and of what a process
takes (`Ordinary` clients are those at which nobody logs in as user 0). The
confirmation of user 0 looks like a notification, so that both processes of the
client take it, and may take each other's (section 5). `SeenIsTaken`
says that this is the only way: at any other client the datagram a process has seen
is still the first one when it takes it, with any number of looks and takes of the
other process in between.

`ListsAwaited` is the contract of `AnswersMatchRequests` for the talk client,
whose list follows the confirmation of a login unasked. `OneRequestAtATime` is
what remains of mutual exclusion between parent and child, who share two flags
and no lock, and test and set each in a step of its own: while a request is pending
the child has none in hand to publish, since only the child sets `talkRequest`, and
at the prompt neither the flag nor the name shown changes. It does not say that no
request is published to a user who talks; that is false (section 5).

`HandshakeSound` and `OneClientPerUser` hold on a condition. Every look at the
socket redirects the client's requests, so that after a look at the wrong
datagram the client talks to another client instead of the server (section 5).
`HandshakeSound` says that a look for a *talk response* that meets something else
(`Misled`) is the only way this comes about: in behaviours without one, the menu
always talks to the server, no request goes astray, and no answer to a user
reaches the server and blocks it. `OneClientPerUser` says that stray requests
(`Astray`) are in turn the only way for two clients to believe in one session:
neither loss nor crossing logins and logouts can bring it about. In most
behaviours of the runs the conditions hold; they are stated as `[]` on the left of
an implication between temporal formulas, so TLC checks behaviours in which they
never fail. `HandshakeSound` is about server against client only: which client an
answer goes to is not in it, since a request of one's own, or the next requester,
overwrites the address of the one who asked (section 5).

**Fairness.** `MessageLiveness` assumes weak fairness of the server's loop, of a
parent that reads an answer and of each child: they are processes of a
preemptive scheduler, blocked in nothing but `recvfrom()`. Nothing is assumed of
users, the operator or the network. `AnswerArrives` is stated for behaviours in
which the server stays up and is not wedged (see `WedgedServer`); `Lossy` is
FALSE there because a lost request or answer does hang the client: it has
neither timeout nor retry. `TalkLiveness` assumes the same of the talk server,
parents, children and receivers. `AnswersCome` says that a login and a WHO come
to an end, and names everything in the program that can prevent it: the server
is dead or wedged, a request went astray, or a datagram that no process of the
client takes is in front of the answer (`Stuck`). A deadlock of the two processes
that share the socket by any other way would violate it, as the mutant shows in
which the child leaves one kind of notification to nobody.

## 4. Theorems

The proof modules prove, for every set of identifiers, addresses and texts,
every number of clients, every size of the arrays and every bound:

| Module | Theorem | Statement |
|---|---|---|
| `MessageServerProofs` | `TypeCorrect` | `Spec => []TypeOK` |
| | `OneEntryPerClient` | `Spec => []UniqueIds` |
| | `NoOverrun` | `Spec => []WithinLimits` |
| | `AddressWhileLoggedIn` | `Spec => []LoggedInHasAddress` |
| | `NewFlagTells` | `Spec => []NewFlagExact` |
| | `MailStoredWithOwner` | `Spec => []MailboxesOwned` |
| | `MailboxRefinement` | `Spec => ImplementsMailbox` |
| | `MailAnnounced` | `Spec => MailIsAnnounced` |
| `MessageSystemProofs` | `SystemImplementsServer` | `SystemSpec => Spec` |
| | `SystemTypeCorrect` | `SystemSpec => []SystemTypeOK` |
| | `SystemKeepsMail` | `SystemSpec => ImplementsMailbox /\ MailIsAnnounced` |
| | `AnswersMatch` | `SystemSpec => []AnswersMatchRequests` |
| `TalkServerProofs` | `ServerTypes` | `Spec => []TypeOK` |
| | `OneSession` | `Spec => []OneSessionPerUser` |
| | `Reachable` | `Spec => []LoggedInReachable` |
| | `PresenceRefinement` | `Spec => ImplementsPresence` |
| `TalkAnswersProofs` | `WhoExact` | `Spec => WhoListsOthersOnce` |
| | `ChangesTold` | `Spec => ChangesAnnounced` |
| `TalkSystemProofs` | `OneRequest` | `SystemSpec => OneRequestAtATime` |
| | `SystemSessions` | `SystemSpec => [](OneSessionPerUser /\ LoggedInReachable)` |
| | `SystemRefinesPresence` | `SystemSpec => ImplementsPresence` |
| | `SystemTypes` | `SystemSpec => []SystemTypeOK` |
| | `SystemTells` | `SystemSpec => WhoListsOthersOnce /\ ChangesAnnounced` |
| `TalkSocketProofs` | `SeenTaken` | `SystemSpec => []SeenIsTaken` |
| `TalkSessionsProofs` | `AnswersAwaited` | `SystemSpec => []ListsAwaited` |
| | `OneClient` | `SystemSpec => OneClientPerUser` |
| | `BeliefHolds` | `SystemSpec => []BeliefBacked` |

Assumptions: `SizesAssumption` and `TalkServerAssumption` (initial size and
increments are positive, bounds are naturals, the server's identifier is a
user's, addresses of zeros are nobody's), `NamesAssumption` (the zero address is
no client's, uninitialised ints are ints), `SystemAssumption` and
`TalkSystemAssumption` (there is a text, users log in with user identifiers, a
port the kernel chooses is no user's). The code's 10, 10 and 10 satisfy them.
Three properties carry a hypothesis about the constants inside: `ListsAwaited` and
`SeenIsTaken` are about the clients in `Ordinary`, `OneClientPerUser` supposes that
all are, and `BeliefBacked` also that every client has a user of its own
(`OneUserEach`, section 3).

**`MessageServerProofs`.** `IInv` is `TypeOK`, the invariant of the array
`EntriesOK`, and the limit of the array. `EntriesOK` says that identifiers differ
and that every entry satisfies `EntryOK`: its messages fit, flag and address
agree, the new flag is exact, its mail is its own. Lemmas show that each value an
entry may take (`LoggedInEntry`, `AwaitedEntry`, `WithMessage`, `Viewed`)
satisfies `EntryOK`, then that replacing an entry by one of the same identifier
and appending one of an unknown identifier preserve `EntriesOK`. Each handler does
one of these, so `IInv` is inductive, with one lemma per handler. The type
invariant is needed for the others (an identifier must come from a datagram of
the right type), and uniqueness is needed because `getUserIndex` returns the
first of possibly several entries. For the refinement, the mail of an identifier
is a function of the array alone; replacing or appending an entry changes that
function at one identifier, by `Append` for SEND and by marking for VIEW.
For `MailAnnounced`, a step that makes a client wait replaces or appends the
waiting entry, and only LOGIN and SEND can leave an entry that waits.

**`MessageSystemProofs`.** Every step of the system is a step of the server, of
its environment or of nobody it knows, so `SystemSpec => Spec`, and the theorems
above carry over. For `AnswersMatch` the contract is restated without counting:
one request per client at most; while there is one, the client's queue is `Quiet`
(notifications only); nothing of an answer is behind an end mark (`EndsOnce`); a
client in its menu has neither. The four are preserved together: a handler's
answer goes behind a quiet queue, the end mark the parent takes was the last of
its kind, and whatever takes datagrams away, reading or loss, leaves the others
in order (`LeftOf`), which keeps all of them.

**`TalkLoopsProofs`.** The loops of the talk server are the recursive function in
`Selected`. What it computes is proved by looking at the least index at which a
claim would fail (`LeastNatural`, from the well-foundedness of `<`); `InductionTo`
packs this as induction over the numbers up to n, with a set in place of the
predicate that the provers could not instantiate. `SelectedFacts` is the result:
what is selected is a sequence of exactly the elements at the indices in `K`, as
many as there are such indices. That no element is listed twice follows from this
count. `WhoListFacts` and `CopiesFacts` describe the answers and the datagrams that
are built with it.

**`TalkServerProofs`.** `OneSessionPerUser` is not inductive: a login rewrites the
*first* element of its identifier, and there may be several, since counted
elements carry identifier 0. What makes it so is `FirstOnly`: elements behind the
first one of their identifier are never logged in. `TableOK` adds that elements
are typed and that a logged-in element has an address. Replacing the first element
of an identifier and appending either an empty element or one of a new identifier
preserve it. `TypeOK` is inductive with it; what had to be shown is that the
handlers append well-typed answers, which are selections from the table. For the
refinement, the session of a user is a function of the table (`SessionIn`), and two
tables with the same logged-in elements of a user agree on it; a handler that changes
it has taken the request of that user off `inbox`.

**`TalkAnswersProofs`.** Both theorems compare two descriptions of one step: the
property counts names in the queues before and after, the handler runs loops over
a table in the middle of being changed. For `WhoExact`, the elements a list is made
of are logged in, and `FirstOnly` makes them differ in their identifiers, so that
the list has as many names as users (`WhoStep`). A newcomer's list comes behind its
confirmation, neither of which is among the notifications the others get
(`NewcomerStep`). For `ChangesTold`, the users who are
logged in after a handler are compared with those before (`StepTold`): an accepted
login adds one, a logout takes one away, and every other handler leaves them; the
notification reaches the address of everyone in the rest.

**`TalkSystemProofs`.** `OneRequestAtATime` follows from two facts that are inductive
with the types of the flags and of the places (`RInv`): a child with a request to
publish, from its second test to the flag, finds `talkRequest` clear, and a prompt
is about a request that is pending. Only the child sets the flag, and what
`isTalking` does meanwhile is of no account. In the second part, every request a
client sends names a user, so that each step of the system is a step of the
server or leaves its table alone, and sessions are what they are with an arbitrary
environment; so are the lists and notifications (`SystemTells`). `SystemTypeOK`
is inductive with one more fact: a child that is about to publish a request has a
user in hand.

**`TalkSocketProofs`.** What a process has seen and not taken is the first datagram, and
of a kind that goes with the process's place (`PInv`). The kinds of parent and child
differ: a login the parent takes is in the name of its user, one the child takes in
that of user 0, and the parent's user is one of the client's (`Named`), so that
never both have seen one (`NeverBoth`). Appending leaves the first datagram alone, a
process that takes one leaves the other without one to take, and loss spares what was
seen. The module also has the lemmas about queues, and about what the server puts into
them, that the next one needs.

**`TalkSessionsProofs`.** Every step is one of three kinds (`StepKinds`): the server
answers (`Answers`), something is lost or happens where no queue or table is touched
(`Loses`), or a client moves (`Moves(c)`). Each invariant is preserved by each kind.

* `AnswersAwaited`. The counts of `ListsAwaited` are not inductive. `AnswersOrdered(c)`
  is: one request to be answered at most is on its way, and only while its client
  waits and nothing of an answer is in its queue (`Quiet`); what has come is one
  answer to a login, then the lines of one list, then its end mark (`Orderly`);
  and what ends a wait really comes from the server (`Genuine`), since a stray
  request of another client has the same types. A parent that stops waiting has
  taken a refusal or an end mark, behind which an orderly queue holds nothing; that it
  takes what it has seen is the theorem of `TalkSocketProofs`. Loss
  and reading leave a subsequence (`Within`), which keeps all parts.
* `OneClient`. Two clients in one session are excluded by the server's table: it has
  one address per user, so it suffices that whoever is in a session has it there.
  That is not inductive either, as the logout of an earlier session may still be on
  its way when the next begins. `Held(c)` adds that a logout is in front of any
  request of the same client (`OutFirst`); that while one waits nothing is confirmed
  and the client is outside a session; and that the server holds the session for
  whoever a waiting logout or confirmation names. One step breaks it: a parent that
  takes another client's stray login for its confirmation. `~Astray` excludes this
  step (`ForgedHarmless`), and it is the only use of the condition, which is why it
  may stand as a temporal formula in front.
* `BeliefHolds`. With a user of its own for every client even that step is harmless:
  the login is the client's own, and a login goes astray only after the logout
  before it did (`Strays`), so that the server still has the session. `Strays` is
  proved inductive together with the two invariants above.

Only model-checked: liveness (`AnswerArrives`, `SocketKeepsMoving`, `AnswersCome`),
which is out of the prover's reach (fairness, ENABLED), and `HandshakeSound`, whose
proof is not written yet.

## 5. Where code and comments disagree

Checked, one run each:

* **VIEW answers with another client's mail** (`ViewShowsOther`). The handler
  uses `userIndex` as the last LOGIN, LOGOUT or SEND left it; it never looks up
  the client that asks. PRINT does the same.
* **LOGOUT logs out someone else** (`LogoutClearsOther`). The handler looks up
  the sender of the last client message instead of the notification's client.
* **A save as the first request blocks the server for good** (`WedgedServer`).
  The client sends a datagram whose type was never set, and no handler removes
  it from the queue.
* **What is said is not heard** (`UnheardLine`). A receiver that accepts a
  connection before its parent has set `isTalking` goes back to `accept()`, and
  one that is in `recv()` on an old connection never reaches the new one. Lines
  sent on the connection are displayed nowhere.
* **A call overwrites the address to call** (`CallOverwritten`). `accept()` stores
  the caller's port in the `targetTCPAddress` the parent is about to connect to;
  the connection is refused and the parent dies.

Part of the models, and visible in the actions named, without a run of their own:

* A save asks in the name of the user of the last request, not of the one who is
  logged in (`SaveRequest`; UDP_Client/Client.c:234).
* `numUsers` grows with every accepted login, the array only for new users
  (`LoginAccepted`; TCP_Server/Server.c:194): more elements are counted than there
  is memory for (`WildAccess`).
* TALK hands out the addresses of a user who has logged out (`Found`;
  TCP_Server/Server.c:317).
* Any datagram that is seen first is taken for the answer to a talk request
  (`LookForResponse`; TCP_Client/Client.c:443): a notification begins talk mode without
  the other's consent.
* A busy client does not refuse but loses its child: the refusal goes to an address
  nobody set (`ForgetRequester`, `RefuseRequest`; 642). If the parent stores an address
  in between (413, 435), the refusal goes there, from nobody, and may be taken for that
  user's answer.
* Taking a request stores its sender before anything is tested (`TakeRequest`; 636): the
  answer to an earlier request, on which the user is just deciding, goes to the new
  requester, or nowhere.
* After a look at another client's datagram, requests and logouts go to that
  client (`Reads`; 181, 395), and responses of users may go to the server, which never
  gets past them (`Respond`; 303, Server.c:514). `HandshakeSound` names
  the only way this comes about.
* The child tests two flags and then writes two shared variables and a flag, without a
  lock (639 to 656). When the parent begins to talk in between (`Agree`; 450), or
  confirms a request between the two tests (`Confirm`, `Settle`; 292, 298), the new
  request is published although the user is busy, and its writes replace the name and
  the address of the conversation. `OneRequestAtATime` says how far this goes: never
  over a request that is still pending.
* Identifier 0 is a user's and the server's, and the confirmation of user 0 looks like a
  notification (`IsNotice`, `IsLoginAnswer`; 661, 188). The child may take it, also when
  the parent has just seen it (`TakeNotice`, `TakeAnswer`); the parent then takes a
  notification, or whatever follows, for its confirmation, and believes to be logged in.
* A request of one's own overwrites `otherID` while somebody else's request waits,
  so that the prompt names the wrong user, and the answer goes to whoever the parent
  heard last (`StoreTarget`, `NameOther`; 413, 414).
* ":q" closes no connection; a line may be displayed after it (`Quit`, `Display`;
  607).
* Exit sends no LOGOUT, and the session stays (`Exit`; 576).

The properties of section 3 hold in spite of these, and say what a user can
still rely on.

## 6. Not modelled

* The echo pair of `0_project`: a connection, one message each way, and the
  end of both processes, in 140 straight lines without a loop, a choice or state
  that outlives a call. Two tests settle it.
* `Code Samples` (textbook programs no project calls), `Intro` (exercises),
  `Slideshows`, the colour wrappers (output only) and the generated build files.

## 7. Plan

Done: both systems with servers, clients and composition, and the theorems of
section 4. Left, in order of value: `HandshakeSound` as a theorem (its invariant
relates the place of a client to the address it sends to and to what is in its
queue, under the condition that no look is misled); an instance of `TalkSystem` with three
clients; the echo pair.
