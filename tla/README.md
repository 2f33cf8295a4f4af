# A TLA+ model of taramail

taramail is a mail server in containers. Its own logic is the Python package
`backend/taramail`: a REST API that manages domains, mailboxes, aliases, DKIM
keys, relay hosts, transports and forwarding hosts in MariaDB and Redis, a
netfilter service that bans the sources of failed logins, a DMARC report
processor and a socketmap server. Everything else in the repository configures
third-party servers (Postfix, Dovecot, rspamd, SOGo, nginx, unbound, ClamAV) or
is third-party code.

This directory models the parts of that package whose state outlives a request:
the TLA+ modules, the TLC configurations that check them on small instances,
and TLAPS proofs for every value of the constants. `PROJECT.json` maps each
definition to the source lines it stands for.

## Inventory

| Part | State | Operations | Hard behaviour |
| --- | --- | --- | --- |
| netfilter service (`netfilter.py`, `Netfilter`, `NetfilterService`, `_main`) | in memory: `bans`, `blacklist`, `whitelist`; Redis: `F2B_ACTIVE_BANS`, `F2B_QUEUE_UNBAN`, `F2B_BLACKLIST`, `F2B_WHITELIST`; kernel: drop rules | `ban`, `unban`, `autopurge`, `perm_ban`, `update_blacklist`, `update_whitelist`, `chain_order`, start, SIGTERM, exit | five tasks that suspend in DNS queries and sleeps; memory lost at a crash while kernel and Redis are not; tasks that die without a handler; time |
| netfilter tables (`netfilter.py`, `NetfilterTables`) | chain `MAIL`, jumps, isolation rule, SNAT rule | `init_chains`, `clear`, `insert_mail_chains`, `create_isolation_rule`, `check_chain_order`, `snat` | docker, ufw and administrators edit the same tables between two commands; kills between two commands |
| domains (`domain.py`) | table `domain`, Redis `DOMAIN_MAP` | create, update, delete | two stores and one commit; limits that relate several tables |
| DKIM keys (`dkim.py`) | Redis `DKIM_PUB_KEYS`, `DKIM_SELECTORS`, `DKIM_PRIV_KEYS` | `create_key`, `duplicate_key`, `delete_key` | check, then act, in several commands without a lock |
| mailboxes, aliases (`mailbox.py`, `alias.py`) | tables `mailbox`, `alias` | create, update, delete | concurrent snapshots; sessions without autoflush |
| SOGo static view (`sogo.py`) | table `_sogo_static_view` | `update_static_view` | refreshed before the changes it should show are flushed |
| database sessions (`db.py`) | transaction, session | `db_transaction` | rollback after effects in Redis |
| key/value store (`store.py`) | keys that hold a text or a hash, with times to live, in Redis, Memcached or memory | `get`, `set`, `delete`, `hget`, `hgetall`, `hset`, `hdel`, `hkeys`, `flushall` | read-modify-write of a whole hash in Memcached; `HSET` and `HEXPIRE` apart in Redis; records that expired in memory |
| DMARC processor (`dmarc.py`) | tables `dmarc_report`, `dmarc_record`; counters; the `\Seen` flag | `fetch_and_process` | commit, count and flag are three steps; one session for all messages |
| transports, relay hosts (`transport.py`, `relayhost.py`) | tables `transports`, `relayhosts` and references to them | create, update, delete | checks on a snapshot without unique indexes; an UPDATE of other rows before the own change is flushed; dangling references |
| forwarding hosts, SPF (`forwarding_host.py`, `spf.py`) | Redis `WHITELISTED_FWD_HOST`, `KEEP_SPAM` | add, update, delete, resolve | two hashes per address, written one after the other; recursion over DNS records that may be cyclic |
| rspamd queries (`rspamd.py`) | reads the tables and `DOMAIN_MAP` | `expand_alias`, settings, BCC, map files | alias cycles, the bound on rounds |
| socketmap (`socketmap.py`) | one database session per connection | `lookup_relay_domain` | a snapshot as old as the connection; a pool that runs out; lookups that block the event loop |
| the rest (`api.py`, `cli.py`, `schemas.py`, `auth.py`, `password.py`, `logger.py`, `dockerapi.py`, `exporter.py`, ...) | none of their own | routing, validation, formatting, I/O | |

How they interact. Every API route is a plain `def` (`api.py`), so FastAPI runs
requests in a thread pool, concurrently; `compose.yml` starts one uvicorn
process. A route opens one `db_transaction` (commit at the end, rollback on any
exception) and calls one manager. `DomainManager` calls `DKIMManager` and writes
`DOMAIN_MAP` between its SQL statements and the commit; `MailboxManager` calls
`Sogo.update_static_view` in its own transaction. rspamd, Postfix, Dovecot and
SOGo read the tables and hashes. The netfilter service shares nothing with the
API but Redis; syslog-ng publishes log lines to it on `F2B_CHANNEL`.

## Modules

| Module | Models |
| --- | --- |
| `Netfilter` | the netfilter service: one action per stretch of a task between two suspensions, the life of its process, its failures, the administrator, the clock |
| `NetfilterTables` | the nftables objects: one action per nft command, among the edits of other programs |
| `Domains` | a domain in its two stores: one action per Redis command, with the row lock of the database |
| `Accounts` | domains, mailboxes, aliases and the SOGo view in the database: two actions per transaction, checks on the snapshot and commit |
| `Dmarc` | the DMARC processor: one action per step of the processing of a message, failures of IMAP and of the database, crashes |
| `HashStore` | what the interface `Store` promises: answers of one moment, changes that may land later |
| `Store` | its memory, Memcached and Redis back ends, one action per command; implements `HashStore` |
| `Transports` | transports in the database: checks on the snapshot, then the statements with the commit |
| `RelayHosts` | relay hosts and the columns that refer to them, `delete_relayhost` statement by statement |
| `Socketmap` | the socketmap server: connections, sessions, the pool, the event loop; extends `RelayHosts`, whose requests change the table it reads |
| `Spf` | the SPF resolver as recursive functions of a zone, and reachability, the reference it is compared with |
| `ForwardingHosts` | forwarding hosts in their two hashes, one action per Redis command; extends `Spf` |
| `Aliasexp` | alias expansion, one action per address it looks at |
| `NetfilterProofs`, `NetfilterTablesProofs`, `DomainsProofs`, `AccountsProofs`, `DmarcProofs`, `TransportsProofs`, `StoreProofs` | the theorems about the module of that name |
| `LookupProofs` | the theorems about what the mail servers look up: `Socketmap` with `RelayHosts`, `ForwardingHosts` and `Aliasexp`, whose names differ so that one module can extend them |
| `MC...` | instances for TLC: sets of names, goto lists, limits, and a comparison of `calc_net_ban_time` with the code's formula on the default options and the values of its unit test |

Definitions named in a comment as a seeded fault are wrong variants of the
operator that follows them. They are used by no specification; each makes one
property fail, which shows that the property depends on that code.

### Netfilter

The lock of the service is only held over code without a suspension point, so a
task runs atomically from one real `await` to the next: receive, sleep, DNS
query. `Watch` is one log line, `Autopurge` one round (queue, then overdue
bans), `UpdateBlacklist`/`ResolvedBlacklist` the two halves of a round around
the DNS queries, and so for the whitelist. `...Fails` are the same stretches cut
short by an exception of nft or Redis, with every prefix of their effects; they
end the task (`autopurge`, `blacklist`, `whitelist`, which nobody awaits) or the
service (`watch`, `chain_order`). `Start`, `Exit`, `Sigterm`, `Crash` are the
process; `compose.yml` restarts it ("restart: always"). A rule is a count per
network, since `NetfilterTables.ban` inserts without a look and `unban` deletes
the first match. Time is in whole units; the code rounds the published end of
a ban to seconds, so `ExpiryAgrees` and `NoEarlyLift` are exact up to half a
second. Log patterns and the parsing of addresses are inputs.

### NetfilterTables

`chains` is chosen once, when the process starts, by `init_chains` from the
listing of that moment, one pass written as a recursive function; `base` holds
the rules of every base chain, chosen or not. Every nft command is a step, also
a listing and the command that uses it: `GetChainHandle` and `Flush`, `ListJumps`
and one `Unjump` for each handle it showed (`todo`), `ListIsolation` and
`Isolate`, `SnatList` and `SnatInsert`. `Foreign` and `Kill` may come between any
two, so a handle may be gone when it is used: nft refuses the command and the
process ends (`CommandFails`). Only the two listings of `check_chain_order`,
which change nothing, are one step. The kernel refuses to delete a chain that a
rule still jumps to (`Busy`). One family is modelled; the other is an independent
copy. The SNAT rule is `post`. A process that stopped after a complete `clear` is
`"stopped"`, any other end is `"down"`.

### Domains

SQL statements come first and take the lock of the row (or of the gap where it
would be), Redis commands follow, then the commit: `holders` is that lock. The
DKIM routes take none. `Fail` stops a request before any command; Redis keeps
what it has. Any requests overlap. `mapDoubt` and `keyDoubt` are history
variables: the domains that a request may have left half done, because it raised
or, for the keys, because it was `crossed`, until a request that repairs them
completes. A request is `crossed` when, while it runs, another one runs that
writes the keys it reads or writes and one of the two is of `/api/dkim`, so that
no row lock keeps them apart.

### Accounts

A request reads in the snapshot of its first SELECT (MariaDB's default isolation
REPEATABLE READ, nothing in `mysql/conf.d` changes it) and, because sessions
have `autoflush=False` (`db.py`), its ORM changes reach the database at the
commit, after every SQL statement it executed. MariaDB refuses to write or lock
a row that changed after the snapshot (`innodb_snapshot_isolation`); the request
then ends in `Rollback`. The refresh of the static view reads the table mailbox
with locks (`Lockable`): all its rows in `create_mailbox`, those of its user and of the
users in the view in `update_mailbox`, whose query is for one user
(`sogo.py:100`), so that it does not notice a mailbox created since. What a request
only reads does not conflict. A quota is any integer, since
`create_mailbox` accepts a negative one (`mailbox.py:70`, `mailbox.py:237`). `SomeMailbox` is the value of a
column that is selected without an aggregate next to aggregates: any row's.
Alias domains, sender ACLs and temporary aliases, which no request creates, and
Dovecot's usage counters are left out.

### Dmarc

`Poll` is the search for unread messages, `Fetch` the download and extraction of
one, `Flush`/`FlushDuplicate`, `Commit` and `UpdateMetrics` the three outcomes
of `store_report` and the counters, `Flag` the final `\Seen`. Rows are tagged
pairs: row 0 of a report is in `dmarc_report`, the others in `dmarc_record`.
Attachments are abstracted to what the code can do with them: nothing to extract
(`NoXml`, also a bad archive, whose exception is caught), an extraction that
raises (`Torn`), XML that does not parse (`Garbled`), or a report. `counted` is
kept per report, which is finer than the labels of the counter. Two facts are
external: a `FETCH` of `RFC822` sets `\Seen` (RFC 3501, 6.4.5), and a session of
SQLAlchemy whose flush or commit raised refuses every statement until it is
rolled back or closed.

### HashStore and Store

`HashStore` is the abstract specification: a call is invoked and returns what one
moment between the two answered, after all that its client did before. An update
takes effect at that moment (`TakeEffect`), or its change lands later (`Look`,
`Leave`, `Land`): `hset` and `hdel` then change the hash they saw, over what
others wrote since, and the changes of one client land in their order. It leaves
open what the back ends disagree on: an emptied hash stays (memory, Memcached) or
goes (Redis); a key that was given a time to live may lose fields, or go, at any
time; Redis refuses a value that is no text, the others store its text; `hdel` of
a text raises TypeError or, in Redis, ResponseError. `Store` has the
three back ends, of which `backend` is the one `Store.from_url` chose. Both
share the table, the calls and the answers, so the refinement mapping
`Promised == INSTANCE HashStore WITH ...` is the identity on them and hides the
rest (`life`, `timed`, `pc`); `KeepsPromise` is `HashStore`'s specification
as a property of `Store`'s. `mortal` is a history variable: the keys that were
given a time to live since they were last set or deleted.

In the Memcached back end a call of `hset` reads (`MemcachedRead`) and writes the
whole hash back (`MemcachedWrite`). `set` and `flush_all` of pymemcache do not
wait for the reply (its default `noreply`), so the change joins those that the
connection carries in `late`, and the call returns; `Land` is the server's step.
A call that waits for a reply (`Sending`) has it only after these. So one of two
concurrent `hset` of a hash may be lost, and `HashStore` allows it: what it rules
out is a hash that is neither the one seen nor changed in one field, an answer
that no moment of the call explains, or a client that does not see what it did
itself. `Used` and `MaxLate` bound the calls and `late`.

### Transports

A create or an update is two steps, like the requests of `Accounts`: the checks
on the snapshot, and the statements with the commit, which are granted if the
rows that they lock (the transport itself, and those with the new next hop) are
as the snapshot has them. `update_transport` assigns to the model and then
executes `_sync_nexthop_credentials`; the session does not autoflush, so this
UPDATE sees the rows as they were, and SQLAlchemy (`synchronize_session`
`"auto"`) makes the session forget what was assigned to the columns of an object
that meets the condition of the UPDATE and that it sets: the credentials. The
history variable `applied` says that every update stored the credentials it was
asked to store. `Conflicts` compares next hops the way Python does and
`SyncNexthopCredentials` the way the collation of the table does (`SameInSql`,
with `Fold` for the case of a host).

### RelayHosts and Socketmap

`delete_relayhost` is a DELETE and two UPDATEs; what they write is seen with the
commit, the locks they take are held until then. A condition on a column without
an index makes InnoDB lock every row, so requests that point a domain or a
mailbox at a relay host wait. `WriteDomain` and `WriteMailbox` stand for all
requests of the managers that write those columns; none checks the id.

A connection of `Socketmap` has one session. Its first lookup takes a connection
from the pool (`PoolSize` is SQLAlchemy's `pool_size` plus `max_overflow`) and
fixes the snapshot that every later lookup reads. `WaitForPool` is the
synchronous wait of the pool, which blocks the only thread, so that no other
connection can end meanwhile: it always ends in `PoolTimeout`. Netstrings are
abstracted to a request for a domain, one for another map, and one whose length
is no number.

### Spf and ForwardingHosts

A zone gives each name its SPF records, MX and address records. `ParseMechanism`
and `SpfAllowedHosts` follow the code, one level of recursion at a time. A
mechanism is known by its place, record and index; places are ordered the way
the two loops read them (`Before`), and mechanisms after the first
redirect are never read. Records that include one another are followed until the
stack is full. What raises `RecursionError` then is a query, which needs more of the
stack than anything else, and `resolve_txt` and `resolve_mx` take every exception for
a name without records (`CanQuery`, `spf.py:55`). `MaxStack` is the room there is at
the first call, in calls, and may be any number; an include uses two of them
(`_parse_mechanism` and the call), a redirect one, and the exchangers of a
mechanism "mx" are queried two calls deeper than their record. (`resolve_a` calls
`getaddrinfo`, which needs less than a query and is taken to have the room. The
resolver of the tests has no limit of its own and would raise.) The reference in
the same module has no recursion: `Delegated` is the least set of names around a
name that is closed under includes and redirects.
`ForwardingHosts` adds, updates and deletes the hosts found, one Redis command
per step; a command may raise and nothing is undone. `settled` is a history
variable: what the last request about a host should have left, or that it
raised or overlapped with another about the same host.

### Aliasexp

The tables are fixed during a request (one snapshot) and `DOMAIN_MAP` is not
(Redis). `Request` is the check of the domain with the first gotos, `LookAt` one
pass of the inner loop, `NextRound` the end of one pass of the outer loop. A
goto list is the set of its addresses, which are looked at in any order. The
reference is a least fixed point: the active mailboxes in every set of addresses
that is closed under the rules of delivery. `OnlyMailbox` leaves open only what
the code leaves open: a request that `max_loops` ended with addresses left, for a
recipient that leads to more addresses than there are rounds (`Few` is the
opposite). Nothing is assumed of the number of addresses.

## Runs

Passing runs:

| Run | Instance | Shows |
| --- | --- | --- |
| `netfilter_bans` | one reported address, a second network behind a host name, 2 attempts, windows 1, 2, 3, clock to 4, nft errors, crashes, reboots | the safety of bans: `ExpiryAgrees`, `NoEarlyLift`, `NoOrphanRule`, `ListedBansAreOurs`, `CleanExit` |
| `netfilter_live` | the same with errors of Redis and displaced chains, under fairness | `OverdueBanLifted`, `ChainRepaired`, `BlacklistTakesHold` |
| `tables` | two chains for the hook input, two priorities, with and without a SNAT target, three edits or kills | `OneJump`, `SetUp`, `CleanStop`, `LowestPriority`, `OrderRestored` |
| `domains` | two threads, two domains, two selectors, two key pairs, two requests of `/api/dkim` or requests that raise beside any number of others | `MapAgrees`, `PairsMatch`, `CreateKeepsKey` |
| `dmarc` | three reports, two of them with one id, in four messages, one with garbled XML and one torn; three faults | `WholeReports`, `CountedOnce`, `LossReported`, `Drained` |
| `transports` | two threads, a host with and without brackets and port and in two cases, an address, two destinations, three credentials, three transports | `TypeOK` (stored destinations are valid), `SameCredentials`, `DuplicatesBounded`, `OthersKeepUsername` |
| `store` | each back end, two clients, one key, two fields, a text and a value that is none, times to live, lost connections | `KeepsPromise` (refinement), `ExpiryWasAsked` |
| `aliasexp` | two domains, three addresses, a tag, aliases with cycles, a catch-all, an alias domain, inactive mailboxes | `OnlyMailbox`, `FoundIsReachable`, `Ends` |
| `socketmap` | two connections, a pool of one, one domain, one user, one relay host, one thread of the API that deletes the relay host, other requests beside it | `TypeOK` (a connection that is over holds nothing of the pool), `NoneLeftDangling`, `Answered`, `ChangeIsSeen` |
| `forwarding` | 152 zones of three names; two threads, two hosts and changing DNS in two of the zones | `SpfIsReachability`, `HashesAgree` |
| `accounts` | two threads, one domain, two users, one more address, limits of one and two, quotas 1, 2 and -1 | `LimitsKept`, `OrphansOnlyByRace`, `ViewClean`, `ViewComplete` |

One run refutes what the repository says, and is the finding in `PROJECT.json`:
in `netfilter_bans_expire` a banned net that is reported once more after
`retry_window` stays banned for ever. Other disagreements are listed below
under "Seen in the model".

Bounds and why they are enough. Two networks suffice because the actions treat
networks independently except in the list tasks, which need one address and one
name. `MaxAttempts` 2 tells below, at and above the limit apart; the windows are
in the order of the defaults (`retry_window` 600 < `ban_time` 1800 <
`max_ban_time` 10000) and the ladder of `calc_net_ban_time` reaches its cap. The
clock runs past the end of a first ban. `MaxRules` 2 lets rules pile up,
`MaxForeign` 3 lets an edit fall between a kill and the next launch. Two threads
are enough for a lost update, two selectors for a key that moves; `MaxKeys` 2
lets a key replace another, `MaxTrouble` 2 lets two requests of `/api/dkim` cross each
other, one meet a request that raises, or two raise. In `accounts` one mailbox fills
the domain under some limits and two under others; with the negative quota a sum
can be within a limit that its parts are not. Three faults let a
failed commit, a lost answer and a crash come together in `dmarc`.

In `transports` two rows are enough for a pair that disagrees, a third for one
transport more than there are threads, and two threads for a commit between the
checks and the commit of another; the requests are those that tell brackets,
ports, case, addresses, passwords without a user name and refused destinations
apart. In `store` one key is enough because calls name one
key each and only `flushall` touches several; two fields tell a lost field from
a lost hash. In `aliasexp` three addresses allow cycles of lengths one to three,
`MaxLoops` 3 is enough rounds for all of them, so that `OnlyMailbox` is checked
in every final state, and `DOMAIN_MAP` changes once per request. In
`socketmap` a pool of one is exhausted by one of two connections, as fifteen are
by fifteen of sixteen; a second relay host adds nothing but time, since
`delete_relayhost` names one. In `forwarding` the 150 combinations of records hold
includes, self-includes, mutual includes, redirects before and after other
mechanisms, failing mechanisms and several records per name; requests are made
in two more zones, between which the DNS switches. `MaxStack` 7 has just the room
for two calls for each of the names and one more.

Symmetry of the threads is used in `domains`, `accounts`, `transports` and
`forwarding`, of the clients in `store`, of the domains in `domains` and of the
users in `accounts`; these check no liveness. Deadlock is checked everywhere: some action is always enabled.

Fairness. The tasks of the netfilter service sleep a bounded time and go on, so
a round is weakly fair; `stop_event` wakes `_main`, so `Exit` is; the container
is restarted, so `Start` is. In `NetfilterTables` the set-up runs to its end and
the tasks go round. The loop of the DMARC processor goes round whatever a round raises, and
its container is restarted, so its steps are weakly fair. Nothing is assumed of
log lines, administrators, failures, mail providers or the clock. The
thread that expands an alias keeps running (`Step`). An event loop runs its
callbacks in the order they became ready, so none is passed over for ever
although others block the loop again and again: `Handle(c)` is strongly fair.
The pool raises after its time-out, so `PoolTimeout` is weakly fair; so is
`Hangup`, because Postfix ends a connection after `max_idle` or `max_use`.

## Proofs

Every theorem holds for all values of the constants that satisfy the named
assumption of its module (the limits are naturals, the markers for "nothing" are
none of the values, ...), hence for any number of threads, domains, hosts,
messages, faults and edits. No theorem has a further hypothesis: requests overlap
as they like, and where the code does not keep a promise in some overlap, the
property names the overlap.

Each proof follows one argument: an inductive invariant, stronger than the
property, which holds initially, is kept by every action (one lemma or step per
action) and implies the property. TLC checked each of them on the instance of
the run before it was proved.

`NetfilterProofs`:

- `TypeCorrect`: `Spec => []TypeOK`; rule counts never go below zero.
- `ExpiryAgreesAlways`: by `ExpiryInv`. The invariant as stated says nothing of
  a stopping service, and that is not inductive: a watch task that failed after
  it counted an attempt has already changed the record. `ExpiryInv` speaks of
  the running service that has not been told to stop, of the nets in both maps,
  and adds what a stop leaves true.
- `NoEarlyLiftAlways`: from the same invariant, each step that removes an entry
  is an unban of an expired or of a queued net.
- `NoOrphanRuleAlways`: by `RuleInv`. "Has an owner" is not inductive, since
  taking an address out of the blacklist removes one rule only; the number of
  rules of a net that is not in `bans` must be exactly 1 or 0.
- `CleanExitAlways`: by `ExitInv`, which adds that a service that stops with
  exit code 0 will clear.
- `ListedBansAreOursAlways`: inductive with `TypeOK`.

`NetfilterTablesProofs`, by `TablesInv`:

- `OneJumpAlways`: a jump is inserted only if the one listing did not show it;
  `ListedInv` says that it is then still not there, since other programs move
  our jumps or flush them but add none.
- `SetUpAlways`: `ProgressInv` is what the setup has reached at each command as
  long as no other program has interfered.
- `CleanStopAlways`: by `KernelInv` and `ClearInv`. While `MAIL` is not there,
  nothing in the kernel refers to it, and nobody but this service makes it: a
  handle that is not found at the start of `clear` cannot come up before its end,
  and one that is found is deleted, which the kernel allows only without jumps.
- `LowestPriorityAlways`: the best chain of the first `n` of the listing, by
  induction over `n` (`BestStep`, `BestFound`), is the one `CHOOSE` picks, since
  priority and place order the chains strictly.

`DomainsProofs`:

- `MapAgreesAlways`: by `RowInv`, without any condition on overlaps. The row lock
  makes the holder of a create the only request of its domain (deletes share the
  gap of a row that is not there, `LockInv`), and `MapInv` says what
  `DOMAIN_MAP` holds before and after the command of each holder.
- `PairsMatchAlways` and `CreateKeepsKeyAlways`: by `KeyInv`, which follows a key
  pair through the three hashes command by command. No request under way writes
  the keys that an uncrossed one reads or writes (`CrossInv`), save that two
  deletes of a missing row share its gap (`Others`); so what an uncrossed request
  has read and written is still so when it goes on (`WorkInv`), and the keys of a
  domain are a pair unless a request is between two commands or was crossed
  (`PairInv`).

`AccountsProofs`, by `AccountsInv`, which says of each transaction what its checks
found in its snapshot:

- `LimitsKeptAlways`: a commit whose snapshot of the domain is not outdated finds
  no more mailboxes and no larger sum of quotas than its checks did
  (`NotOutdated`, `FewerMailboxes`), and one lemma for each request
  (`UpdateDomainFits`, `CreateMailboxFits`, `UpdateMailboxFits`,
  `DeleteMailboxFits`) says that it fits then. The sum of the quotas is a fold
  over a finite set; `TotalAdd` and its companions say what adding, changing or
  removing a row does to it, whatever the sign of its quota.
- `OrphansOnlyByRaceAlways`: `delete_domain` deletes the aliases it finds and
  fails on rows newer than its snapshot, so only the commit of a create that has
  read the domain is left (`OrphansStep`).
- `ViewCleanAlways` and `ViewCompleteAlways`: what one commit does to the view,
  for any interleaving.

`DmarcProofs`:

- `WholeReportsAlways` and `CountedOnceAlways`: by `StoreInv`. Neither property
  is inductive: a commit keeps reports whole because the transaction holds all
  rows of one report that is not a duplicate (`TransactionInv`), and the count
  that follows is the first one because a report whose id is counted is stored,
  which makes every report with that id a duplicate (`CountInv`, `UniqueIds`).
- `LossReportedAlways`: by `LossInv`, an inequality of cardinalities that counts
  the message in hand as lost from the moment it is fetched until its last
  report is stored, with `RestInv`, what is still to be done of it.

`TransportsProofs`, by `TransportsInv`:

- `TypeCorrect`, `CredentialsAlways`, `UsernamesKept`: the rows that have the next
  hop as the request writes it had its user name when it was checked
  (`SnapshotInv`) and, by the locks, still have it when it commits.
- `DuplicatesBoundedAlways`: the transports of a destination and the requests that
  will add one are together at most as many as threads (`CountInv`). A request that
  begins to add one found none; one that commits becomes a transport.

`StoreProofs`:

- `ExpiryWasAskedAlways`: by `LiveInv`.
- `KeepsPromiseAlways`: the refinement of `HashStore`. Initial states map to
  initial states; each step of a back end is a step of `HashStore` or leaves its
  variables alone. `CallInv` says how far a call has come and what it holds,
  `LateInv` that only Memcached has changes to land.

`LookupProofs`:

- `TypeCorrect` and `NoneLeftDanglingAlways`: by `SocketmapInv`. Between the UPDATE
  of a table and the commit the locks keep the set of referring rows what the
  statement wrote (`WrittenInv`).
- `HashesAgreeAlways`: by `FwdInv`. Of two requests about a host each is marked
  (`FwdMarked`), so one that is not marked finds in the first hash what it wrote
  (`FwdCurrent`), and the hashes agree on a host nobody is between the two
  commands of (`FwdSettled`).
- `FoundIsReachableAlways`: by `ExpInv`. Whatever the request has come to is in
  every set that is closed under the rules of delivery, whether or not the
  domain that led there has since left `DOMAIN_MAP`.
- `OnlyMailboxAlways`: by `WaysInv`, which adds the other direction. As long as
  `DOMAIN_MAP` is steady there is a set of addresses that holds what the request
  has looked at and what it looks at in this round, and all that the former lead
  to but for the next round (`Explored`). A request that ends with nothing left
  has therefore looked at a closed set. In one that `max_loops` ends, the set is
  closed or has grown with every round; it lies in every closed set, so that a
  closed set no larger than the number of rounds is this set (`ExpAll`).
- `SpfIsReachabilityAlways`, in four parts. The recursion over the room on the
  stack has a function (`SpfLoopExists`). One call, given what the calls that it
  makes return, returns of its own addresses and theirs no more than all, and all if
  the exchangers can still be queried (`LevelFacts`: `LevelRedirect` for records
  that redirect, `LevelPlain` for others). By induction over the room, nothing is
  returned that no name delegated to has (`FoundIsReached`). For the other
  direction take one address. The names for which it is found with room for
  `2j + 3` calls grow with `j` (`FindingStep`) until the name asked for is among
  them: as long as they do not grow and it is not, the other names are closed
  under delegation and hold a name that has the address (`ReachedIsFound`).

Induction over data. The induction theorems of the library take an operator as
parameter and cannot be used; where a loop or a sum is reasoned about, the proof
takes a least counterexample instead (`WFMin` over the naturals, or over the
subsets of a finite set) and shows that it is none. Loops are therefore
recursive functions over `0..n` (`init_chains`, `WithoutJumps`, `Selected`,
`GetSpfAllowedHosts`), and a lemma shows that such a function exists.

Only model-checked, and why:

- Liveness (`OverdueBanLifted`, `ChainRepaired`, `BlacklistTakesHold`,
  `OrderRestored`, `Drained`, `Ends`, `Answered`, `ChangeIsSeen`): fairness and
  ENABLED are out of the prover's reach.
- `calc_net_ban_time` against the literal formula of the code: the provers know
  nothing of `2^c`.

## Seen in the model, without a run of its own

- A net that was banned twice is still dropped after its unban. Each attempt at
  or above `max_attempts` inserts one more drop rule (`netfilter.py:694`), and
  `NetfilterTables.unban` deletes the first match (`netfilter.py:493`), although
  `netfilter.py:718` logs "Unbanning %(net)s".
- `snat` cannot read back its own rule: it looks for the target in
  `expr[3]["snat"]` (`netfilter.py:307`), where the rule it inserts has the
  counter (`netfilter.py:347`). The KeyError ends the task on its second round;
  "Position > 0 and is mail rule" (`netfilter.py:332`) is not reached and a
  displaced SNAT rule stays displaced.
- A jump left in a base chain that the next process does not choose, because
  another program has since added a chain with a lower priority, makes every
  start fail: `clear` deletes the jumps of the chosen chains only
  (`netfilter.py:259`) and cannot delete `MAIL`. `netfilter.py:175` logs
  "restarting container to fix it". `OrderRestored` excepts this case by
  `Stranded`.
- SOGo keeps the password of a user whose access was withdrawn until the next
  mailbox request: `update_mailbox` refreshes the view before its own changes
  are flushed (`mailbox.py:379`), although `tests/unit/test_sogo.py:27` says "The
  password should only be the same when force_pw_update is False and sogo_access
  is True". `ViewClean` and `ViewComplete` except the user of the request.
- An inactive mailbox can never be updated, not even to activate it: the query
  of `update_static_view` for one mailbox aggregates without GROUP BY
  (`sogo.py:98`), so it inserts a row of NULLs and raises.
- `unban` skips a net only if it is not tracked at all; a net that is tracked
  but not banned is unbanned too, which raises its `ban_counter` and deletes its
  blacklist rule if it has one (`netfilter.py:712`).
- `create_alias` refuses when no alias is left, not when fewer than none are
  (`alias.py:166`). A domain gets there when the alias of a mailbox, which is
  not counted while the mailbox exists, outlives it.
- `update_domain` compares a new maximum with the quota of any one mailbox
  (`domain.py:307`), so mailboxes may exceed the maximum of their domain.
- A goto list that names a mailbox twice becomes empty when the mailbox is
  deleted (`mailbox.py:406`).
- A domain may go beyond its number of mailboxes or its quota when `update_domain`
  races a mailbox request or `update_mailbox` a `create_mailbox`: each reads what the
  other writes and does not lock it (`domain.py:272`, `mailbox.py:352`). Without
  any race it does so when a mailbox with a negative quota, which `create_mailbox`
  accepts (`mailbox.py:237`), is deleted after the room that it made has been used. `LimitsKept` excepts these cases and no other.
- `delete_domain` finds a domain empty and deletes it while a mailbox or an alias
  is created in it, which is then left without a domain (`domain.py:280`).
- Two concurrent `POST /api/dkim` of one domain, or one and a `create_domain`, both
  pass the check that the domain has no key and overwrite each other field by field
  (`dkim.py:88`). `CreateKeepsKey` and `PairsMatch` except the requests and the
  domains that such an overlap is about, and no others.
- A message of the DMARC mailbox is flagged as read when it is fetched, so the
  reports of one that fails are never tried again, although the code flags it
  only after its last report (`dmarc.py:260`). One failed flush or commit makes
  every later message of the round fail as well, since nothing rolls the session
  back (`dmarc.py:297`); `LossReported` says that the counter shows it.
- Reports are told apart by `report_id` alone (`models.py:612`): of two providers
  that use one id, or of two reports without an id, the second is taken for a
  duplicate.
- `update_transport` that moves a transport to a next hop with other credentials
  stores the credentials the transport had: the UPDATE of
  `_sync_nexthop_credentials` runs before the flush and the session forgets the
  ones assigned (`transport.py:240`). The rows of one next hop may then differ,
  although `transport.py:182` says "Postfix requires identical credentials per
  nexthop".
- Two requests at once may give one destination two transports, or one host two
  user names: `_check_conflicts` reads a snapshot (`transport.py:259`) and the
  indexes of the table are not unique (`models.py:566`). `DuplicatesBounded` says
  how many.
- `_check_conflicts` takes "mx" and "MX" for two hosts (`transport.py:264`), the
  UPDATE of `_sync_nexthop_credentials` for one (`my.cnf:4`): a transport created
  for "MX" with another user name renames the user of those for "mx", and leaves
  "[mx]", which the check takes for the same host as "mx", with the old one.
- Once a host has two transports their user name can no longer be changed, since
  each is in conflict with the other (`transport.py:268`); unless they differ in
  case, the user name that `_sync_nexthop_credentials` copies is therefore the one
  already there. Passwords of
  "[host]" and "host", which the check takes for one next hop, may differ.
- `create_transport` keeps a password given without a user name, `update_transport`
  clears it (`transport.py:237`).
- Requests that point a domain or a mailbox at a relay host accept any id
  (`domain.py:261`, `mailbox.py:375`). No index of `relayhosts` is unique
  (`models.py:295`), so `RelayHostAlreadyExistsError` (`relayhost.py:130`) is
  never raised.
- Postfix is not told of a change by connections whose session has read the table
  before (`socketmap.py:102`), until it closes them. With more connections than
  the pool has, a lookup blocks the event loop until the pool raises, and the
  connection is closed without an answer.
- A redirect drops the hosts found before it (`spf.py:146`), a failing mechanism
  ends its record but not the next one (`spf.py:137`). Domains that include one
  another are queried again and again until the stack is full; the answer is
  right, but with two such includes in a record the number of queries doubles with
  every level, so that the request does not end in practice (`spf.py:131`).
- `update_forwarding_host` that races `delete_forwarding_host` leaves an entry in
  `KEEP_SPAM` of a host that is not whitelisted. A name is resolved once; the
  hashes do not follow the DNS.
- More than 21 rounds of aliases are cut off (`rspamd.py:307`): the mailboxes at
  the end of a longer chain are not found.
- `hset` of the Memcached back end gives the whole hash the time to live of the
  last write and `hdel` takes it away (`store.py:169`); that of the memory back
  end keeps the expiry of a record, expired or not (`store.py:279`). Memcached
  takes a text that is a JSON object for a hash. Redis refuses a Boolean, so
  `update_policy` of the password policy (`password.py:67`) raises half done.
- `duplicate_key` over a domain that has a key under another selector leaves
  that private key in Redis for ever (`dkim.py:118`).

## Not modelled

- Schemas, command line, logging, registry, metrics and container restarts keep
  no state of the mail system; the routes that change state are the request
  actions of the modules.
- Tables and views are declarations; the columns the properties read are
  variables.
- Authentication and the password policy are stateless checks of one request and
  three calls of the store.
- Of `rspamd.py`, the settings and BCC queries only read and format, and a custom
  map is one file write.
- The entry points of the containers write configuration once. The rspamd Lua
  rules and the Dovecot scripts run inside other programs; imapsync is
  third-party code.
- `Sogo.delete_user` empties the tables of another program.
- Text (the syntax of SPF records, XML, netstrings, nft JSON) is not modelled
  where no property is about it.

## Plan

Modelled and checked: every part whose state outlives a request. Proved: every
invariant and every action property that the runs check. What is left is beyond
this prover and stays with TLC: the liveness properties, and the exponential of
`calc_net_ban_time`.
