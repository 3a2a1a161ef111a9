# sslpv in TLA+

sslpv provisions a TLS certificate and its private key: a FastAPI server hands
them out over a challenge/response protocol, and a one-shot client, usually run
by cron, fetches them, writes them to disk and has a service reload them. This
directory holds TLA+ models of its stateful parts, the TLC configurations that
check them, and TLAPS proofs of what matters most. Source paths below are
relative to the repository (`PROJECT.json` prefixes them with `src/`).

## The system

| component | source | state it keeps | operations |
|---|---|---|---|
| rate limiter | `services/server.py` `RateLimiter` | an `OrderedDict` IP -> `[tokens, last]` | `allow` |
| spent-nonce set | `services/server.py` `SpentNonceSet` | an `OrderedDict` nonce -> expiry | `add`, `contains` (deletes what it finds expired), `purge` |
| auth dependency | `dependencies.py` `verify_auth` | none of its own: the two above and the server secret | steps a to g, one request at a time |
| challenge endpoint | `routers/certs.py` `get_challenge` | none | meters, draws and signs a nonce |
| cert and privkey endpoints | `routers/certs.py` | none: the two files, read on every request | `get_cert`, `get_privkey` |
| application and server start | `services/server.py` `create_app`, `run_server` | `app.state`: secret, set, limiter, configuration | start, restart |
| crypto helpers | `utils/crypto.py` | none | challenge signature, proof, key agreement, `cert_key_match` |
| configuration | `services/config.py`, `models/config.py` | none after start-up; the files it names change all the time | validation, choice of the TLS certificate and key |
| fetch protocol | `services/client.py` `fetch_json`, `fetch_encrypted_pem` | none | challenge, proof, fetch, decrypt |
| TLS opener | `services/client.py` `build_opener` | none | choice of verification, pinning, redirects |
| pair writer | `services/client.py` `write_pair_atomically` | two temporary files, two destination files | stage, rename, undo, clean up |
| change detection, post-hook | `services/client.py` | the two files, the service's memory | `detect_pair_change`, `run_post_hook` |
| coordinator | `services/client.py` `run_client` | the fetched pair, `changed` | stages 1 to 7 |
| command line, envelope, logging | `main.py`, `response.py`, `utils/logging.py` | none | parsing and formatting |

How they interact. Every request passes `RateLimiter.allow`. `GET /challenge`
returns a nonce signed with a secret that lives as long as the process; nothing
is stored. `GET /cert` and `GET /privkey` run `verify_auth`, which checks
signature, freshness, the spent set and the proof, and adds the nonce to the
spent set; then the PEM file is read from disk, where a renewal replaces it at
any time. The server's own TLS certificate and key are read once, at its start,
and are by default the very files it distributes. The client makes two such
exchanges, compares the two answers, compares them with the files it has,
writes both files and runs a hook. Cron runs it again; nothing else retries.

What is hard:

- *Time.* The limiter uses the monotonic clock, challenges the wall clock, which
  may be set, and `verify_auth` reads it twice. Expiry is judged by `>` in one
  place and `<=` in another.
- *Bounds.* The spent set and the limiter evict their oldest entries when full.
- *Delivery and restarts.* A request may arrive twice, late, or after a restart.
- *Failure of one call among many.* Staging, two renames, undo and clean-up may
  each fail, be cut short or be the last thing a killed process does; two
  clients may do this at once.
- *Stale reads.* The certificate and the key are fetched at different times;
  whether the service needs a reload is judged from the files alone.
- *Sharing.* Clients share a server, and behind one address a bucket.
- *Start-up.* Files are checked one by one and used later, while a renewal may
  be replacing them; what was loaded is used until the next restart.
- *Progress.* There is no retry within a run.

Handlers are `async` functions that never `await`, in one process
(`workers=1`), so they do not interleave with each other. This, and not a lock,
is what makes check-then-add in `verify_auth` atomic. Time and a kill of the
process do interleave, and are modelled.

`PROJECT.json` lists the hazards at their lines, with the properties that cover
them.

### What makes each component correct

| component | properties |
|---|---|
| rate limiter | `ImplementsTokenBuckets`, `GrantedBound`, `TracksMostRecent` |
| spent-nonce set | `RemembersRecent`, `ForgetsOnlyForRoom` |
| auth dependency and challenges | `ReuseOnlyIfForgotten`, `RecordsWhatWasAccepted`, `DropsOnlyOldestOrEnded`, `IssuedWithinBudget`, `EvictsOnlyExpired`, `ImplementsTickets` |
| endpoints, fetch protocol, several clients | `FailsOnlyForMishap`, `RefusedOnlyWhenCrowded`, `EveryClientServed` |
| configuration and server start | `StartFailsOnlyForCause` |
| TLS opener against the server's certificate | `TokenOnlyToTrusted`, `PinBreaksOnlyByRestart`, `RefusedOnlyForCause` |
| pair writer | `UnmatchedOnlyForCause`, `KeyFollowsCert`, `TempsLeftOnlyByCrash` |
| coordinator, hook, served files | `UnmatchedOnlyForCause`, `StaleOnlyAfterMissedHook`, `EventuallyCurrent` |

## Modules

```
OrderedDict            collections.OrderedDict (external)
 |- RateLimiter        class RateLimiter, as operators
 |   `- Limiter        the limiter at work          == implements ==> TokenBuckets
 |- SpentNonceSet      class SpentNonceSet, as operators
 |   `- NonceMemory    the set through its whole interface
 `- AuthServer         GET /challenge and verify_auth    == implements ==> Tickets
Provisioning           clients, network and one server
PairWriter             write_pair_atomically, one action per system call
 `- ClientRun          run_client, cron, the hook and the service    (ServedFiles)
ServedFiles            the server's two files, and their renewal (external)
ServerLife             load_server_config, run_server, exit status   (ServedFiles)
 `- Transport          the client's TLS: pin, verification, redirects
OrderedDictProofs      lemmas about the dictionary
 `- ServerMemoryProofs lemmas about RateLimiter and SpentNonceSet
     `- LimiterProofs, NonceMemoryProofs, AuthServerProofs
ProvisioningProofs, TransportProofs (with ServerLife),
ClientRunProofs        (with PairWriter)
MC*                    instances for TLC
```

**OrderedDict** is the library's dictionary as the two classes use it: a
function from keys to a value and a position, so that insertion, deletion,
`move_to_end` and `popitem(last=False)` need no recursion. `IsDict` says that
the positions number the keys without gaps; the proofs keep it.

**RateLimiter** and **SpentNonceSet** give each method as two operators, what
it returns and the state it leaves, so that a handler chains the calls it makes
in one step. Tokens are a float in the code; here they are a number of grains,
`Grain` to the token, so that a refill can be a fraction of a token.

**TokenBuckets** is the promise of the limiter's docstring: every IP has a
bucket at all times, each refilled every second, and the `MaxIps` IPs seen last
keep their level. **Limiter** drives the class with requests, pauses and more
IPs than it tracks. Its refinement mapping (`Promise`) gives `TokenBuckets` as
`level` what the lazy bucket would hold if it were refilled now, and as `newer`
the IPs seen since. `window` is a history variable: an observer picks any IP
and moment and counts its grants.

**NonceMemory** drives the set with any order of `add`, `contains` and `purge`
and says, from histories only, what must still be remembered.

**AuthServer** holds `app.state` (`secret`, `spent`, `buckets`), the two clocks,
the challenges issued, and the one request being handled. `verify_auth` is
`BeginAuth` (steps a to d, first reading of the clock) and `FinishAuth` (steps
e to g, second reading), because time may pass in between. A signature or proof
is represented by the message it covers. `RequestsFrom` makes every request
that can be made with challenges ever issued, with right or altered times,
paths and keys; `Unparsable` stands for headers that do not parse, which are
metered too. The client's public key is not a field of its own: a proof made
for another key fails like one made for another path. `times` and `forgotten`
are histories: how many requests were accepted with each nonce, and whose record
was dropped. `Restart` may strike at any point, with a new secret and empty
state.

**Tickets** says what all this is for, without signatures, dictionaries or
sizes, to an observer who counts the requests let through with each challenge
(`times`). `Take` lets one through, and the count shows it, whether or not the
records change: the challenge must be of the running process (`good`), and if an
acceptance of it is on record (`taken`) its time must be over (not in `live`). A
record is lost only when its challenge's time is over, or one to another in a
full set. `AuthServer` implements it, with `good` the nonces signed with the
present secret, `live` those whose last second has not passed, `taken` the spent
set and `Room` its size. Without the check of the spent set a second request
would be counted with a live challenge on record, which is no step of `Tickets`:
that is the mutant (`AcceptUnchecked`). The exception, for a challenge whose time
is over, is the one `auth_one_time` shows to be needed.

**Provisioning** composes the two sides over a network. Each client connects
through a peer: a trusted proxy, which names it, or an address it shares
(`Address` is `_get_client_ip`). A run asks for a challenge, sends its request,
and takes the answer or gives up, for `/cert` and then for `/privkey`; any
answer but 200 ends the run. `Serve` is what the server does to its state on a
protected request and `Status` what it answers, in the code's order: 429, 401,
500 after the nonce was spent, 200. Requests are lost, repeated by a proxy,
late (the client has gone, the request lives on, perhaps until its next run),
answers are lost, challenges expire, files cannot be read, the process
restarts. So that several clients and days fit, the server is seen as its own
modules show it to be: whole tokens and room for every address
(`TokenBuckets`), and challenges accepted once while they are good (`Tickets`).

**PairWriter** has one action per call that may fail; `Faults` names what an
instance lets fail. A short `os.write` is a file `Truncated`. Writers may
overlap, and crash; `causes` remembers what has disturbed the pair since it was
last written undisturbed. `cert_tmp` and `privkey_tmp` are the temporary files
as they lie on disk, also after the call has returned, raised or crashed, until
the writer's next call takes new names: `TempsLeftOnlyByCrash` looks at them
there. A crash is that of the process; a power loss that
loses a rename already made is not modelled (the code does not fsync the
directory).

**ClientRun** puts that writer in the middle of `run_client`: two fetches at
different times of files that a renewal replaces one after the other, the
comparison, the write, the hook and the exit status, started again and again.
**ServedFiles** holds those files and their renewal, which is not sslpv's; it
is instantiated here and in `ServerLife`. The service is what the hook has load
the files. Reading the files for the comparison and the start of the write are
one action: only overlapping runs could tell them apart, and those can as well
interleave after it.

**ServerLife** starts a server: the checks of `load_server_config` in their
order, each on the file as it is at that moment, then uvicorn's reading of the
certificate and of the key, which must match. Meanwhile files break, are mended
and are renewed. Each of `server_certfile` and `server_keyfile` may be set or
not, as the configuration allows. A restart is `Stop` and `Launch`. `flaws`
remembers what was wrong at some moment of the last start, `outrun` whether a
renewal came after it, or was in progress.

**Transport** adds a client to it: what `validate_server_url` lets it ask, what
`build_opener` lets it connect to (`Accepts`: a pin takes the place of the
chain, and of `--insecure`), where `_SafeRedirectHandler` lets a redirect go,
hop after hop, and whom the token was told. The operator takes a pin of a
server that is up; certificates expire.

The definitions called "A mistake" are wrong versions of the definition that
follows them. They are used by no specification: with one put in the place of
the right version, the property named with it in `PROJECT.json` ("mutants") is
violated, which shows that the property depends on that code.

## Runs

| run | shows | instance |
|---|---|---|
| `auth` | a nonce is accepted again only if its record was dropped, records are dropped for two reasons only, and the set is exactly what was accepted | 3 nonces in a set of 2, both paths, a key configured and one not, TTL 1, 3 seconds, 1 clock setting, 1 restart |
| `auth_sizing` | the limiter keeps a set that is large enough (`LargeEnough`) from evicting live records | 4 nonces in a set of 2, burst 3 and 1 per second, TTL 1, 5 seconds, 1 restart |
| `auth_one_time` (violation) | one-time use is not absolute | as `auth`, set of 3, no clock setting |
| `limiter` | answers are those of `TokenBuckets`; bounded grants; the most recent IPs are tracked | 3 IPs, 2 tracked, burst 2, half a token per second, 5 seconds |
| `nonce_memory` | the last `MaxSize` nonces are remembered through any calls | 4 nonces in a set of 2, 4 seconds |
| `purge_boundary` (violation) | `purge` forgets a second early | the same |
| `pair_writer` | what can leave an unmatched pair, and that nothing else can; no temporary file is left but by a crash | 2 writers, 3 certificates, two of which share a key, every fault but a failing removal of a temporary file |
| `pair_half_updated` (violation) | a failed rename of the key loses the old pair | 1 writer, that fault only |
| `client_run` | mismatched fetches are never written, status 0 is truthful up to the two exceptions named, and the newest pair arrives | 1 client, 2 certificates, 2 renewals, 2 mishaps of any kind |
| `hook_missed` (violation) | a hook that failed is not run again with `--hook-on-change` | 1 renewal, 1 mishap |
| `provisioning` | one client's trouble never fails another's run, a 429 means a crowded address, and every client that fits is served again | 2 clients through a trusted proxy or a shared address, bursts of 7 tokens, 2 mishaps of any kind, any number of days |
| `transport` | a start fails, a pin breaks and a chain is refused only for the causes named, and the token goes to trusted hosts only | 2 certificates, one of which may also be configured as the server's own, 2 renewals, 1 broken file, any number of restarts and requests |

Why these bounds are enough for the interesting cases. In `auth`, three nonces
in a set of two force an eviction; with `TTL` 1, three seconds contain the
issue, the last good second and the first bad one, and one clock setting brings
any of them back. In `auth_sizing` the numbers are the smallest that satisfy
`LargeEnough`; with a set one smaller TLC finds a live record evicted. In
`limiter`, a third IP forces evictions, and half a token per second makes
fractions matter. In `pair_writer`, two writers are enough for any overlap of
two pairs of renames. In `client_run`, two mishaps allow a failure in the
recovery from a failure, and two renewals one in the course of another's
distribution. In `provisioning`, two runs at one address take eight tokens and
find seven: one less than needed, so that the bound of `RefusedOnlyWhenCrowded`
is met exactly, and alone either has tokens to spare for a repeat; two mishaps
let a request of one day disturb the next, or a restart meet a repeat. Four
serial numbers per client are more than are known at any time. In `transport`,
two renewals bring back the first certificate with a second in between, and one
broken file reaches every check and both loads. The server's own certificate is
a copy of the first one distributed, so that with only one of its two files
configured the pair matches at some starts and not at others.

The bound of `RefusedOnlyWhenCrowded` puts numbers on a limit of the service as
configured: with 20 tokens and 1 per second, up to 5 clients behind one address are never refused
undisturbed; from 7 on, all of those that start in one second may be, because a
run that is refused half-way has used its tokens.

The clocks advance in whole seconds, and in `AuthServer` both at once. At the
configured rate of one token per second nothing is lost by this; a rate that
refills a token in less than a second is seen only at whole seconds, in the runs
and in the theorems.

Counters are bounded by `MaxWall`, `MaxUptime`, `MaxJumps`, `MaxRestarts`,
`MaxClock`, `MaxRenewals`, `MaxFaults`, `MaxMishaps` and the set `Serials`;
when `MaxWall` is reached time stops, and when all nonces are drawn no
challenge is issued, hence `CHECK_DEADLOCK FALSE` in the runs of `AuthServer`.
Symmetry is used for nonces, IPs, paths and writers, in runs that check no
liveness. What is proved holds for all bounds, and that is everything the runs
that pass check except liveness (see Proofs).

**Fairness.** `ClientRun` and `Provisioning` state it. A step of a run is
eventually taken, because requests have timeouts (`--timeout`) and the rest of
the run waits for nothing but the hook, which is taken to end (it has no
timeout in the code). `Start` is fair because cron starts the client again
(README, "Scheduled renewal"); it cannot start while a run of the same entry is
in progress. A renewal that has replaced one file replaces the other. Failures,
kills and renewals are not fair, and are bounded by `MaxMishaps` and
`MaxRenewals`: `EventuallyCurrent` says what happens once they cease. In
`Provisioning`, a run goes on for the same reason (`Progress`): it is answered
or times out. `NewDay` is cron again, for every client at once, once all runs
of the day have ended. Refilling is not fair and need not be: a day begins with
full buckets, since it lasts longer than `Capacity / Rate` seconds. `Transport`
states no fairness and no liveness.

### Where the code and its documentation disagree

1. `auth_one_time`: a challenge presented in its last good second passes the
   freshness check (`dependencies.py:149`); if the second changes before
   `contains` reads the clock again (`server.py:136`), the record of the spent
   nonce is deleted and a duplicate is accepted. README 186-187 promises
   one-time use. Passing `now` to `contains`, or keeping records one second
   longer, would close it.
2. `purge_boundary`: `purge` uses `<=` where `contains` uses `>`. The server
   never calls `purge`.
3. `pair_half_updated`: the undo of a failed second rename removes the new
   certificate; the old one is gone already.
4. `hook_missed`: README 222-224 promises a reload whenever a new certificate
   is written; after a hook that failed, the next run sees no change.

A short write that leaves the fetched content and the files different from each
other is noticed by the next run. In the run in which it happens, with
`--hook-on-change` and content equal to what was on disk, the files are damaged
and the run exits with status 0 without a reload: `StaleOnlyAfterMissedHook`
names this exception.

One more difference is without consequence. `load_server_config` documents a
`ValueError` on any failure, but a configuration file that does not exist raises
`FileNotFoundError` from the permission check; `main` turns both into exit
status 1, which is what `ServerLife` models.

The size of the spent set is sufficient as configured: with 100000 records, a
burst of 20, 1 token per second and a TTL of 60 seconds, `LargeEnough` holds
for up to 1428 client addresses all requesting at the full rate.

## Proofs

Every invariant, action property and refinement of a run that passes is a
theorem here. The theorems hold for every value of the constants that satisfies
the assumptions stated with them. These are the constants' types (natural
numbers, `MaxSize`, `MaxIps` and `Grain` not zero; `MaxUptime` and the like may
be any number), that sets of IPs and of clients are finite, and that markers
such as `NoKey`, `Absent` and `Unset` are none of the values they stand beside.
No theorem assumes fairness. A module of proofs starts with the parts of its
inductive invariant, each with the reason it is there.

`OrderedDictProofs` shows that every dictionary operation keeps `IsDict` and
what it does to keys, values and size; the step that needs thought is that
deletion renumbers the positions without gaps. Its second half is about age:
`Behind(d, k)` are the keys that came after `k`, `MostRecent(d, m)` those with
fewer than `m` behind them, and `TouchedRecency` says how storing a key at the
end and evicting the oldest change both.

`ServerMemoryProofs` derives what `allow`, `contains`, `add` and `purge` do to a
store. It is about both classes, so it declares the constants of both; a theorem
about one mentions none of the other's. `purge` deletes any number of keys at
once, so its positions are ranks, counted by `Cardinality`. `RefillBySeconds`
is the arithmetic of lazy refilling: to refill for `n + 1` seconds at once,
capped, is to refill for `n` and then for one.

`LimiterProofs`. `GrantedBound` is not inductive: it says nothing of what the
bucket still holds. `IInv` adds `Accounted`: while the bucket has been served
since the window opened, the grants and the tokens it holds together are at most
a burst and the refill up to the bucket's last stamp. A request moves the stamp
to the present, adding at most the refill of the interval (`EntryAccrues`,
`AccruedAdds`), and exchanges one token for one grant; time alone changes
neither side. For the refinement, `Tick` is shown to refill every bucket of
`TokenBuckets` by a second (`TickIsSecond`, from `RefillBySeconds`), and a
request to be the promised one (`AllowIsRequest`): the dictionary keeps a key
exactly as long as fewer than `MaxIps` others are behind it, which is what
`TokenBuckets` asks in terms of `newer` (`AllowOrders`).

`NonceMemoryProofs`. The code evicts by position, the promise counts additions.
`Faithful` joins them: the records behind that of a nonce were all added since
it was, so a record that is evicted from a full set has `MaxSize` others added
after it. `Held` says that a recent nonce whose expiry has not come has a
record.

`AuthServerProofs`. `IInv` adds to the checked invariants that nonces are drawn
once (`DistinctNonces`), that the request between the two readings of the clock
carries a challenge of this very process (`Genuine`), that no challenge is
signed with a future secret, and that the set never exceeds `MaxSize`.

- Reuse: an accepted nonce is in the set or was dropped
  (`RecordsWhatWasAccepted`); if it is in the set, `contains` either reports it
  or deletes it; and a restart voids the challenges the set would have been
  needed for. For `DropsOnlyOldestOrEnded`: the record's expiry is that of the
  very challenge presented, since a nonce has one challenge, and `contains` and
  an eviction cannot both drop a record, since a deletion makes room.
- `ImplementsTickets`: `Good` are the nonces of the running process, `Live`
  those in time. Every step is a step of `Tickets` or a stutter. An acceptance
  is always a `Take`, since it is counted; if a record of its nonce was there,
  `contains` found it expired, and a record expires with its challenge, which
  therefore is not live (`ExpiredIsOver`). The same holds of a record dropped by
  `contains` with nothing accepted, a `Forget`. If `add` evicts another, the
  nonce had no record and the set was full (`AcceptKeys`, `EvictsOldest`). A
  challenge is drawn anew, so none was ever accepted with its nonce.
- The bounds. `Billed` says that every challenge issued and every one redeemed
  can be assigned `Grain` grains of some IP, numbered in the order the limiter
  hands them out, no two ranges overlapping, all within a burst and the refill
  since the start. Counting the ranges gives `IssuedWithinBudget`. If the clock
  is never set, a challenge is not paid for with grains refilled before it was
  issued, but for the burst (`PaysInTime`); and one redeemed is at most `TTL`
  older than any redeemed before it (`InOrder`). If the oldest record were live
  when it is evicted, all `MaxSize + 1` challenges would be at most `2 * TTL`
  old, and with their redemptions cost more than `LargeEnough` allows: hence
  `EvictsOnlyExpired`.

`ProvisioningProofs`. `FailsOnlyForMishap` needs to know of an undisturbed
client that waits that its nonce is valid and unspent (`Held`), that its request
or its answer is on its way (`Safe`), that no other request carries its nonce
(`Owned`), and that a request's nonce names its client (`Named`); `Blamed` is
the property. For `RefusedOnlyWhenCrowded`, `Covered` charges every token
missing from an address's bucket to a run of that address, at most four to each
(its `Slots`), or to a request nobody waits for any more (`strays`): an empty
bucket then means that many runs, and one more that was refused (`Crowded`).

`TransportProofs` is about `ServerLife` and `Transport`. During a start,
whatever a check or a load finds wrong is in `flaws` (`Seen`), and unless it was
outrun by a renewal no renewal is half done (`Settled`); afterwards what is in
memory is what was on disk, or came before a renewal (`Kept`). `Pinned` is what
a pin was taken of, and `Https` that every hop, and so the token, stays on
https.

`ClientRunProofs` is about `PairWriter` and `ClientRun`. `WInv` adds that two
active writers are remembered in `causes` (`Overlaps`) and what a writer has
staged at each of its steps (`Staged`): while it is about to rename the key its
certificate is in place, unless another writer or a short write interfered.
`InPlace` says the same of the temporary files: which of the two may exist at
each step, and that none does when the call has returned or raised.
`RunsImplementWriters` shows that a run of the client does to the files what
`PairWriter` says and nothing else, so the writers' theorems hold of it.
`ReloadedUnlessMissed` is about a single client run again and again (its
hypothesis `Writers = {w}`, as in the run `client_run`), for any certificates,
number of renewals and mishaps: `Alone` says at each stage what is on disk,
what was fetched and what the service has, and `Excused` collects the
exceptions of the property.

Only model-checked are `EventuallyCurrent` and `EveryClientServed`, which are
liveness under fairness, beyond the prover. That the code violates what the
documentation says, in the runs that expect a violation, is TLC's to show.
`StaleOnlyAfterMissedHook` is for one client, in the run and in the theorem. It
does not hold of two that overlap: one that finds nothing changed, because the
other has just written, exits with status 0 before the other has run its hook.

## Not modelled

- Encryption of the payload: the channel either delivers what the server sent
  or fails. It keeps no state, and what it guarantees rests on the primitives.
- Header syntax and base64: a request parses or does not. A comparison that
  raises (HTTP 500) leaves the same state as one that fails.
- In `Provisioning`, the early loss of records from the spent set and a clock
  set back: both are `AuthServer`'s subject. More addresses than the limiter
  tracks: `Limiter`'s.
- In `ServerLife`, a port that cannot be bound, and other ways for uvicorn to
  end. Host names and key usage in `Transport`: a certificate is vouched for or
  not.
- Argument parsing, help, the message when the server package is missing, the
  envelope of answers, logging: sequential and stateless.
- Files changed on the client by anyone but sslpv; power loss.

## Plan

Done, in this order: the two data structures with their proofs, `AuthServer`
(the most important behaviour) with its one-time-use theorems, `Limiter` with
its refinement and bound, `NonceMemory`, `PairWriter`, `ClientRun`, `Tickets`
with its refinement, `Provisioning`, `ServerLife` and `Transport`.

Then the proofs of all that: the tickets and the budgets of `AuthServer`,
`Provisioning`, `ServerLife` and `Transport`, `PairWriter` and `ClientRun`, the
refinement of `Limiter`, and `NonceMemory`.

Next: to say of several overlapping clients when a service is left with an old
pair, and to prove it; to combine `ReuseOnlyIfForgotten` and `EvictsOnlyExpired`
into a statement of when a nonce can be used twice with the server as
configured; and to shorten the longest proofs (`AuthServerProofs`,
`ProvisioningProofs`) by lemmas they share.
