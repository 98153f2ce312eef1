# aqara_ble: a TLA+ verification project

`aqara_ble` drives an Aqara U200 door lock over Bluetooth LE. A call
authenticates with the lock through the Aqara cloud (an ECDH exchange in which the
cloud holds the application's side), sends one encrypted command, reads what the
lock answers and returns. Everything runs on one asyncio event loop, except the
blocking HTTP requests, which run in worker threads. The parts whose orders of
events are hard to test are modelled here, checked with TLC on small instances, and
the main results are proved with TLAPS for every value of the constants.

Paths below are relative to `src/aqara_ble/` unless they say otherwise.

## 1. Inventory

| Part | Source | State it keeps | Operations | Status |
|---|---|---|---|---|
| Authenticated session | `session.py` | `_device_operation_in_progress` (per device, module level); per attempt: four subscriptions, queues, `actuation_state`; the loop of re-authentication | `run_authenticated_lock_operation`, `_run_authenticated_lock_operation_once`, `_run_cloud_phase` | `LockSession`; the best-effort GATT steps before the exchange are one step |
| Control channel | `session.py` 815-936, `client.py`, `lock_state.py` | `control_queue`, `report_queue`, `follow_up_out`, the pending gets of the listen loop | command and reply, follow-up reads, listen window, keepalives; `read_burst`, `read_settings`, `battery` | `ControlChannel` |
| Auth framing | `framing.py`, `session.py` 462-490, 719-774 | `auth_queue`, the fragments of a message | fragment, collect, assemble, parse | `AuthFraming` |
| Voice-pack transfer | `ota.py`, `ota_language.py` | `state` shared by the sender and `drain()`, window, NAKs, `resume_from` | arming, handshake, init frame, streaming, end frames, final status | `VoicePackOta`, `VoicePack` |
| Scan and selection | `transport.py` 60-287, 339-391, `scanner.py` | the candidates found so far, the armed early stop | score, keep, stop, `select_preferred`, connect by address | `Scan` |
| Connection | `client.py` 128-199, 706-713, `transport.py` 288-452 | `_transport`, `_device`, `_connection` of the transport, `_closed` of the client | scan, connect, discover, disconnect, close | `Connection`, over `BumbleTransport` |
| Proxy transport | `esphome_transport.py` | `_MANAGER` (per process); `_cli`, `_unregister`, `_client` | `_ensure_manager`, `_ensure_api`, `connect`, `disconnect` | `ProxyTransport` |
| Other transports and adapters | `transport.py`, `bumble_transport.py`, `gatt.py` | the client of another stack | connect, subscribe, write, disconnect | their scans in `Scan`; the rest not modelled |
| Cloud account | `auth.py` | `_token`, `_user_id` | `get_token`, `handle_expired_token`, `build_signer`, `list_devices`, `resolve_device_id` | `CloudAccount`; the cache also in `LockSession` |
| Cloud requests | `kdf.py`, `cloud_crypto.py` | none | sign, send, interpret; login, public key, verify, device list, MAC, offline passwords and their log | `CloudRequest`, `CloudAccount`; key exchange in `LockSession` |
| Language change | `client.py` 330-470, `voice_ota.py` | none of its own | login, prefetch of the cloud key, choice and download of the pack, its frames, session with a `post_auth` hook | `LockSession`, `VoicePack`, `VoicePackOta` |
| Command builders and decoders | `lock_ops.py`, `lock_state.py`, `models.py`, `operations_catalog.py`, `gatt_uuids.py` | none | every builder and decoder, the catalogue's reads | `Commands`, `Replies` |
| Cryptography | `cloud_crypto.py`, `control_codec.py`, `app_constants.py` | none | | what a signature covers, in `CloudRequest`; the rest not modelled |
| Command line, packaging | `cli.py`, `__init__.py`, `errors.py` | none | | not modelled |
| Unused helpers | `volume.py`, `protocol.py` | none | | not modelled: nothing in the package calls them |

How they interact:

- A consumer calls `U200Client`; each method builds a command and awaits
  `run_authenticated_lock_operation`. Two calls may run at once, of one device (the
  flag refuses the second) or of two (they share an account manager).
- The session calls the cloud through `asyncio.to_thread`: the thread is not stopped
  when the call that awaits it is cancelled. It calls the transport for
  `start_notify`, `write`, `stop_notify`; the transport's callbacks put fragments and
  frames into the queues of the session.
- The account manager is shared by calls and called from several threads, with nothing
  that excludes them from each other.
- `U200Client.connect` asks a transport for candidates, picks one and asks it to
  connect, with a deadline around each phase; on a failure it asks for `disconnect`.
  Proxy transports of one process share one Bluetooth manager.
- A `post_auth` hook takes the session over after the authentication;
  `run_voice_pack_ota` is the one in the package.

What is hard here: the order in which frames, events and timeouts come; what a
cancellation leaves behind at each await; two calls in the gap between two attempts
of one of them; two threads at the token cache; a cloud that keeps one ephemeral key
per device; a flow control whose counters are written by one coroutine and read by
another; lost and repeated notifications; a release that must undo whatever part of
an attempt was done, and be cut short itself; bytes whose meaning depends on which
call they reach. The places are the "hazards" of `PROJECT.json`, each with the
properties that watch it, or the reason none does.

What makes each part correct, in a sentence: a **session** commands the lock at most
once, only when authenticated in this attempt, never together with another call, and
gives the device and the notifications back whatever happens; the **control channel**
gives every read its own answer or none, and loses no event; the **framing** delivers
a message whole or fails; the **transfer** never floods the lock, sends refused blocks
again, ends, and says truly how it ended; the **account** keeps the newest token, and
signs with the user it belongs to; a **request** is signed over what the cloud
receives; a **scan** picks the lock or nothing; a **connection**, over either
transport, that fails or is closed leaves nothing open; the **builders** give
different settings different frames; the **decoders** conclude nothing false.

## 2. Modules

| Module | What it is |
|---|---|
| `LockSession` | the calls, their worker threads, the token cache, the cloud's keys |
| `LockSessionProps` | its properties, and the refinement mapping to `DeviceLock` |
| `DeviceLock` | abstract specification: what a caller is promised about one device |
| `MCLockSession` | small instances |
| `LockSessionProofs` | proofs: one call; then calls together, with the refinement |
| `ControlChannel`, `MCControlChannel`, `ControlChannelProofs` | the control channel of one session |
| `AuthFraming`, `AuthFramingProofs` | fragments of the key exchange |
| `VoicePackOta`, `VoicePackOtaProofs` | one transfer of a voice pack |
| `Connection`, `ConnectionProofs` | opening and closing the way to the lock over one Bumble transport |
| `ProxyTransport`, `ProxyTransportProofs` | the same over ESPHome proxies that share a manager |
| `CloudRequest` | one request: what is signed, what is sent, what an answer means |
| `CloudAccount`, `MCCloudAccount`, `CloudAccountProofs` | threads that share an account, and the calls that need no lock |
| `Scan`, `Commands`, `Replies`, `VoicePack` | pure algorithms, over `Bytes` |
| `Library`, `MCLibrary`, `LibraryProofs` | what they answer to their inputs |

`LockSession` takes a message of the key exchange as arriving or failing, the control
channel as "reply", "tail", and the transfer as "hook"; `AuthFraming`,
`ControlChannel` and `VoicePackOta` open these steps up. `Connection` or
`ProxyTransport` is what comes before and after a session, `CloudAccount` what its
login thread does when others log in too. `ControlChannel` delivers frames and
`Replies` says what a call concludes from one; `VoicePackOta` sends numbered blocks
and `VoicePack` says what is in them. A definition that begins with "Variant of" in its comment is a
plausible fault of the definition after it (a dropped guard, a missing reset): the
properties are checked to notice it. No behaviour of a specification uses one.

### LockSession

Each call is in a phase `pc` that names the await it is in. The code between two
awaits is one action, because the event loop runs it alone.

| Code | Model |
|---|---|
| credentials given twice (`session.py` 340-345) | `RejectBoth` |
| wrapper: login thread, `_once`, code 108, login again (346-387) | `BeginAuth`, `LoginReturns`, `CanRetry` in `StopNotify` |
| `get_token` in its thread (`auth.py` 136-151): check, HTTP, store | `CheckCache`, `CloudLogin` / `LoginFails`, `StoreToken` |
| check and set of the flag (450-456) | `Enter` |
| `start_notify` on each characteristic (698), before the `try` | `EnableNotify` |
| `_run_cloud_phase`: public key, verify (75-115) | `PubkeyReturns`, `VerifyReturns`, `OrphanReturns` for the thread of a cancelled call |
| up to six messages until the lock's key (733-750) | `EmptyAck`, `LockKeyArrives` |
| answer to the verify data, point of no return (771-815) | `AckArrives` |
| command or hook, reply, tail | `WriteControl`, `ReplyOrTimeout`, `Completes`, `ConsumerRaises108` |
| any exception of the inner `try` | `BleFails`, `LeaveTry` |
| inner `finally`: `stop_notify` each; outer `finally`: flag (943-949) | `StopNotify` |
| `CancelledError` at any await | `CancelOutside`, `CancelGuarded` (runs the inner `finally`), `CancelUnguarded` (in "cccd" or in the clean-up itself) |
| `change_language`: login and prefetched key (`client.py` 368-383) | "prelogin", `PrefetchStarts`, `PrefetchReturns` |
| `cloud_device_mac` (`kdf.py` 618-638), for `resolve_device_id` | `LookUp`, whenever an account is asked for its locks |
| a request that times out (`kdf.py` 404-433) | `GivesUpOn`: the call fails, and the cloud may still serve it (`OrphanReturns`) |

The cloud and the lock are external: the cloud honours the newest token of an account
and keeps one ephemeral key per device (`cloudKey` says for which call). The lock may
answer the verify data with 0x07 or with another frame, whatever key it derived: the code
takes the type for the answer (`session.py` 773), and what the lock means by it the
repository does not say. `writes` is history.
The GATT steps before the exchange that the code runs on best effort (pairing, service
discovery) are not separate actions.

`DeviceLock` is what a consumer may rely on without knowing any of this: a call takes
a free device, moves it at most once, gives it back with an outcome or, never having
moved it, to try again; "busy" is answered only while somebody holds the device and
to a call that has not moved it.

### ControlChannel

From the command on: `SendCommand`, `TakeReply` (the first frame, whatever it is),
`ReplyTimeout`; per follow-up read `SendRead`, `TakeMatch`, `PassOver`, `ReadTimeout`;
the listen loop `Listen`, `GetControl`, `GetReport`, `Wake`, `WindowCloses`. A frame
is a record of its kind, its opcode and the request or event it belongs to; the code
sees kind and opcode only. The lock answers in any order, at any time or never, pushes
events and reports, and a frame may be empty, too short or fail to decrypt. `Uncaught`
has TRUE for Python 3.10, where asyncio's timeout is not the `TimeoutError` that the code
catches, and FALSE for the later versions. `dropped` is the report lost with the frame
that fails the session. A get that
`asyncio.wait` left pending is cancelled with its queue untouched, so `Wake` looks at
both gets, done or not.

### AuthFraming

The 18-byte fragments of "pub", the acknowledgements, "key", "verify" and "ack07", each a
record of its message and its number. `InOrder` is what `assemble_auth_fragments`
checks (all numbers but the last's) and `Parses` what `parse_auth_message` checks (the
declared length). The CRC that the header carries is not compared by the code, nor in
the model. A notification or a write may be lost, a notification repeated. `stray` is a
notification that is no fragment: an empty one, of which the lock may send any number, is
passed over (`SkipEmpty`) and begins the wait anew, one of a single byte raises
(`BreakOff`). That a
torn frame gets an empty acknowledgement is an assumption about the lock.

### VoicePackOta

The main coroutine, phase by phase, and `Drain`, on the shared counters; frames in
`air`, reports in `reports`, and a lock that accepts blocks in order and answers each
frame as `ota.py` says it does, or not at all. `calm`, chosen once, is the environment in which nothing is lost
and no timeout is early. A transfer begins with the manifest
handshake or, with `skip_manifest`, as a resumption. End frames are sent after a stall
or an abort too, as the code does. `Interrupted` is a cancellation at any await, a
progress callback that raises and a link that dies during the arming reads: each ends
the transfer where it is, and `drain()` with it.

### Connection

One `BumbleTransport` and the clients that connect over it one after another. The
fields that are not None are `held`; what is really open is `ports` and `link`.

| Code | Model |
|---|---|
| `connect`, by address or with a scan (`client.py` 164-182) | `Begin` |
| `_ensure_device` (`transport.py` 324-337) | `PortOpens`, `PowersOn`; skipped when a radio is recorded |
| the scan, `select_preferred` (339-391, `client.py` 170-175) | `ScanStarts`, `ScanEnds`, `ScanFails` |
| the link, the discoveries (412-437) | `LinkUp`, `Discovered` |
| any exception or deadline of `connect` (`client.py` 183-188) | `ConnectFails`, which begins the release |
| `disconnect` (440-452) | `ReleaseNext`: empty the next field, release what it recorded |
| a slow or raising step of it, the deadline around it | `ReleaseStepRaises`, `ReleaseDeadline` |
| `close`, `CancelledError` | `Close`, `Cancel` |

A step of the stack that fails or is given up is taken to have no effect: what a
half-opened serial port leaves behind is the stack's affair. `mishaps` records the four
things after which something can stay open: a release cut by its deadline or by a
raising step, a scan that failed while the radio was powered on, and a cancellation.

### ProxyTransport

Several `EsphomeProxyTransport`s of one process. `held` is the fields that are not
None, `open` what is really open; `polled` is the manager that `connect` asks for the
lock, `target` the one the scanner was registered with. Between the check and the
setting of `_MANAGER` there is an await, so two transports may each set one up.

| Code | Model |
|---|---|
| `connect`, by address or with a scan, which raises (`client.py` 164-178) | `Begin` |
| `_ensure_manager` (`esphome_transport.py` 54-71) | `EnsureManager`, `ManagerReady` |
| `_ensure_api` (110-125) up to its first await, in the same step | `EnsureApi` |
| dial, `device_info`, register | `Dialled`, `Registered` |
| the polling loop, the link, scan mode and parameters (134-183) | `LockSeen`, `LinkUp`, `Tuned` |
| any exception or deadline of `connect` | `ConnectFails`, which begins the release |
| `disconnect` (185-202) | `ReleaseFrom`, `ReleaseStepDone`, `ReleaseStepRaises` |
| the deadline around it; `close`; `CancelledError` | `ReleaseDeadline`, `Close`, `Cancel` |

Unlike `BumbleTransport`, `disconnect` empties a field after its release, so a cut
release forgets nothing; `mishaps` are the two things that do lose one (an API whose
`device_info` fails, a release that raises), and the cut. That `_ensure_api` asks for
the manager again is no step of its own: by then there is one, and no await in between.
The manager may know the lock through any scanner it has or had, so `LockSeen` asks only
that somebody registered one with it.

### CloudRequest and CloudAccount

`CloudRequest` has `_request_json` before and after the exchange: the text that is
signed (`BodyStr`), the bytes that are sent (`Data`), clear or sealed, and what an
answer means (`Interpreted`, `Unwrapped`, with codes as numbers or texts). A hash
stands for its preimage, and the parts of it that every request shares are left out.

`CloudAccount` runs one call per thread, one statement of `auth.py` at a time: check,
login, store the token, store the user id, build the signer, then a call of a session
(logged in again after one code 108), `resolve_device_id`, `fetch_offline_passwords`
or `fetch_offline_password_log`. The cloud numbers its tokens and honours the newest,
may answer with an expiry at any time, may grant a login whose answer is lost, and may
hold a device without a MAC or with the bytes in the other order. `lapses` are the two
things after which the cache may hold an older token: overlapping logins and a lost
answer. The clock is there for the window of an offline password.

### Library

Five modules of operators, and one that asks them: each behaviour of `Library`
takes one input, answers it and stops, and the invariants compare the answer with the
question. What the code computes in a loop is a recursive function (`FoundAfter`, the
advertisements kept so far; `CrcAfter`, the checksum so far), which the provers can
reason about, and not a `RECURSIVE` operator, which they cannot.

- `Scan`: advertisements with their signs, strength and second; the score, the early
  stop, the replacing of an earlier advertisement by the latest, `select_preferred`
  with its ties, the two ways to connect by address.
- `Commands`: every builder of `lock_ops.py` with its range checks, byte by byte, and
  the catalogue's classification of opcodes that only read.
- `Replies`: every decoder of `lock_state.py`, at the offsets of the code, and which of
  them `read`, `battery`, `listen` and `operate` use.
- `VoicePack`: `parse_voice_list`, `select_voice_pack`, the download and its md5, the
  CRC computed as in the code, padding, blocks and writes.
- `Bytes`: Python's integers as bytes, the exclusive or of words by their bits.

## 3. Runs

| Run | Asks | Bounds |
|---|---|---|
| `session_exclusion` | exclusion, one actuation, leaks only by cancellation, the cloud's key, `DeviceLock` | two static calls, one of them cancellable, and a language change of one lock, look-ups of the account; two characteristics, one key read, one re-authentication, tokens expire; 1,256,831 states |
| `session_account` | retries, termination if the others answer, release of the flag if callers cancel | a managed, a doubly-credentialled call and a language change of one account and lock; two key reads, one characteristic, `stop_notify` may fail; 285,410 states |
| `channel_session` | own answers, nothing lost, the session ends | two reads and the window, one event, report, bad frame, keepalive, timeouts caught or not; 1,424,435 states |
| `channel_battery` | (violated) `RespondedMeansAnswered` | `battery()`, two events |
| `framing_faults` | the key whole or no key, the exchange ends once the lock falls silent, only silence fails a clean one | the code's 65-byte key and six reads, five acknowledgements, three faults, any number of empty notifications; 87,259 states |
| `ota_flow` | flow control, honest stalls, the transfer ends, with success where nothing goes wrong | five blocks, window 3, from the first, after the second (within the window's width) or after the fourth (beyond it), one damaged block, both ways to begin, a sleeping lock, drops, aborts and interruptions, or a calm environment; 186,912 states |
| `ota_nak` | (violated) `LastNakAnswered` | one damaged block |
| `ota_resume_stall` | (violated) `ResumeStreams` | resumed at the window's width |
| `connection` | nothing forgotten, all released, bounded phases end | three attempts on one transport, every failure; 3,673 states |
| `library` | the right lock or a reason, requests apart, true conclusions, the pack arrives | up to three advertisements of two devices, at seconds on both sides of the scan's early stop; 17 values at the edges of each field's range; every decoder on its frames, with the bytes around them noisy; windows of three events; two rows of a voice list, packs up to 11 bytes in blocks of 2 and writes of 3, sequence numbers modulo 4; 346,622 states |
| `account` | newest token, whole signers, signed is sent, the right id, the codes' window | two threads, three logins, accounts of none, one or two devices; window 2, clock to 3; 1,461,599 states |
| `proxy` | nothing forgotten, one manager | two transports, two attempts each, every failure; 4,551,427 states |

Why the bounds are enough. Sessions interact in pairs, through one flag, one cache or
one cloud key, so two live calls show each interaction; two characteristics are the
fewest for which a clean-up loop can be interrupted inside, two key reads (in the run about
termination) the fewest with one that is not the last; one re-authentication is the code's. Two reads are the
fewest for which the late answer of one can meet the next. A window and one or two more
blocks let the window fill, move and end; one damaged block makes every block after
it come out of turn. A third attempt can meet what two different mishaps of the
earlier ones left; over a proxy, where a release loses nothing by being cut, the second
attempt meets all the first can leave, and two transports are all that race for a
manager. Two threads overlap in every order, and a third login shows a second refresh.
Three advertisements are two of one device around one of another. The pure algorithms
are checked at both sides of every comparison they make; a pack of 11 bytes has six
blocks, so the sequence number wraps and the last block is short, full or absent.
Where a property has a theorem the bound does not matter.

Fairness. `LockSession`: weak fairness of the threads, whose HTTP requests have a timeout,
and of a call at an await that has one. `Unbounded` names the awaits that have none: the
requests to the Bluetooth stack (`start_notify`, `stop_notify`, the writes and the
best-effort steps before the exchange), the `post_auth` hook and the consumer's callbacks,
and a message of the lock, whose fragments have a deadline each but no common one.
`Termination` therefore has the premise `OthersAnswer`, that these come to an end, and
`FlagReleased` the premise `CallersCancel`, that a caller cancels a call that hangs, again
if need be. Without them both are false of the code (section 5). Nobody has to start a
call or let a token expire. `ControlChannel`: the session's steps and the closing of its
window, a deadline; the lock need not answer anything. `AuthFraming`: the session's steps;
the lock need not answer, and `ExchangeEnds` has the premise `FallsSilent`, that it does
not notify for ever. `VoicePackOta`: the two coroutines, each scheduled by the event
loop, and the frames and reports under way; nobody has to touch the keypad, abort,
cancel or drop the link. `Connection`: the timers around connect and disconnect and in
the scan; the stack need not finish anything. The other specifications state none:
they are checked for safety alone.

Deadlock is checked in every run but `library`, whose behaviours stop when they have
answered: each other specification has a step that only stutters in its final states.

## 4. What is proved

The theorems hold for all values of the constants that the ASSUMEs allow
(`ConstantsOK`, `ChannelConstantsOK`, `FramingConstantsOK`, `OtaConstantsOK`,
`ConnectionConstantsOK`, `ProxyConstantsOK`, `AccountConstantsOK`, `AccountsOK`,
`NoneIsNothing`, `LibraryConstantsOK`, `PackConstantsOK`: sizes are numbers, bytes are
bytes, tables are functions on what they describe, a list of
devices has a list of ids, and None is no number, device, answer or text); an assumption
in a theorem's statement is named here.

- `LockSessionProofs`: `TypeCorrect`, `AtMostOneActuation`, `ExpiryRetried`. `writes[c] <= 1` is not inductive: a step that writes must know that
  nothing was written in an earlier attempt. The invariant says, per call, that
  nothing is written before the point of no return, and that a call that leaves an
  attempt to try again has not passed it; this is what `CanRetry`'s conjunct
  `~actuation` is for.
- `LockSessionProofs!Exclusion`: each step of a call leaves the flag and its
  membership alone (`Stays`), takes the flag when it is free (`Takes`) or gives it back
  (`GivesBack`); the invariant "the flag is set exactly while one call is inside, and
  it is one" follows from these three kinds.
- `LockSessionProofs!OnlyCancelLeaks` (assumes `~StopMayFail`): the loop
  invariant of the clean-up (below the index nothing is subscribed), together with
  exclusion, since the clean-up of one call unsubscribes whatever is there. The same
  theorem has `RefusedLeavesNoTrace`, and `Exclusion` has `FlagMatchesHolder`.
- `LockSessionProofs!KeyUndisturbed`: a call inside the exclusion finds its own key in
  the cloud, or that of a prefetch, of a look-up, or of a call that was cancelled or gave
  up on its request. A call asks for a key and waits for it inside the flag, unless it
  left it that way (`Requests`, an invariant of its own); so whoever replaces the key of a
  call in its exchange is either inside with it, which exclusion forbids, or one of those.
- `LockSessionProofs!Refinement`: `Spec => DeviceLockSpec`; each step is one of
  the promise's, or changes nothing the promise shows.
- `ControlChannelProofs!OwnAnswers` (assumes `DistinctOps`: the reads' opcodes differ
  from each other's, the command's, the keepalive's and the events'). The invariant
  carries that a read in progress has `Len(out) = k - 1`, so the answer recorded next
  is read k's.
- `ControlChannelProofs!NoneLost` (assumes `Keepalive \notin EventOps`: in the catalogue
  0x2f is the keepalive alone, and the listen loop drops the frames that have it). Each
  action moves one frame from a place to another; counted over the queues, the gets that
  are over, the reply, the answers and the consumer's frames, an event pushed or a report
  sent makes one, and one not yet sent makes none; a report taken together with a frame
  that fails the session is counted where it is dropped (`FailureDrops`). The second half is what makes it
  inductive: a new frame must be new. `ChannelTypes` also bounds the answers by the reads.
- `AuthFramingProofs!WholeKey` (assumes `~LateAcks`: the lock sends nothing after its
  key until it is asked). The invariant: once a fragment of the key has come, only
  fragments of the key follow; then what ends in the last fragment, has its numbers in
  order and is long enough is the key.
- `AuthFramingProofs!SilenceOnly`: read the fragments in use, in the queue and on the
  link as one stream. Without a fault, while the key is awaited, the stream is so many
  empty acknowledgements and then what is left of the key, and a collected message is its
  beginning up to the first last fragment; as long as a read is left for each message in
  it, none is rejected. `FramingTypes` gives the bounds.
- `VoicePackOtaProofs`: `TypeCorrect` (every block sent is of the pack, retransmitted ones
  included), `StallsAreHonest`. They need that `base_ack` is an
  earlier value of the count, that the window counts from there, that the lock has
  accepted only what was sent or skipped, and that a stall is recorded of the block about to be sent.
- `VoicePackOtaProofs!FlowControlled`: a budget. The acknowledgements counted since
  `base_ack`, those under way and the init frame, if it is still to be answered, are
  together at most the blocks accepted and one; with the window, the sender is at most a
  window and one ahead of the lock. Damage and repetition only spend the budget. It
  needs that manifests come before all else, since an idle lock would answer a later one.
- `VoicePackOtaProofs!CleanSucceeds`, of the `calm` environment from the first block: the
  blocks in the air are those sent and not accepted, in order (`InOrder`), so the lock
  refuses none; every block accepted is acknowledged, counted or under way (`AllCounted`),
  so a full window with nothing under way is impossible, and no stall is declared.
- `ConnectionProofs`: `TypeCorrect`, `NothingIsForgotten`, `AllIsReleased`. One part of
  the invariant holds mishaps or not (fields are filled and emptied in order, a recorded
  port is open); the other, that nothing else is open, until a first mishap.
- `ProxyTransportProofs`: `NothingIsForgotten`, `OneManagerIsMade`. What is open is
  recorded because every step of the release closes before it empties (the lemmas
  `ReleaseGoesOn` and `ReleaseKeeps`), for which one must know that at the last await
  only the API's field is still filled. One manager is made because, until two set-ups
  overlap, a transport sets one up only alone and only while there is none; that a
  recorded API scans into *that* manager outlives the attempt that recorded it, so the
  invariant says it of transports that are idle too.

- `CloudAccountProofs`, for any account and number of threads: `CacheStaysNewest`,
  `SignersStayWhole`, `SignaturesHold`, `ResolveFindsTheLock`, `CodesKeepTheirWindow`.
  Until a lapse at most one thread is between its check and its last store, and the
  token it holds is the newest (`OneLogin`); the cache is the newest token or that thread
  is about to store it. A token without a user id is in the cache only while a thread is
  at its second store (`UserFollows`). The signature is a lemma about any request
  (`SignatureHolds`, by the branches of `Prepared` and of the cloud's check). For
  `resolve_device_id`: a listed device with the MAC asked for is still to be looked up or
  was missed (`LookingUp`). For the codes: the answer is under way for at most `Delay`
  (`AnswerFresh`), and a window is a multiple of its width.

- `LibraryProofs`, of any inputs: numbers, charges, levels and noise from any sets, any
  number of advertisements, windows of any length, lists of any rows, packs of any length
  in blocks and writes of any size, and sequence numbers modulo anything up to the code's
  256. A behaviour takes one step, so the invariant only says that the question is one of
  the inputs (`Asked`) and the answer the operators' (`Decided`); the work is in the
  lemmas about the operators. None of it is induction over data with an operator for a
  predicate: a lemma that needs induction is stated of a set of numbers
  (`AllNumbers`, from the order of the natural numbers).
  - `RequestsNeverMeet`: each request is read back from its frame (`IsReadBack`), so
    two that had one frame would be one.
  - `EveryConclusionIsTrue`: for each kind of frame the lock sends, what every decoder
    makes of it (`StatusIsTold` to `OtherPushIs`), and for a window that the last
    position in it is what is left.
  - `TheRightLock` and `NoLockIsLost`: after any number of advertisements, what is kept
    is the last of each address heard before the scan stopped (`FoundIs`, by
    induction); among finitely many there is a best (`BestExists`), and the selection
    is it, or two are.
  - `ThePackArrives`: data followed by its own checksum has the checksum zero
    (`CheckIsZero`: the bits of an exclusive or, and a checksum that begins with its
    own bytes is cancelled by them), pieces put together are the whole (`WholeIs`,
    `StartOfWhole`, by division), the marker and its complement agree modulo `SeqSize`
    (`Complement`), and a plan, from the list to the last write, keeps all of it.

Only model-checked: liveness (`Termination`, `FlagReleased`, `SessionEnds`,
`ExchangeEnds`, `Returns`, `BoundedPhasesEnd`), which TLAPS cannot prove under fairness.
Every other property that a passing run checks is stated by a theorem.

## 5. Divergences between the code and its documents

With a run that shows it (quoted in `PROJECT.json`):

1. `battery()` and the reads like it take an event for their answer (`channel_battery`).
2. A NAK counted after the last block is sent is never answered (`ota_nak`). With a lock
   that accepts blocks only in order, one NAK leaves a deficit that later windows carry
   to the tail.
3. A transfer resumed at or beyond the window's width stalls before its first block
   (`ota_resume_stall`).

Stated by a property that holds with the exception named in it:

4. A cancelled call can leave its handlers subscribed (`LeakOnlyByCancel`), against
   `specs/007-session-flow-coverage/data-model.md` 56 and
   `specs/012-cloud-io-async/tasks.md` 15 ("guaranteed cleanup on
   success/exception/timeout/cancellation").
5. The account manager is not thread-safe as `auth.py` 42 says: overlapping logins
   revoke each other's token and may leave the older one in the cache
   (`CacheIsNewest`), and a thread may sign with a token and no user id
   (`SignersAreWhole`).
6. The process-wide Bluetooth manager "must be set exactly once"
   (`esphome_transport.py` 50); two first connects set two. The later one becomes the
   process's while the scanner of the other transport stays with the earlier one, so that
   an API which outlives its attempt is then polled for in the wrong manager
   (`ListensWhereItScans`).
7. When `device_info` fails the proxy's API stays open with no field that says so, and
   a release that raises empties the field all the same (`ProxyForgetsNothing`).
8. The opcodes of the catalogue's reads "volume" (0x02) and "language" (0x03) are
   those of commands that set them, though "a caller can never actuate or change a
   setting through this map" (`operations_catalog.py` 514-516); only the length of the
   frame tells them apart (`RequestsStayApart`).
9. A later advertisement that shows less replaces the one that named the lock, although
   the scan listens on "so a stronger advertisement (name, MAC) can still be
   collected" (`transport.py` 169-170; `MissedForAReason`).
10. The window shown with an offline password may be the one after that in which the
    cloud gave it out (`kdf.py` 812-819; `CodesWindow`).
11. `resolve_device_id` passes over any failure of a look-up, an expired token too, and
    then tells a caller who gave a MAC that "a MAC is needed" (`auth.py` 192-200;
    `ResolveIsRight`).
12. A look-up of a MAC asks for a new cloud key (`kdf.py` 629-635), and so does
    `change_language` before it takes the flag (`client.py` 378): a session of the same lock
    that is in its exchange loses its key. It loses it too to the request of an earlier call
    that timed out or was cancelled and that the cloud serves late
    (`KeyDisturbedOnlyByOutsiders`).
13. A request to the stack that never answers, a hook or a callback that never returns,
    holds the device for ever, against the "guaranteed cleanup" of item 4: `start_notify`
    (`session.py` 514), `stop_notify` (946), the steps before the exchange and `post_auth`
    (797) have no deadline, and `bumble_transport.py` 104-110, 126-131 tell of such a request
    that hung for good. When it is `stop_notify` a cancelled call needs a second
    cancellation (`Termination` and `FlagReleased` with their premises).
14. A message of the lock has a deadline per fragment (`session.py` 479) and none of its
    own: a lock that goes on notifying empty fragments, or fragments that are not the last,
    keeps the read of its key going for ever (`ExchangeEnds`, with its premise).
15. A report that is taken together with a control frame that does not decrypt is lost: the
    frame's exception comes before the report is looked at (`session.py` 921-934;
    `NothingVanishes`).
16. The pack's last block is padded to a full one (`ota_language.py` 99-107), though the
    module's own header says "last block short" (26), its constant "the last is short"
    (44) and `docs/devices/u200/ota-0x90-investigation.md` 367 "Last block is short".
    `PackArrives` asserts the padding, whose reason is given at 100-106.

Met while modelling, without a property of their own:

17. The flag is released before the wrapper logs in again (`session.py` 383, 949), so
    the re-run promised at 330-332 can be refused.
18. `change_language`'s own cloud calls (`client.py` 368-379) do not handle code 108,
    against FR-003 of `specs/014-auto-login-flow/spec.md`; `ExpiryIsRetried` leaves these
    calls out.
19. A follow-up read of the battery takes the battery event that the lock pushes under
    the same opcode (`session.py` 874, `lock_state.py` 204), against `client.py` 637-639.
    This is why `OwnAnswers` assumes `DistinctOps`.
20. `operate` may report as observed a position pushed before its command
    (`client.py` 235-253): the queue is filled from the subscription on.
21. A fragment of another message in the place of the key's lost last one is taken for
    it when it is as long (`framing.py` 123, 136), against
    `specs/004-ble-auth-handshake/spec.md` 116-117. It takes a lock that sends an
    acknowledgement after its key, hence `~LateAcks`.
22. A report that comes late in the handshake is counted as a block's acknowledgement
    (`ota.py` 248-256), which is why `FlowControl` allows one block more.
23. A connect that scans can wait for ever on the port, the radio or the start of the
    scan, which nothing bounds, against `specs/015-lock-client-facade/spec.md` 219-221
    and its `contracts/client-api.md` 49. `BoundedPhasesEnd` is about the phases that
    have a deadline.
24. The deadline of `close` (`client.py` 713) equals that of each of the three steps it
    waits for (`transport.py` 444-452): when the first hangs, the radio is not powered off
    and the port stays open, against FR-010 ("desconectar y liberar el transporte").
25. A scan that fails while the radio is powered on records the port without the radio
    (`transport.py` 327-336), and the next attempt opens a second port over it; no close
    will close the first. A cancelled connect releases nothing.
26. A connect without an address over a proxy fails always: `scan` takes its timeout by
    name only (`esphome_transport.py` 105) and is given it by position, with a `mac` it
    does not have (`scanner.py` 51).
27. `operate` and the command line accept "name or hex value" by their words
    (`client.py` 231, `cli.py` 295); `normalize_lock_operation` knows no hex value
    (`lock_ops.py` 103-127).
28. The command line's queries include report opcodes (`cli.py` 67, 71), which the
    catalogue leaves out of the reads.
29. The text "0" is a good code everywhere in `kdf.py` (501) and an error in the voice
    list (`voice_ota.py` 74).
30. Python 3.10, which `pyproject.toml` allows, has an `asyncio.TimeoutError` of its own:
    the `except TimeoutError` around the reply and the follow-up reads (`session.py` 820,
    867) does not catch it, so a lock that does not reply fails the session. `transport.py`
    255 catches the right one. `ControlChannel` has both (`Uncaught`).
31. A fragment of one byte raises an IndexError (`session.py` 483) and no error of the
    library's (`BreakOff`).
32. A neighbour's device with a good sign stops the scan two seconds after it was heard
    (`transport.py` 176-181), so it is picked when the lock, which shows more, advertises only
    then, although the scan goes on "so a stronger advertisement (name, MAC) can still be
    collected" (169-170). `RightLock` is about what was heard before the stop.

## 6. What is not modelled, and why

- Ciphers, hashes, key derivation and the constants of `app_constants.py`: pure
  arithmetic, tested with vectors. The models take a key as agreed or not, a frame as
  decryptable or not, a hash as its preimage.
- `prepare_runtime_cloud_auth_headers` (headers captured elsewhere, used by no call of
  the facade), the TLS context, and the rows of the passwords' log, which are passed on.
- `BleakTransport`'s connection (one field and one await to release) and the GATT
  adapters of `gatt.py` and `bumble_transport.py`, which pass a call on to the stack.
- The command line, the examples and the probes: straight-line code around the facade.
- `volume.py` and `protocol.py`: nothing calls them.
- What the lock does with end frames after a stall, how it answers a bad proof, and so
  what its 0x07 says of the session: the repository does not say. The models let it send
  0x07 whatever key it derived, and nothing is claimed of it.

## 7. Plan

Done, in this order, the most important first: `LockSession` with `DeviceLock`,
`VoicePackOta`, `ControlChannel`, `AuthFraming`, `Connection` and their first theorems;
then the pure algorithms with `Library`, `CloudRequest` and `CloudAccount`,
`ProxyTransport` with its theorems, and the interruptions of `VoicePackOta`; then the
theorems on `CloudAccount`, on what the channel and the framing lose and reject, on the
transfer's flow control and success, and on the cloud's key; at last those on the pure
algorithms.

To come: the composition of `LockSession` with `Connection`, for a link that drops or is
closed under a session.
