# Formal model of ROBIN mesh, version 2

ROBIN is a firmware for wireless mesh nodes: a set of shell scripts over OpenWrt's
`uci` configuration that a boot sequence, cron and each other start. This directory
holds TLA+ models of the scripts whose interplay decides whether a node keeps the
configuration its operator gave it, stays on the channel of its mesh and keeps its way
to the internet; TLC checks them on small instances, TLAPS proves theorems about them
for every instance.

The repository carries one library in source, MatrixSSL, with which the node's `wget` speaks
TLS to its dashboard; it is modelled as well: its session table, records and handshake, the judgement of
certificates, and below them its readers, numbers, ciphers and digests.

Paths of scripts below are relative to `src/packages/robin-v2/files/`, those of C files to
`src/packages/libmatrixssl-nothread/src/src/`. The other packages (olsrd, nodogsplash, ebtables, ...)
consist of build files and patches for programs that are not in the repository, and are not modelled.

## 1. Inventory

| Part | Code | State | Operations |
|---|---|---|---|
| check-in | `sbin/dashboard_checkin.sh`, `preupdate`, `update`, `lib/robin/checkin-functions.sh`, plugin `10_node_status` | `/etc/update/*` (reply, old reply, one file per section), `uci flags` | kill the previous check-in, watchdogs, status string, wget (with a fallback address), split the reply, run the settings scripts, custom update, reboot or restart of the captive portal |
| settings scripts | `usr/sbin/update-X.sh`, order in `etc/update/uci-files` | the uci packages | compare the section file with uci, commit, set `flags.restart.*` or act |
| radio channel | `update-radio.sh`, `lib/robin/tts-check.sh`, `sbin/auto-rescue`, `sbin/channel`, `preup/50_set_channel.sh` | `uci radio` (current, alternate, tts), the reply files, the driver's channel | schedule a switch 25 minutes ahead, do it, adopt a missed one, repair drift, look for another channel |
| role and uplink | `preup/55_detect_role.sh`, `inet-test.sh`, `iwag-test.sh`, `sbin/iwag-d`, `watchout4node`, `watchout/30_udhcpc`, `70_...`, `80_...` | role, DHCP client, default route, files of failure marks | take a role at boot, test the uplink at each check-in, count failures, reboot, wait for a lease |
| cron | `init.d/timing`, `lib/robin/jobs/*`, `sched-reboot.sh`, `update-management.sh`, `preup/10_hw_watchdog.sh`, `endboot/30_cron_sync` | `crond`, the crontab, `uci management` | make the crontab and start `crond`; stop it (or leave it the heartbeat of the hardware watchdog only); put a scheduled reboot in |
| boot | `etc/init.d/preup`, `postup`, `olsrd`, `lib/robin/preup/*` | uci and RAM | plugins in order; `olsrd` blocks until there is a default route; cron starts after it |
| reboot | `sbin/do_reboot`, `sbin/REBOOT` | `/etc/reboot_reasons`, `/tmp/rebooting` | at once, or (reasons 32 and 35) deferred past the minute of the upgrade |
| watchdogs of daemons | `watchout/10_wifi`, `20_memory`, `40_olsrd`, `50_captive_portal`, `60_dnsmasq` | processes | restart a daemon a few times, then reboot |
| captive portal | `init.d/captive-portal-preup`, `nodogsplash`, `chilli`, `coovachilli`, `nocp` | links in `/var/run/rc.c`, generated configuration | start and stop one of four handlers |
| firewall, mesh access lists | `init.d/iprules`, `lib/robin/firewall/*`, `strict-mesh.sh`, `limited-mesh.sh`, `blacklist.sh` | iptables, `network_nodes` | replay of all rules |
| dhcpd, nameserver | `init.d/dhcpd`, `nameserver`, `dnsmasq-callbacks.sh` | generated files | start and stop |
| statistics, web forms, profiles | `lib/robin/checkin/15_*..50_*`, `www/cgi-bin`, `etc/defprofile` | | formatting, manual settings, installation |

| TLS: session table | `matrixSsl.c` | `sessionTable` (32 entries: id, secret, cipher, times, in use), shared by all connections of a process | register a session, resume, update, release, delete |
| TLS: records and handshake | `sslDecode.c`, `sslEncode.c`, `sslv3.c`, `cipherSuite.c` | `ssl_t` per connection: expected message, flags, keys of both directions, counts | decode a record and answer it, hello, request a rehandshake, send data, close |
| TLS: certificates | `pki/x509.c` and the end of the Certificate message in `sslDecode.c` | the chain, the authorities, `valid` of each certificate | link the chain, find the authority, ask the application |
| TLS: readers | `pki/asn1.c`, `rsaPki.c`, `x509.c`, `base64.c` | none | DER elements, names, extensions, keys, PEM files |
| TLS: numbers, RSA | `crypto/peersec/mpi.c`, `rsa.c` | none | arithmetic of many digits, modular powers and inverses, padding |
| TLS: ciphers, digests | `des3.c`, `arc4.c`, `md5.c`, `sha1.c` | a context from call to call | process a piece of a stream |
| TLS: memory, system | `os/*`, `psMalloc.h` | | allocation, entropy, clock |

How they interact. Cron starts `dashboard_checkin.sh` every 5 to 30 minutes and
`tts-check.sh` every 2; on repeaters also `iwag-test.sh`. Nothing locks: the scripts share uci
packages and files, read them at one moment and write them at another. A check-in that
is still running when the next starts is killed with `kill -9` at whatever line it is.
`do_reboot` normally does not return, but the node goes on until `/sbin/REBOOT` is
through. A boot loses RAM, processes and everything not committed.

`wget` (patch `packages/wget-matrix/patches/001-adds-matrixssl-linkage.patch`) is a client of the library:
it makes a session without an old one to resume, encodes a hello, and calls `matrixSslDecode` in a loop
until `matrixSslHandshakeIsComplete`. Its buffer for answers has 1024 bytes and is doubled when the library
returns `SSL_FULL`; the same call is then repeated. Without authorities of its own it installs a validator
that accepts everything. The library's server side has no user among the scripts but is compiled in, so both
sides are modelled. Calls into the library do not overlap (the package is the `nothread` build); the calls
of several connections come in any order.

What is hard, and is what the properties are about:

* the kill of a check-in between two steps that belong together;
* a request or a reply that is lost, and the two ends that no longer agree on what the
  node was given;
* section files that stay after their reply and are processed again and again;
* values that a script read before another script changed them (`tts-check.sh`,
  `update-radio.sh` and `auto-rescue` share one uci package);
* reboots at any time, and boot scripts that undo what was committed before;
* a crontab that three scripts rewrite or edit, and a cron that is stopped and started
  by the very jobs it runs;
* counters of failures, loops and several tests of one uplink that have to lead back to
  a working role;
* a table of sessions whose entries connections find through an id that may be stale;
* two ends of a connection that start handshakes, close and send data at crossing moments,
  with answers that fit only at the second attempt and records that the wire loses;
* a loop over certificates that overwrites what it looks at;
* guesses, carries, windows and lengths at their limits.

The complete list, each at its line, is under `hazards` in `PROJECT.json`.

## 2. Modules

| Module | Models | Variables |
|---|---|---|
| `Provisioning` | the check-in as a process, the flags, a boot | dashboard (`dash`, `believed`), `reply`, per section `file`, `conf`, `live`; `flags`, `portalUp`, `update`, `rebooting` |
| `ChannelSwitch` | the radio channel of one node and every script that touches it | `dash`, `radio`, `real`, `received`, `old`, `section`, `update`, `check`, `rescue`, `cron`, `rebooting` |
| `Uplink` | role, watchdogs of the uplink, `iwag-d` | `lease`, `inet`, `mesh`, `role`, `phase`, `udhcpc`, `stray`, `check`, `failures`, `loop`, `reasons` |
| `Timing` | the cron daemon, its crontab, and the scripts that stop, start or edit it | `hw`, `crond`, `tab`, `conf`, `file`, `flag`, `phase`, `sleeping`, `update`, `rescue`, `rebooting` |
| `SessionCache` | the session table and the connections that share it | `table`, `conn`, `made`, `now`, `orderly` |
| `Handshake` | a client, a server and the wire between them | `end`, `wire`, `sessions`, `requests`, `faults`, `excuses` |
| `SecureChannel` | abstract: what a connection promises its applications | `sent`, `got` |
| `Certificates` | the walk over chain and authorities | `chain`, `store`, `callback`, `phase`, `pos`, `ic`, `valid`, `whole`, `sigOut`, `unread`, `anon` |
| `Bignum`, `Rsa` | numbers of digits; RSA on them | functions |
| `Asn1`, `X509`, `KeyFiles` | readers of DER, of certificates and keys, of files | functions |
| `Ciphers` | digests and ciphers as streams | functions |
| `Library` | one call into the six modules above, and the reference its result is compared with | `operation`, `input`, `done`, `result` |
| `ProvisioningProofs`, `ChannelSwitchProofs`, `UplinkProofs`, `TimingProofs`, `SessionCacheProofs`, `CertificatesProofs` | theorems | |
| `HandshakeKeys` | the inductive invariant of `Handshake`, and that every record read or written preserves it | |
| `HandshakeProofs` | every action of `Handshake`: the invariant, and a step of `SecureChannel` or none; its theorems | |
| `MC...` | instances for TLC; sequences a `.cfg` cannot write | |

`PROJECT.json` maps each definition to its lines. Actions bear the name of what the
script does there; the programme counter of a shell is a `pc` field (`update.pc`,
`check[c].pc`) or the value of `check` and `phase` in `Uplink`.

### Provisioning

For every section `X` of `uci-files` the model keeps four values: what the dashboard
holds, what the last reply that named it left in `/etc/update/X` (`file`), what the node has
committed (`conf`), and what the running node works with (`live`). The dashboard
is not in this repository: it is assumed to answer in full when the status string says
`RR=1`, and otherwise with at least the sections that changed since its last answer
(`believed`), perhaps with more.

A settings script is two steps: `Commit` (compare; commit what differs) and `Effect` (set the
flag, or make the change). Sections are described by the constants: `Reboots` set
`flags.restart.system`, `Portal` set `flags.restart.cps`, `Level` are compared with
the portal's running configuration rather than with a committed copy (`update-nodog.sh` is such a script),
`AtBoot` are those `60_settings.sh` processes again at boot. `update-wifi.sh` (a
reboot), `update-nodes.sh` (an effect of its own), `update-nodog.sh` and
`update-chilli.sh` (portal; the first compared with the running portal) stand for the four shapes.
`SplitReply` removes a section file and `WriteSection` writes it, as `rm -f` and `echo >>` do.

`Kill` may strike at every line; `torn` is a history variable that remembers the sections whose
script was killed between its `uci commit` and what follows. That is the one window in which
the code can lose a restart, and `ChangeIsPending` says that there is no other.

### ChannelSwitch

`tts` is kept as the ticks left until the switch (`Off` for "0"); a reply says a channel,
nothing about the channel (`NoRecord`) or nothing at all (`Empty`). Several invocations of
`tts-check.sh` may run: those of cron, and the one `init.d/olsrd` starts before
`auto-rescue`. `CheckStart` reads both channels; the later steps work with what was
read then. `rebooting` is the set of reasons of the `do_reboot` calls in progress: until
`Reboot` takes place every other script goes on. A group `uci set ... uci commit` is one step,
since nothing of it survives a reboot before the commit and the scripts that write
`radio` are seconds long; the steps between groups are interleaved freely.

`RescueChoose` allows every channel other than the present one: which networks are on the
air is not known to the model. A driver that reports no channel at all is not modelled.

### Uplink

The role is written at boot only (`DetectInet`, `DetectLease`), so each change of role is a reboot.
`lease`, `inet` and `mesh` are what the world offers; a test succeeds when the
world offers it at that moment. `check` is `"stuck"` when the check-in waits in a script that does
not return (`do_reboot`, `iwag-d`); the next check-in kills it, but not an
`iwag-d`, whose name `preupdate` does not look for, so several instances may run.
Beyond `Loops` instances no further one is counted. `stray` is a default route
that `udhcpc` leaves behind when it is killed with `kill -9`.
The watchdogs of the other daemons reboot the node at arbitrary moments: `PowerCycle`.

### Timing

`tab` is the crontab as three entries: the core jobs with the rate and the hours they were made from, the
heartbeat of the hardware watchdog (boards with `hw`), the scheduled reboot. `update` is the
check-in, with `update-management.sh` line by line: `"rate"` and `"window"` stand before `timing stop`,
`"rateStopped"` and `"windowStopped"` between it and `timing start`, `"force"` before `sched-reboot.sh`;
`todo` are the options of the section not looked at yet, `k` is `k_restart`. `file.restart` stands for the six
options whose change needs a reboot: true when one of them differs from what is committed. `sleeping` is the
next check-in, which sleeps up to five minutes and then kills this one.

`timing start` and `timing stop` are one step each: they are processes of their own, in whose name
`preupdate` does not find `update`, so that they end whether or not the script that called them is killed.
`torn` remembers what a kill left half done, until the next `timing start`, `sched-reboot.sh` or boot
repairs it: `"stopped"` (cron was stopped and not started), `"untold"` (settings committed and cron not told),
`"force"` (a schedule committed and not made).

### SessionCache

One action is one call into the library for one connection. A session id is the slot its first four bytes
name and the number of the full handshake it was made in; that number also stands for the right secret.
`matrixUpdateSession` and `matrixClearSession` look at the slot only, so a connection with an id that is not
its own writes into an entry that is not its own. The five places where this can happen are collected under
"Disorder": a full table at registration; a rehandshake's hello that is refused before its session id is
read, after the old session was released (`HelloRefused`); a hello refused for the length of its id, which
is already stored then (`IdRefused`); a closure between ServerHello and ClientKeyExchange; the accessors of
the resumption flag on a connection without a session. They set `orderly` to false, and the properties,
which start from `orderly`, say that there is no sixth. A hello that fails after the session was looked up
(`FreshFailed`, `ResumingFailed`) is none of them. The server compares as many bytes of an id as
the client sends, so an offered id is whole or `short`; a short one that matches resumes the entry of its
slot, whatever secret its client has, and then ends at Finished unless that is the entry's (`agreed`). `FreeSlot` is the loop of `matrixRegisterSession` as it is: it starts from the time of
entry 0 whether or not that entry is in use, and may so find none.

### Handshake

One action is one call of an application. `Decode` is `matrixSslDecode` on the next record of the wire, with
the answer it writes; `Retry` is the same call with a larger buffer after `SSL_FULL`. `Attempt` writes the
messages of an answer one after the other, each with the size the code computes, so that the point at which
an answer runs out of room is the code's. The cryptography is symbolic: `keys` is the key block (secret, the
two randoms, cipher), a record carries the keys and the count of its MAC, and is readable with these only.
The hash of the handshake is the sequence of messages hashed. The wire may lose, repeat and swap records.
`excuses` remembers four situations in which the library refuses a peer that did nothing wrong: `crossed`
(a HelloRequest met a client in the middle of a handshake), `stale` (the flag of a resumed session survives
into a rehandshake whose session is not found), `ignored` (more empty records than are tolerated), `cut` (a
server's answer was cut by a full buffer after its ServerHello, and the next call sends that again).

`InOrderOnce` is a refinement: `Channel == INSTANCE SecureChannel WITH ...` maps the data records each end
has encoded and decoded to `sent` and `got`, and every step of `Handshake`, faults included, is a `Send`, a
`Deliver` or a stutter.

### Certificates

One action is one turn of a loop: `Link` for each pair of the chain, `Authority` for each authority, then
`Judge`. `whole` says whether a signature still is what was received: the decryption works in place
(`x509.c:1533`). `sigOut` is the place of the decrypted digest on the stack; whether the decryption
succeeded is not looked at (`x509.c:1538`), so after a failure `sigOut` keeps what an earlier turn put
there. `unread` remembers that a comparison came out equal that way.

### Bignum, Rsa, Asn1, X509, KeyFiles, Ciphers, Library

Algorithms without state, as functions. `Bignum` keeps the digits and follows the loops: carries, the
normalisation and correction of `mp_div`, Montgomery's reduction, the sliding window, the two binary
inverses; `DIGIT_BIT` and `BYTE` are constants (28 and 8 in the code). The readers work on bytes, with an
index and a limit where the code has a pointer and a length. `Ciphers` keeps buffers, padding, key schedules
and chaining; what is only noise (the compression of a block, the S-boxes) is a term or a constant.
`Library` chooses one input and one of six operations, and the properties compare the result with
arithmetic, with a reference writer of DER and files, or with the uncut stream.

## 3. Runs

| Run | Question | Bounds |
|---|---|---|
| `provisioning_kill` | is a committed change, or a stopped portal, ever forgotten? | 4 sections, one of each shape, 2 values, 2 faults of any kind, 2 edits; a hanging custom server at any time |
| `provisioning_tolerates` | with the faults the code provides for, does an empty reply mean "in sync", and does the node converge? | 3 sections, 1 fault, 2 edits |
| `provisioning_forgotten` | the same with an unreachable dashboard after a power cut: **violated** | 3 faults |
| `channel_settles` | can a script leave the radio on another channel than the configured one; is every scheduled switch done or called off; does the node end on its dashboard's channel? | 2 channels, 2 checkers, a delay of 1 tick, 2 outside events; replies that name the channel, say nothing of it, or are empty |
| `uplink_roles` | does the role follow the uplink; does a stranded repeater keep trying; does giving up always end in a reboot? | 2 instances of `iwag-d`, 1 failure allowed, 1 attempt, 4 outside events |
| `timing_cron` | can cron, its heartbeat, its settings or an old schedule get out of hand, but for what a kill cuts in two? | 2 rates, 2 windows, 3 schedules (none, one, an unreadable one), 2 kills, 1 outside event; rates and windows symmetric |
| `timing_repeats` | is there always another check-in, when none is killed? | 1 window, 1 outside event |
| `ssl_cache` | does an entry stay with its connection, is none lost, does what can be resumed have its own secret? | 2 connections, 2 entries, 4 full handshakes, a clock with 2 values, age 0; whole and short ids; connections symmetric; not past a disorder (`CONSTRAINT InOrder`) |
| `ssl_handshake` | do two ends that are done agree; do records arrive in order and once; does every handshake end? | a block and a stream cipher, buffers of 60, 140 and 500 bytes, 4 events (hellos, requests, records, faults), 1 ignored record |
| `ssl_flight` | is an answer written whole or not at all? **violated** | a cipher with padding, no fault |
| `ssl_certificates` | is what is shown as verified signed; does only what is verified go on; is every message decided? | chains of 1 to 3 of 10 certificates, 0 to 2 of 4 authorities, 4 answers of the callback, keys of two sizes |
| `ssl_library` | do numbers, RSA, readers, digests and ciphers compute what they should? | digits of 3 bits, bytes of 2 (numbers) or 8 bits (readers), 17,000 inputs; alternative names up to 127 bytes |

Deadlock is checked except in `timing_cron`, `ssl_handshake`, `ssl_flight`, `ssl_certificates` and
`ssl_library`: a node whose cron was stopped by a kill does nothing any more; two ends that have closed or
used up their events rest; a message is judged once; a call returns.

Why these bounds suffice. The scripts compare values for equality only, so two values of
a setting and two channels show every outcome of a comparison (with a third channel nothing
new is compared: no script holds more than two at a time). A kill
matters through the line it strikes; two of them cover a killed repair of a killed
check-in. The delay of a switch matters as "not yet" and "due". The limits of
`Uplink` (360 attempts, `max_w4n_fails`) count to a threshold: 1 is the first value with
a step on each side. Counters that would grow without limit, outside events and marks, are bounded by
`MaxFaults`, `MaxEdits`, `MaxEvents`, `MaxMarks`.

For the library: two connections and two entries show every relation of a connection to an entry (its own,
another's, free, beyond the table) and a full table; a third handshake replaces one of two, a fourth the
other one. `InOrder` cuts off only the steps that follow a disorder: every property of `ssl_cache` but
`TypeOK` starts from `orderly`, which never becomes true again, so that nothing is said of those; the disorders
themselves are taken, and that the types hold beyond them is proved. Four events are
enough for a full handshake, a second one (resumed or full, asked for by either side), a record or a closure
between them, and one fault. The sizes being those of the code, 60 bytes hold a ChangeCipherSpec but not the
Finished behind it; 140 bytes hold the ServerHello and the ChangeCipherSpec of a resuming server but not its
Finished, and no answer of a full handshake; 500 bytes hold every answer. (`NoSpuriousFailure` and
`HandshakeCompletes` were also checked, with 3 events, for 52, 55, 70, 130, 143, 145, 147, 150, 153, 165, 180, 200 and
215 bytes.) In a chain of three the middle certificate is both signed and signing; two authorities with one
name are the case in which the order counts. Digits of three bits reach both corrections of `mp_div` with
numbers that TLC can multiply; of the sizes of a window the two smallest are reached. The readers' inputs
have lengths of one, two and three bytes; where the code reads only one byte of a length, in alternative names,
`ReadsWhatWasWritten` says nothing beyond it.

Every property of a passing run has a mutant of a modelled definition that TLC must find to violate it.

### Fairness

* Cron starts check-ins and checks, a shell that can go on does, time passes and a
  requested reboot happens: weak fairness of the corresponding actions. Faults, kills,
  edits and the world have none. `Update`, `Check` and `Boot` are sequential
  scripts: at each moment one line is enabled.
* `ChannelSwitch` needs strong fairness of `CheckinStart`, of a reply that names the channel,
  and of keeping it. The minute of the check-in is drawn at random at each boot
  (`jobs/10_core_jobs:30`), so a reboot loop of `tts-check.sh` does not hit the same line
  of the check-in for ever; without it such a loop is possible, because a boot restores
  the old channel from `received.old` and `tts-check.sh` adopts the new one from
  `received` again. The dashboard must name its channel again and again (it does after each boot, `RR=1`).
* `Timing` has weak fairness of the boot, the running script, the reboots that were asked for, and
  of what `crond` starts while it runs. The scheduled reboot (`CronReboot`) has none: it may come at
  any moment, and need not.
* `RouteFound` is weakly fair in `ChannelSwitch`: a node out of reach of every gateway
  is the subject of `Uplink`.
* `Handshake`: the applications read what has arrived, and come back with a larger buffer after `SSL_FULL`
  (`wget` does both in a loop): weak fairness of `Decode` and `Retry` of each end, as long as nothing has
  gone wrong. Hellos, data, closures and faults have none.
* `Certificates`: the handler runs to its end and waits for nothing: weak fairness of `Next`.

### What the violated runs show

1. `provisioning_forgotten`. `10_node_status:40` clears `flags.status.RR` before the
   request is sent. If both addresses fail, nobody asks for a full reply any more; a later
   empty reply is taken for "in sync with dashboard" (`update:89`) and is not.
2. `ssl_flight`. The comment at `sslEncode.c:142` wants the answer of several messages to be transactional,
   by checking the room for all of them first. The room for ChangeCipherSpec and Finished is computed while
   the connection does not yet write encrypted (51 bytes), but the Finished is already encrypted (up to 75
   in all). With a buffer between the two, ChangeCipherSpec is written and the write cipher changed, the
   Finished does not fit, and the repeated call writes both again. The peer takes a second ChangeCipherSpec
   without harm: `ssl_handshake` has this case (60 bytes) and its properties hold. The answer of a server
   that resumes (`sslEncode.c:217`) asks for 130 bytes and may need 154; in between, the repeated call sends
   a second ServerHello, which the client refuses: the handshake is lost without a fault of the wire or of the
   client. `ssl_handshake` has this case, too (140 bytes); `NoSpuriousFailure` and
   `HandshakeCompletes` except it by name (`cut`). `wget` is a client with 1024 bytes and meets neither.

### What the models show besides

These follow from the code as modelled and have no run of their own.

* The `wget` at `checkin-functions.sh:153` has no timeout. While the custom server does not answer, each
  check-in is killed before it reads the flags, and a reboot the settings need does not happen until the
  server answers (`Custom`, `CustomKilled` in `Provisioning`).
* `tts-check.sh:53` compares with the reply on disk, whether or not `update` is about to process it: the
  node can switch 25 minutes before the others.
* A lease without internet makes `iwag-test.sh:31` reboot a repeater every ten minutes to restore a role
  that `55_detect_role.sh` does not give.
* A check-in that wakes up during the seconds between `timing stop` and `timing start`
  (`update-management.sh:131`) kills the script; nothing starts cron again until the power is cut. On a
  board with a hardware watchdog `crond` goes on feeding it. `CronIsComing` names this as the one way to
  lose cron; `CheckinsRepeat` is checked without kills.
* Each `timing start` makes the crontab anew (`10_core_jobs:40`) and `sched-reboot.sh` runs only when the
  setting changes: a scheduled reboot is lost at the first boot after it was set.
* `sslDecode.c:653` stores the length of a session id before line 659 refuses it. The connection has no session,
  but its deletion (`matrixSsl.c:249`) takes it for one whose id is all zeroes, or what it last was:
  `matrixUpdateSession` marks that slot as free and invalid, although another connection without any error may
  hold it. The comment at `matrixSsl.c:664` speaks of an error "on the session". `IdRefused` is this step; without
  its `orderly' = FALSE` TLC finds `SessionIsHeld` violated.
* An alternative name is read with a length of one byte (`x509.c:1217`, 1229, 1241), which from 128 bytes on is only
  the first byte of its length: the rest of the length becomes part of the name. A critical extension that is
  not supported is accepted: the comment at `x509.c:1128` calls that a failure, the one at 1397 says why
  it is not. `ReadsWhatWasWritten` says nothing of either (`LongName`, `UnsupportedCritical`).
* MatrixSSL besides. The second of two authorities with one name is tried with a signature that the first attempt
  has overwritten (`x509.c:1533`, against the comment at 1455); the digest of a name is over its texts
  without types or separators (`rsaPki.c:599`); validity dates, path length and key usage are read but not
  judged; the 16th certificate of a file is refused although the maximum is 16; one bad
  authority in a file is skipped, in memory it refuses all; text behind the last certificate refuses the
  file; only the last of two equal attributes is kept. RC4 connections end after 2^30 bytes. The comment at
  `rsa.c:325` asks for eight bytes of padding, the code for seven. `mp_invmodSSH` does not return for a
  multiple of the modulus, and `mp_add_d` and `mp_sub_d` may give a negative zero; neither has a caller that
  gets there. Padding of a whole block is not counted by `secureWriteAdditions` (`sslEncode.c:359`).

And of the scripts: `50_set_channel.sh` puts the channel of the reply kept last, or 5, in place of the one a
switch (or `auto-rescue`) has just committed (`BootRadio`); `Settles` therefore asks that the replies kept
go on naming the channel. And the quotes at `iwag-d:20` make five service names one word, so that none is
stopped: in `Uplink` check-ins run beside `iwag-d`.

## 4. Proofs

TLAPS checks, for every value of the constants that satisfies the assumption of the module:

| Theorem | Statement |
|---|---|
| `ProvisioningProofs!TypeCorrect` | `Spec => []TypeOK` |
| `ProvisioningProofs!NoChangeForgotten` | `Spec => []ChangeIsPending` |
| `ProvisioningProofs!PortalComesBack` | `Spec => []StoppedPortalIsFlagged` |
| `ProvisioningProofs!EmptyReplyIsRight` | `SparseFaults` implies `Spec => []EmptyReplyMeansInSync` |
| `ChannelSwitchProofs!TypeCorrect` | `Spec => []TypeOK` |
| `ChannelSwitchProofs!RadioIsTuned` | `Spec => []TunedAsConfigured` |
| `UplinkProofs!TypeCorrect` | `Spec => []TypeOK` |
| `UplinkProofs!AlwaysEndsInReboot` | `Spec => []GivingUpEndsInReboot` |
| `UplinkProofs!RoleIsWatched` | `Spec => []WatchdogsFitRole` |
| `TimingProofs!TypeCorrect` | `Spec => []TypeOK` |
| `TimingProofs!HardwareWatchdogFed` | `Spec => []WatchdogFed` |
| `TimingProofs!JobsComeBack` | `Spec => []CronIsComing` |
| `TimingProofs!JobsFollowSettings` | `Spec => []CrontabFollows` |
| `TimingProofs!NoOlderSchedule` | `Spec => []NoStaleSchedule` |
| `SessionCacheProofs!TypeCorrect` | `Spec => []TypeOK` |
| `SessionCacheProofs!SessionHeld` | `Spec => []SessionIsHeld` |
| `SessionCacheProofs!InUseOwned` | `Spec => []InUseHasOwner` |
| `SessionCacheProofs!SecretIsItsOwn` | `Spec => []ResumesItsOwnSecret` |
| `HandshakeProofs!TypeCorrect` | `Spec => []TypeOK` |
| `HandshakeProofs!DoneAgreed` | `Spec => []DoneMeansAgreed` |
| `HandshakeProofs!ClosedComplete` | `Spec => []ClosedAfterAll` |
| `HandshakeProofs!ImplementsChannel` | `Spec => InOrderOnce`, that is `Spec => Channel!Spec` |
| `CertificatesProofs!TypeCorrect` | `Spec => []TypeOK` |
| `CertificatesProofs!AcceptedChains` | `Spec => []AcceptedIsVerified` |
| `CertificatesProofs!VerifiedCertificates` | `Spec => []VerifiedIsSigned` |
| `CertificatesProofs!FirstNamesakes` | `Spec => []FirstNamesakeCounts` |

The assumptions: the sections of the list are distinct; no section sets both flags; those compared with the
running portal are portal sections, and those that set its flag are read again when it restarts; the tokens
for "no file" and "empty" are no values (`EmptyAssumption`: nor is the empty reply a set of settings); the
session table has at least one entry; at least one instance of `iwag-d` can run; a chain is a non-empty
sequence of certificates, and junk is none of
them; there is a cipher, MACs have at most 20 bytes and blocks at most 8 (`CipherAssumption`, the largest of
`cipherSuite.c`); lengths, bounds and buffer sizes are natural numbers.

*Types.* `TypeOK` of `Provisioning` is not inductive: `Effect` needs that the script it is in belongs to a
section of the list, `WriteSection` that the section is named by a reply that is not empty. `TypeInv` adds
this.

*No change is forgotten.* `ChangeIsPending` survives the last line of `update`, which clears the
flag of the portal, only because the portal was started again on what is committed;
`Restarted` says so for the line in between. `IInv` conjoins it with `TypeInv` and both invariants,
and is inductive: the start and stop of the portal, the two halves of a script, the kill and the boot are
the cases with content, and `QuietStep` does the rest.

*An empty reply is right.* The dashboard answers with nothing when it believes that the node is up to date.
`SyncInv` follows a section from the dashboard's answer to the running node: what differs from what the
dashboard believes is still asked for (`RR=1`), in the reply, in a section file, or committed and flagged
(`Follows`). `SparseFaults` is the hypothesis: no check-in is killed, no answer lost, and at most one
address is down at a time. It cannot be dropped. With a kill the property fails (run `provisioning_forgotten`);
with both addresses down at the first check-in after a boot, the request for a full reply is forgotten and
the next status string asks only for changes, which TLC shows with `Faults = {"down"}` and `MaxFaults = 2`.

*The radio is tuned.* A script moves `current` only together with adding a reason to
`rebooting`, which nothing but a reboot empties, and a boot tunes the radio to
what it has just configured. Stale reads do not matter to it: what is proved holds for any number of
checkers at any point of the script.

*The uplink.* `GivingUpEndsInReboot` is checked by `uplink_roles`; `WatchdogsFitRole`, which the proof needs and
which says that no watchdog acts on a node of the other role or outlives its boot, and `TypeOK` are proved
only (TLC found no violation of them on the bounds of that run either). What a node does about a lost uplink is spread over the check-in, `iwag-d` and cron, and
`iwag-d` stops none of the others. `IInv` adds that an instance of `iwag-d` ends only in
REBOOT (`EndedInReboot`) and that no watchdog runs as long as the node boots (`QuietBoot`), which is when the
role may change. A running node keeps its role and forgets no reboot (`RunningHolds`), so that the cases left
are the start of `iwag-d`, its end, and the boot.

*Cron.* The four properties of `Timing` are proved together: `IInv` adds to them that `update-management.sh`
past its first line has a section to read, and runs for a boot only in the boot's settings phase (`RunInv`);
without the first the types are not inductive, without the second a change at boot, which sets no flag,
would break `CrontabFollows`. `StartIsSafe` carries the argument: `timing start` establishes all of them
whatever went before. `NotBooted` disposes of reboots and early boot, `QuietLine` of the lines that do not
touch cron, and `WakeSafe` shows that a kill is remembered in `torn` for just the property it breaks.

*The session table.* The three properties of `SessionCache` are proved together. `Straight` relates
a table and a function of connections: every connection with a session holds its entry, alone (`Held`);
every entry in use is held (`Owned`); a connection has the secret of its session or will get it from the
handshake it is in (`Agreed`); an entry with a cipher has its own secret or belongs to a connection in that
handshake (`Stored`); and a connection that waits for a hello has no session, unless its hello failed after
the session was found (`Steady`). It is stated of any
table and connections because a rehandshake changes the table twice, releasing one entry and taking another:
each half is a lemma. `Keyed`, that a full handshake at its key exchange has a session, makes the write of
the secret harmless. Between ServerHello and ClientKeyExchange the
entry has the connection's previous secret; `Agreed` and `Stored` carry `ResumesItsOwnSecret` over it.

*The handshake.* `DoneMeansAgreed` speaks of states whose handshake is complete, and says nothing of those
in which it is being lost. `IInv` describes all of them. The *phase* of an end is the message it expects,
or the answer that did not fit and is to be finished first (`greeting`, `switching`, `finishing`, `asked`).
`ClientKeys` and `ServerKeys` say which keys an end has, reads with and writes with in each phase; `Joint`
relates the two: a hello of the client is ahead of the server by at most one, keys older than the present
random are the same on both sides, and the reader of a direction is never ahead of its writer; `ToServer`
and `ToClient` bound the keys and numbers of the records on the wire by those of the end that wrote them. Key
blocks are ordered by the randoms they were made from. The heart of it is `Counts`: a record under the
keys that its writer has now was counted by it, so that a Finished, which is always number 0 of its keys, is
read once and only by an end that has just switched; a lost, repeated or exchanged record fails its MAC
instead, because what is on the wire is only ever a subset of what was written.

One call reads a record and writes up to three, and may stop between them because the buffer is full. The
invariant is therefore stated of any two ends and any two *sets* of records (`Keys(p, c, q, s, X, Y)`), and
`HandshakeKeys` proves it for one record at a time: `ClientReads...`, `ClientWrites...`, `ServerReads...`,
`ServerWrites...`, one lemma for each message, phase and effect on the cipher state. An answer is a chain of
these (`ClientAnswers`, `ServerAnswers`), cut at any place that the buffer allows. One place it cannot
be cut at: between the client's key exchange and its Finished. `KeyExchangeFits` proves, for every cipher and
length, that the room asked for before the first write (`RoomAsked`) suffices for all three; without
it a client would send a second premaster secret. The resuming server asks for too little (see the run `ssl_flight`), and
the proof shows that this never makes the two disagree: the records sent again are refused.
*The data.* `ClosedAfterAll` and the refinement of `SecureChannel` need to know what the records on the wire
bring, although any of them may be missing, doubled or out of place. `Flow(a, b, X)` says it with one
function, a *tally* `F`: `F[<<keys, n>>]` is the number of data records sent before the record `n` under those
keys. The writer is at its own total (`F` at its key block and count is `sent`), the reader at what it has
(`got`). `Carries` says what a record does to the tally: data moves it by one and is the
record of that number, anything else leaves it, a closure names the total it was sent at. So a
record that the count of the MAC admits is the next one, with nothing missing before it. What is left
are the changes of keys, where the count starts again. A reader takes ChangeCipherSpec under its old keys and
must then be at number 0 of the new ones. `Leads` says that no data lies between the two: keys one handshake
newer start with the total at which the ChangeCipherSpec stands, as long as the reader can still read it. A
ChangeCipherSpec under the keys of the reader's own handshake is one of an answer that was begun again, and
`Carries` says that no data has gone under those keys. `Behind` bounds the server's randoms that the client
knows by those the server has switched to, so that at most one change of keys is under way in each direction. A
tally is changed in one place at a time (`Recount`): when the writer counts (`FlowWrites`), when it changes
keys, and when the reader changes to keys that nothing on the wire bears.

The refinement has the same case analysis as the invariant. Each lemma of `HandshakeProofs`, one for each
action and end, therefore proves `Onward`, which is `IInv' /\ [Channel!Next]_Totals`: a call reads at most one
record of data and writes at most one (`Conveys`), and only the application's own write counts as sent; the
rest of an answer is `Steady`.

TLC checked the invariant before it was proved, on the bounds of `ssl_handshake`: `Keys` and, with `F` kept by a history variable because TLC cannot search for it, `Tally` in both
directions (313 361 states with one cipher).

*Certificates.* A certificate below `pos` is settled. `Settled` says that the walk passes one only when it
was verified, `Position` that authorities are asked only about the last, `Signed` what a `valid` of 1 is
worth; and `Untouched`, for the first authority of a name, that the signature is whole as long as no
authority of that name was tried.

Only model-checked: all liveness properties, which the prover does not handle under fairness (`Converges`,
`ScheduledSwitchHappens`, `Settles`, `CheckinsRepeat`, `Decided`, `HandshakeCompletes`, `GatewayComesBack`,
`GatewayFallsBack`, `StrandedRetries`); `NoSpuriousFailure`; `Library` with the functions it calls (what a recursive function computes for every
input needs induction over an operator, which the installed provers cannot instantiate); and that the violated
properties fail.

## 5. Not modelled, and the plan

1. `UpdateScripts`: the settings scripts as operators on the options of a section; that
   running one twice changes nothing the second time, the order mesh before wireless, the splash page whose
   identifier is committed before its download, `update-ethers.sh`.
2. `Watchout` and `DeferredReboot`: the watchdogs of the daemons, `minDiff` with the
   octal minutes 08 and 09, the upgrade window against `do_reboot:38`, the loop of `60_dnsmasq`
   that blocks the check-in.
3. `DashboardMirror`, the abstract specification of a node that takes over settings
   section by section, and `Provisioning` shown to implement it; the refinement
   step then proved.
4. `MeshChannel`: several nodes of `ChannelSwitch` and their reachability (a node on
   another channel gets no reply).
5. `StrictMesh`: the firewall's list of nodes, `strict-mesh.sh`, `limited-mesh.sh`, the replay of `iprules`.
6. `Services`: start and stop of dnsmasq, the captive portals and the rc.c links.
7. `NoSpuriousFailure` as a theorem: as long as there is no fault and no excuse, what is on the wire, in
   order, is what the reader expects.

Of MatrixSSL are left out: hellos in the form of SSL 2.0 (`SessionCache` has what they do to the table), client authentication and the other options this
build does not have; memory and its failures; mutexes (there is one thread); entropy; the layers for other
systems (`os/win`, `os/vxworks`); `md2.c`; `wget`'s own glue beyond how it calls the library.

Left out for good: the packages without source; the statistics of the check-in (formatting); the web
forms' HTML; profiles run once at installation; `sbin/upgrade`, which does nothing in this version.
Abstracted: the bytes of replies and settings, network addresses, log and status files, the pomade
server, and the scripts a custom server may send.
