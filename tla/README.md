# chibitv in TLA+

chibitv turns Japanese broadcasts (ISDB-T as MPEG-2 TS, ISDB-S3 as MMT/TLV)
into fragmented MP4 for browsers and keeps a programme guide.  These modules
model its server: who uses a tuner when, how viewers share a stream, how the
guide reaches the database, what a viewer is sent, how a broadcast with lost
packets and scrambled payloads becomes access units, sections and frames, and
how tables and texts are read.

    tlc -config Server.cfg MCServer          # one run of the table below
    tlapm LiveProofs.tla                     # the proofs of one module

## Inventory

| Component (`src/crates/chibitv/src` unless noted) | State | Operations | What is hard | What makes it correct |
|---|---|---|---|---|
| Tuner pool and DVB tuner: `tuner.rs`, `tuner/dvb.rs` | one semaphore per slot, leases, the frontend's lock, open readers | `try_acquire`, `tune`, `open`, the drop of a `TunerInput` | a scan that is not atomic; the order in which device and lease are dropped | leases exclude each other; a device is closed before its lease ends |
| Stream sharing: `stream.rs`, `workspace.rs`, `rpc.rs` | an async mutex over service -> `Weak<Stream>`, starters on blocking threads, remuxer threads | `subscribe`, a hang-up anywhere, `start_stream`, the thread's loop | dropped futures, abandoned starters, retries until a deadline | one session per service; every client is answered; tuners come back |
| Event crawler: `event_crawler.rs` | the position in the channel list, one lease | `crawl`, `crawl_channel` | it blocks on its client's queue; ends by deadline, error, hang-up | reads only its own channel, returns its lease |
| Service information: `service_information.rs` | versions of the sections it stored, the event on air | `process`, `store_section` | two processors of one channel over the same registry | remembers a section only when its events were taken |
| Registry: `registry.rs` | lock-free maps of services and events | `put_service`, `put_event`, `keep_events`, `restore_events` | look-up and insert are two steps | holds what is remembered |
| Event store: `store/event.rs`, `store/sqlite.rs` | a queue of 256, a task, a table | `enqueue`, `replace_section`, restore | a full queue, a failed transaction, a crash | cancelled events go, the schedule is complete in the end |
| Remuxer and muxers: `remux.rs`, `mp4.rs` | per track: parser, held sample, first DTS, entry; pending fragments | `add_track`, `write_sample`, `write_track_samples`, `finalize` | tracks are announced, begin and are described at different times, samples come without a time | described, in step, nothing lost |
| Fan-out: `stream.rs:49-98`, `rpc.rs:176-198` | init segment behind a mutex, a broadcast channel | `write_fragment`, `subscribe_fmp4` | joins between two steps of the writer; lagging | begins with the init segment, no gap unless it lags |
| MMT demuxer: `mmt.rs`, `hevc.rs`, `chibitv_b60` | per asset: the defragmenter, the MPU on air, its timestamps, the count of access units, the pending time, the parser's buffer | `read_packets`, `read_mfu`, `read_message` | lost packets, late tables, reception that begins anywhere | units whole or not at all, access units with their own time |
| B61 descrambler: `chibitv_b61` | two bounded channels and a thread its clones share, a key for each clone | `push_ecm`, `descramble`, `recv_key`, the thread | who takes which answer, waiting for an answer, the thread's end | own keys only, every wait ends |
| MPEG-2 TS demuxer and muxer: `m2ts.rs` | a section buffer and a PES buffer for each PID, the ECM PIDs, the time of the last PAT and PMT | `next_packet`, `read_sections`, `flush_pes_buffers`, `add_track`, `write_pes` | lost packets, sections cut and packed anywhere, no CRC and no continuity check | what comes whole is read, in order; the muxer is read back |
| B25 descrambler: `chibitv_b25` | the odd and the even key | `push_ecm`, `descramble` | two services, keys that change on the way, a card that does not answer | each packet meets its own key or none |
| Elementary streams: `mp2.rs`, `aac.rs`, tracks of `mp4.rs` | a parser's buffer, a queue of times, a clock | `push`, `flush`, `write_sample`, `finalize` | start codes and headers cut anywhere, data that look like them, a loss in between | every frame whole, with its own time |
| Tables and descriptors: `chibitv_b10`, `chibitv_b60` | none | `read` of each | loops bounded in four ways, lengths nobody checked | what is taken for the CRC is where one is written |
| ARIB text: `chibitv_b24` | the graphic sets, GL and GR, DRCS, accents | `decode` | what a byte means depends on all before it | what was written is printed |
| GUI: `src/gui` | the connection, the media buffers, a worker | reconnect, append, transcode | messages between page and worker | planned |

They interact through calls and shared state: an RPC calls `Streams`, which
leases a tuner and spawns a thread; the thread pulls packets through a demuxer
into the muxer (whose writer is the fan-out) and into a service information
processor; processors share the registry; the registry queues sections for the
store's task.  `PROJECT.json` lists every component with its status, and the
places where this code is hard to test (`hazards`).

## Modules

- `Tuners` — permits, scans, leases, tuning and readers: the operations the
  two users of the pool share.  `Streams` and `EventCrawler` extend it and say
  when they happen; `Server` composes both (`serve.rs`).  A *session* is one
  run of the starter with the `Stream` and the thread it may make; the clients
  that own it are the strong count of its `Arc`.  `SpawnStarter .. TakeStream`
  is `Streams::subscribe` between its awaits, `StarterScan .. StarterBuild`
  the blocking starter, `CheckKill .. ThreadRelease` the remuxer thread, and
  the `Hangup...` actions drop the future or response at each await.
- `LeasePool`, `SharedViewing` — what the pool and the sharing promise.
  `Server!GrantsLikeAPool` and `Server!SharesLikeViewing` say the server
  implements them, with the refinement mappings `owners`, `views`, `sources`.
- `SectionStore` — the queue, the writing task and the table, one row per
  event.  `written` is a history variable.  `Guide` extends it with the
  broadcast, the processors and the registry of one service.  An event's
  content is, for each kind of descriptor, the section and version it was
  taken from.  `FindEvent`/`InsertEvent` are the two halves of `put_event`.
- `FragmentedMp4` — `AddTrack`, the tracks (`AudioUnit`, `Mpeg2Unit`, `H265...`)
  and `write_track_samples` (`WriteSample` with its five ends: the sample is
  dropped, refused, held back, opens the stream, or is written).  A track may be
  added at any time, as an MPT leaves out an asset of which no packet came yet
  (`mmt.rs:321`); what comes of it before is ignored.  A unit is its number, its
  decoding time or none, and whether it carries the headers.  `overtaken`, `late`
  and `known` are history.
- `Fanout` — mutex, init segment and broadcast channel, chunk by chunk.
  `Live` composes it with the muxer: the thread writes one chunk after the
  other, and goes on when the last one is sent.
- `Defragmenter` — `deflag.rs` as operators on the record [state, last, buf]:
  `Sync`, `Push`, what `push()` asserts (`Accepts`) and returns (`Completed`).
- `Descrambler` — the clones of one descrambler.  `PushEcm` is `push_ecm()` up
  to where it waits, `RecvKey` the end of the wait, `TakeKeys` and `Outcome`
  are `descramble()`; `DecryptEcm`, `SendKey` and `WorkerDies` are the thread.
- `MmtDemuxer` — one asset.  `ReadPacket` is `read_packets` on a fragment of
  the asset, with `EnterMpu`, `Sync`, and `ReadMfu` (`read_mfu`), whose closure
  over the NAL units is the recursive function `Readings`, one `ReadUnit` for
  each; `ReadMpt` is `read_message`.  `broadcast` is what is on air: its NAL units
  are numbered in their order, a packet carries the units from one number to
  another, and `OnAirAssumption` says that units, access units and MPUs follow one
  another.  `LosePacket` is the way it comes.  A time is named by the access unit
  it belongs to.  `out`, `intact` and `damaged` are history variables.
- `Receiver` composes the two: a stream of ISDB-S on its clone (`Own`), next to
  the clones of other streams.
- `SectionReader` — `read_sections` and `drain_complete_sections` as operators
  on a buffer of cells: the table_id, the section_length, the rest of a header,
  and what follows up to the CRC.  Where the length of a torn section is read
  from a cell that holds none, it is one of `Garbage`.  `B25Descrambler` — the
  two keys, by service and period.  `M2tsDemuxer` extends both: `ReadPmt`,
  `ReadSectionPacket`, `ReadPesPacket` and `Flush` are the arms of
  `read_packets`, on packets as the crate mpeg2ts gives them; `IgnoreSection` is a
  packet of a PID that is neither one of the tables nor one a PMT has named for its
  ECMs, which is raw data for the crate (`m2ts.rs:266`).  A descriptor that does not
  parse ends the PMT it is in, and several ECMs of one packet are pushed up to the
  first that fails.
- `M2tsMuxer` — `AddTrack` and `WriteSample` with the packets they write.
- `ElementaryStreams` — the parsers of pictures, ADTS and LOAS frames and the
  tracks they belong to, as operators on a track's record.
- `TsReceiver` composes the four with the memory of a service information
  processor (`SectionVersion`).  `air` is a broadcast, or what the muxer has
  written so far; `lost` and `keysLost` are history variables.
  `BroadcastAssumption` says what a broadcast is: sections are cut as the standard
  has it, and the streams of a service are scrambled with the keys of the ECM that came last on the one PID its PMTs
  name (`KeyedBy`), because the descrambler holds those of one.
- `Layouts` — a reader and a writer for byte layouts: fixed fields, lengths,
  counts, loops to the end or up to the CRC, entries behind a tag, checks.
  `Tables` — the layout of each table, message and descriptor, under the name of
  its struct.  What is written follows the layout that is read: no run asks whether
  a layout is that of the standard.  `AribText` — the decoder, as operators on its record.
  `Signaling` — a broadcaster that writes a table or a text, what happens to it,
  and the reader.
- `MCServer`, `MCGuide`, `MCLive`, `MCReceiver`, `MCTs`, `MCSignaling` — values
  for TLC.
- `ServerProofs`, `RefinementProofs`, `GuideProofs`, `LiveProofs`, `TimeProofs`
  (which goes on where `LiveProofs` ends), `ReceiverProofs`, `SampleProofs` (on
  top of it) and `TsProofs` — the proofs.

## Runs

| Run | Question | Bounds |
|---|---|---|
| `server` | Are leases exclusive, devices closed first, channels never mixed up; does the streams lock do its work through hang-ups and retries; is it a `LeasePool` and a `SharedViewing`? | 1 tuner, 2 clients, 2 services on two channels, 2 sessions (one live or abandoned, one starting), a crawl of a channel |
| `server_served` | Is every subscriber answered, does every tuner come back? | 1 tuner, 2 clients, 1 service, 1 crawl |
| `server_dead_join` | violation: a client joins a stream whose thread has ended | 1 tuner, 2 clients |
| `server_silent` | violation: a silent input keeps the tuner | 1 tuner, 1 client |
| `guide_table` | Is what is remembered held and kept, is what is written listed; do cancelled events go; is the schedule stored in the end? | 2 sections, both or one of them of the schedule, 1 event, queue of 1, 2 versions, 2 faults (failed transactions, restarts, ended streams) |
| `guide_merge` | violation: two processors overwrite each other's descriptors | 2 sections of one event |
| `live` | Does the init segment describe every track there is, do tracks begin together and lose nothing, is what is held back written; does a viewer begin with the init segment and get every chunk unless it lags? | video and audio, ISDB-T or ISDB-S, each announced at any time or never, 4 units a track, each with a time or without, tracks up to 1 unit apart; 1 viewer while the tracks have had no more than 4 units together (`MaxWatched`), channel of 2 |
| `receiver` | Do units come through whole or not at all, do access units have their own time, does every wait for a key end? | three broadcasts of 3 MPUs of 2 access units (scrambled video in fragments, clear video aggregated with metadata, scrambled audio) with 1 clone that waits or does not, and one of 2 MPUs of audio with 2 clones; channels of 1, 2 timestamps, 1 fault of the card, any packets lost |
| `receiver_count` | violation: an assertion on the count of access units | the scrambled video, 1 clone |
| `receiver_keys` | violation: an assertion on the length of a unit, after another stream's key was taken | the scrambled video, 2 clones |
| `ts` | Do sections, samples, pictures and frames of audio come through losses whole, in order, in the clear and in time; is the guide what is on air; does the muxer repeat its tables and read back? | fourteen pieces of 7 to 17 packets, any 5 of them lost or not read; 2 services, 3 periods of keys; 3 kinds of garbage, 4 ways to read a false ADTS header |
| `signaling` | Is what is taken for the CRC of a damaged or torn table where one is written; is every text printed as written? | 26 tables and 2 messages with up to 2 entries in each loop and every choice of a tag, any byte changed to one of 3, 8 bytes lost; texts of any length with 1 of 13 designations, 2 macros, 2 DRCS, 2 accents, 19 controls |

The bounds let the interesting cases happen: more users than tuners, a session
abandoned while its successor starts, a queue that is full after one section,
two versions in flight, a viewer that lags and one that joins between any two
steps of the writer.  `live` has the one CONSTRAINT, `Watched`: the product of muxer and viewer is
explored up to four units, enough for a viewer to lag and to follow again, and the
muxer alone up to four a track, as many as it takes to violate `StartTogether`.  The inductive invariants `FanInv`, `EntryInv` and `TimeInv`
of `Live`, `OneInv` of `Guide`, `ReceptionInv` and `TimesInv` of `Receiver` and
`ClearInv` of `TsReceiver` were checked with TLC before they were proved: the first
two with two viewers as well, `OneInv` with a queue of three sections and three
versions as well.  Three MPUs are as many
as there are timestamps plus one, so that one is evicted, and as many as it takes
for an MPU with sound neighbours after a damaged one.  Five lost packets are as
many as it takes to lose a picture, its neighbour and the keys between.  The pieces
of `ts` repeat a PMT after the ECM that it announces, and cut sections, start codes
and headers of audio at every kind of place; in `signaling` every byte of a table is
damaged once.

Deadlock is checked everywhere but in `live`, `ts`, `signaling` and the runs of the
receiver: the input ends, everybody may leave, and an assertion ends the thread.

### What the properties presuppose

- `RememberedIsHeld`, `RememberedIsKept`, `WrittenIsListed` and
  `CancelledDisappears` hold with one processor; of two (a stream and a crawl of
  one channel), one may overwrite what the other has put or queued: see Findings.
- `RememberedIsKept` and the two liveness properties of the guide presuppose
  that no transaction has failed (`failed`): a failed one is logged
  (`event.rs:120`) and the section is not written again until somebody tunes the
  channel anew.
- `WrittenIsListed` is checked with sections that list disjoint events at any
  one time (an event may move).  Two tables that list one event file its row
  under whichever was written last (`sqlite.rs:93`).
- `NothingLost` and `StartTogether` leave out an H.265 track one of whose
  units came without a timestamp while another was held (a lost MPT): it
  overtakes it (`mp4.rs:311`).
- Any unit may come without a time: a PES packet without DTS and PTS, a unit of
  MMT whose MPU no MPT has described (`mmt.rs:186`), of video or audio.  A sample
  without a time is never too early (`is_none_or`, `mp4.rs:684`).  One from before
  the common start slips through, and the timed ones between it and the start are
  dropped: a gap in the track, that `NothingLost` allows behind such a sample and
  nowhere else (`SlippedThrough`).
- `StartTogether` speaks of the tracks that were there when the muxer began
  (`Punctual`).  Its bound is how far apart the tracks are multiplexed plus two
  units; one unit less is violated, because a track holds a unit back and may have
  none yet at the common start.
- `AllDescribed` speaks of the tracks there are when the init segment is written
  (`known`).  One that is added later is never described, and its fragments are
  sent all the same: `read_message` skips an asset of which no packet came yet
  (`mmt.rs:321`), so that the audio of ISDB-S may come late.  `RefuseSample` is the
  error of the muxer library for a first fragment without an entry, which ends the
  thread; `AllDescribed` says that it takes an H.265 unit that overtook the one
  with the entry, on a track that began alone or late.
- The receiver's properties presuppose that a broadcast keeps its ECM, is
  scrambled or in the clear throughout, marks every packet of an MPU's first
  access unit as a random access point, and lists only MPUs on air or next in
  its MPT.  Packet and MPU numbers do not wrap.  `NothingTorn`,
  `UnitsComeThrough` and `SamplesInTime` hold with any number of streams; that
  units are decrypted with their key, and lengths match, holds for a stream
  whose descrambler is its own (`crawl`, the commands, or the only stream of
  ISDB-S of `serve`).  `receiver_keys` shows two.
- The properties of `ts` say what a loss may cost.  `SectionsComeThrough` and
  `SamplesComeThrough` need nothing but the packets of the section or sample
  itself.  `GuideIsOnAir` leaves out a packet in which a torn section is an error:
  it takes the whole ones with it (`m2ts.rs:229`).  `VideoInTime` leaves out a
  stream from the moment that a PES packet lost its picture but not its beginning,
  or the other way round: the queue of times (`mp4.rs:120`) is then shifted for
  good; and a picture without a DTS once one before it was lost.
  `AudioComesThrough` says of ADTS what the parser allows.  `AdtsHeader::parse`
  (`aac.rs:36`) takes any seven bytes with a sync word, a frequency and a length
  for a header, so that torn ones, and data that look like one, may stand for a
  frame of any length and duration, or of several blocks (`Misreadings`; one choice
  for each behaviour), which is an error of `payload()` and ends the thread
  (`mp4.rs:404`).  The parser then waits for as much data as that asks for, over
  several PES packets.  The property speaks of frames aligned with PES packets that
  meet an empty parser on a track whose first header was a true one (it sets the
  timescale for good, `mp4.rs:384`); if no torn data are taken for a header, a
  sound PES packet with a sound one before it is enough.  Where nothing was lost it
  speaks of all frames, and of LATM in every sample that came whole.  The parser
  indexes behind a sync word at the very end of the data (`aac.rs:211`): such
  behaviours end.  PTS and DTS do not wrap but in what the muxer writes, a PMT fits one packet,
  and a picture is one frame, not two fields (`mp2.rs:187` cuts between them).
- `TablesInTime` presupposes that the DTS of the samples given to the muxer do not
  go back (`TimesGrow`): so are those of MMT, and those of a transport stream up to
  the wrap of its clock: see Findings for what comes then.
- `SamplesClear` presupposes that no ECM is lost and that the card answers
  (`keysLost`), and one service that names one PID for its ECMs.  What comes
  before the first ECM on a PID that a PMT has named is not descrambled, and
  dropped.  "Before" is meant of what came: where a PMT is lost and only its
  repetition arrives, the ECMs between the two were not taken, although none of
  them was lost.
- `CrcComesLast` speaks of the tables whose loop runs up to the CRC; a damaged
  table of any kind may be an error or end the thread.  That a table is read as
  the standard has it is not checked: the layout that is written is the one that
  is read.  That IP delivery takes the length of its descriptors in bytes
  for their number (`b60/table.rs:204`) is in the layout (`Miscounted`), and only
  a length of 0 is sent.
- `TextComesThrough` speaks of texts that follow the standard and end after a
  character.  The tables of characters are not in the model, so that a cell that
  is not defined there counts as a character.
- `SamplesInTime` speaks of MPUs that came whole and described, as did, for
  video, the one before; `receiver_count` shows what becomes of the others.

### Fairness

Threads, blocking tasks and the writing task are scheduled by the operating
system and tokio: weak fairness.  The tokio mutex is FIFO, so a waiter that
finds it free again and again gets it: strong fairness of `EnterSubscribe`.
Timers fire.  `SignalingArrives` says that a tuned channel goes on carrying
signaling; `server_silent` shows what happens without it.  The broadcaster
repeats the SDT and every section: strong fairness of their reception, for a
processor that is idle again and again; `Watched` says somebody streams or
crawls the channel now and then.  Clients are under no fairness at all.

### Findings

Five disagreements between the code and a statement beside it have a run
(`findings` in `PROJECT.json`): two of the server (a client joins a dead stream;
a silent input keeps its tuner), one of the guide (two processors of a channel
overwrite each other's events), two assertions that fail in the receiver.
`receiver_count`: `au_count` goes up with the first NAL unit after a sample, so
one MPU without a pending time at its end shifts the times of the next, until
`mmt.rs:233` panics; tuning in to an MPT that lists only the next MPU is enough.
`receiver_keys`: `recv_key` takes every answer there is, whoever asked.

More were met while modelling, and no run shows them:

- `M2tsMuxer` writes its tables when the DTS is 100 ms ahead of the last PMT's
  (`m2ts.rs:601`).  The demuxer hands on the 33 bits of the times it reads
  (`m2ts.rs:452`): when they wrap the DTS is behind for 26 hours, and no PAT and no
  PMT is written, against "Emit PAT + PMT for each 100 ms" (`m2ts.rs:599`).
- The lengths in an extended event descriptor are read without asking whether a byte
  is left (`b10/descriptor.rs:141`, `144`, `195`), though what is behind them is
  checked, as a test demands (`descriptor.rs:380`): a damaged length that ends an
  item just where its list ends ends the thread.
- An MPT asserts that it is the last table of its message (`b60/table.rs:328`), of
  which `PaMessage::read` would read more (`message.rs:47`).
- `stream.rs:68` ("The tuner stays occupied as long as at least one `Arc` of the
  stream is alive") fails when the thread ends first.
- An abandoned starter (`stream.rs:156`) can take a tuner a waiting client was
  retrying for; and `Busy` (`tuner.rs:34`) may be reported although a slot behind the
  scan has just been released.
- Two processors queue a section after they put its events, in no common order
  (`registry.rs:345`): an older version written after a newer one keeps the row of a
  cancelled event until somebody tunes the channel anew, against `store/event.rs:4`.
- A PMT that moves the audio to another PID is not followed, for its video is known
  (`m2ts.rs:182`).
- An ECM that the card refuses with a `return_code` still brings keys
  (`chibitv_b25/src/cas.rs`).
- An input whose reads fail for ever keeps its thread busy (`m2ts.rs:107`).

## Proofs

All theorems hold for every value of the constants, under the modules' named
assumptions (`TunersAssumption`, `StreamsAssumption`, `CrawlerAssumption`,
`ServerAssumption`, `StoreAssumption`, `GuideAssumption`, `NoneAssumption` of
`Guide`, `FanoutAssumption`, `Mp4Assumption`,
`DescramblerAssumption`, `MmtAssumption`, `OnAirAssumption`, `OwnAssumption`,
`M2tsAssumption`, `B25Assumption`, `MuxerAssumption`, `BroadcastAssumption`).

- `LeasesKept` (`LeaseInv`): at every point of a starter, a thread and a crawl
  the lease, the reader and the tuning are what that point of the code has.
  Exclusion alone is not inductive: a step that tunes or opens must know that
  its user has a lease, which is a fact of its program counter.
  `ExclusiveLeases`, `ReadersLease` and `OwnChannelRead` follow.
- `SharingKept` (`SharingInv`, on top of `LeaseInv`'s types): only the holder
  of the streams lock has a starter, its service has no live stream, viewers
  of a service share the entry of the map.  `OneSession` follows.
- `PoolRefines` and `SharingRefines`: each step of the server maps to a step
  of the abstract specification or to a stutter.
- `GuideIsTyped` (`GuideTyped`): the queue never exceeds its capacity, what is
  queued, written and restored are events.  It holds for any number of processors;
  what a processor has looked up is typed by its step.
- `OneProcessorHolds`, `OneProcessorKeeps`, `OneProcessorLists` (`OneInv`, the
  conjunction of four): one processor at a time remembers only what the registry
  holds and the store will have, and what is written has a row for every event.
  `OneProcessor` is a condition in the theorems, for `guide_merge` breaks them with
  two; so are `Apart` and `ListedOnce`, what a broadcaster lists where.  `Progress`:
  a section in hand is newer than the one remembered, and what was looked up still
  holds when it is used.  `HeldInv`: what was put so far is held, and the section in
  hand does not touch what a remembered one has put.  `KeptInv`: versions of a
  section leave the queue in their order, none ahead of the one on air, so that a
  commit never takes a current one back.  `ListedInv`: whatever follows a section as
  it is on air spares its events, through the queue, the transaction and a restart.
- `BeginsWithInitHolds` (`FanInv`): a chunk is sent only under the mutex, so
  that a viewer's receiver and its copy of the init segment are of one moment;
  from then on the next chunk follows the last one got, or a lag.
- `AllDescribedHolds` (`EntryInv`): follows the sample entry of a track through
  the sample it came with: held, in hand, observed (and dropped), attached to
  a held back fragment, written.  A track that has a first DTS has an entry, and
  the common start is set only when every track added so far has a first DTS: so
  only a track that began alone, or came late, can begin with a sample without a
  time, and of those only an H.265 one lets a sample overtake the entry.
- `HeldBackIsWrittenHolds` (`FragmentsInv`): once the stream is open nothing is
  held back any more, so that what is written only grows; the step that opens it
  writes what was held back before the fragment in hand.
- `NothingLostHolds`, `StartTogetherHolds` (`TimeInv`): what a track passes on is
  counted: what is fed, what is held back and what is in hand (`UnitsCounted`,
  `SampleCounted`).  That a sample is the successor of the track's last fragment is
  not inductive until one knows what has been written: a fragment with a time is not
  from before the common start, so the next sample is not dropped, and one without
  a time has slipped through or is not either (`GoesOn`), which rests on when the
  start is known (`StartKnown`).  `FedTogether` says that the tracks are in step,
  by which their beginnings are close (`BeginTogether`), of the tracks that are not
  late.  `LiveTypeOK` follows from the same invariants.
- `UnitsAreWhole` and `IntactUnitsComeThrough` (`ReceptionInv`):
  `BufferInv` says that the buffer is the unit on air up to
  the last packet read, consecutive and, if no other stream uses the descrambler,
  in the clear (`OwnKeysInv`).  It is not inductive by itself: a packet that
  was synced but not decrypted counts as read, so `KeyInv` must say that a key,
  once there, stays, and `Deaf` that a thread that has ended stays so; then
  nothing is pushed any more.  `PushKeepsUnits` is the
  case by case work on `deflag.rs`, `WellFormed` all it needs of a broadcast.
- `WaitsForItsAnswer` (`OwedInv`): counts what is under way between a stream
  that waits and the card.
- `SamplesHaveTheirTime`, `AuCountStays`, `ReceiverTypeOK` (`TimesInv`, on top of
  `ReceptionInv`): the demuxer's count of access units, its pending time and its
  parser agree as long as MPUs come whole.  `Counted` relates `au_count` to the
  last NAL unit read, `Pending` says where the time is while it belongs to no
  sample, `Parsed` that the parser has the beginning of one access unit.  All three
  speak of a unit, so that a packet of many is an induction along `Readings`.
  `OnAirInv` ties the MPU the demuxer takes itself to be in to the one on air.
- `TablesHaveTheirTime` (`MuxerInv`): follows the last PMT on air, which the muxer
  remembers by a time alone: nothing written since is older (`LastTables`, which is
  where `TimesGrow` is needed), and what was written before is of streams it lists.
  `StreamsInv`: the tracks of the muxer have a stream each.
- `SamplesAreClear` (`ClearInv`): the keys in the descrambler are those of the last
  ECM on its PID, once a PMT of the service came and named it (`KeysInv`); tracks
  are streams of the service, and what they have collected is clear (`TracksInv`).
  `EcmRead` says that an ECM is read of its packet, whatever the buffer still has
  of others.  The proof refuted an earlier form of the property, in which every
  ECM on air counted, also one before the PMT that came.
- `SamplesAreWhole` (`PesInv`, on top of `AirInv`): each track holds the sample up
  to the next packet, in the words of the property, that is all that its PES packets
  that came carry since the last start.  Where a packet came, the sample up to the
  one after it is the one up to it and its payload (`SampleMore`), an induction along
  the fold that joins them (`FlattenGrows`, `AscendingGrows`).  `None` is a PID
  without a track, which is why it is not one of the `PesBuffers`.  The proof
  refuted an earlier form of the property: after a start without payload the rest of
  the packet is dropped (`m2ts.rs:260`), for an empty buffer is one without a start.

- `SectionsAreWhole` (`SectionsInv`, on top of `PesInv`): a buffer holds exactly what
  came of the section that goes on in the next packet, if all of it came, and
  nothing where no section is open and nothing was lost; else anything.  What is
  read of a packet (`SectionsRead`) is the rest of a buffer and the packet: the
  beginning may be garbled, but from the first cell at which a section begins on,
  `drain_complete_sections` goes from one section to the next (`DrainedRow`, a well
  founded induction from the end of the buffer).  That it comes to such a cell at all
  is the part the code owes to the pointer field: a garbled buffer is drained before
  the pointer and dropped (`RestartedIs`), an intact one is not cut by it.  What is
  assumed is how a broadcaster cuts sections, which are longer than their header,
  into packets (`SectionsCut`): on each PID
  one after the other, stuffing up to the end of a packet, a pointer field in a packet
  in which a section begins.  What is on air may begin within a section.  The proof
  refuted an earlier form of the property, by which a section of which only the end
  was ever on air had to be read.

- `GuideFollows` (`GuideInv`, on top of `SectionsInv`): what is held of a key has the
  version that is remembered.  Of the tables of a packet the last one of a key stays
  (`StoredLast`), and the whole sections come last among them, also when unknown ones
  are left out (`WholeComeLast`).  It is conditional on `CrcTells`: what the guide has
  with the `version_number` and the CRC of a section on air is that section.
  `CrcTells` holds in the run and cannot be proved of every broadcast: the beginning
  of a section and its end, or that of another one with its `version_number`, with
  anything of the right length between them, are stored with that CRC, for no CRC is
  verified, so that the section itself then counts as stored.

Only model-checked: the other properties of `ts`, on pictures and audio, which are
about parsers that recursive functions over the bytes of a frame model.  The type
invariant of `ts` needs them.
Those of `signaling`, whose layouts are read by RECURSIVE operators.  Everything under
fairness, that cancelled events go and the schedule is stored in the end among it.

## Not modelled

- libdvbv5 and the drivers: tuning is assumed to leave the old channel, though the
  result of `dvb_fe_set_parms` is ignored (`tuner/dvb.rs:226`).
- `Fmp4SegmentMuxer`: it knows the entry of every track it was given one of.  It
  keeps them by the kind of a track, the model by track: with one video and one
  audio, the most that the demuxers announce at a time, that is the same.
- Sample durations, key frames and composition offsets are data.
- The guide follows one service; genres, texts and times are not modelled; the
  tables of MMT take the same steps as those of MPEG-2.
- How packets lie in TLV, compressed IP and in a transport stream
  (`AlignedTsReader`), the fragments of signaling messages,
  the ciphers.  The assets of one demuxer share only its descrambler: one is
  modelled.
- The signals of the event on air, channels that are not configured
  (`WorkspaceError::NotConfigured`: no state), the HTTP server, the command line.

## Plan

1. The event on air: `current_event_id`, the signal and `event_id`, with a
   client that joins in between.
2. `M2tsDemuxer` and `MmtDemuxer` in the place of the free input of
   `FragmentedMp4`, and the durations of samples.
3. `AlignedTsReader` and TLV: where packets begin after a loss.
4. The page: reconnection, pending fragments, the worker's queue of chunks.
5. Proofs: `TypeOK` of `ts`, from the parsers' buffers, and the pictures.
