# TLA+ models of the MTK IMS / RIL vendor layer

This directory holds TLA+ models of the parts of `src/` whose behaviour
depends on an order of steps. These are request handlers that run a
sequence of AT commands, URC handlers that keep state across URCs, caches
and lists that a step rewrites, a singleton shared by threads, and a socket
writer whose writes may be partial. TLC checks each model. The rest of the
repository is data copying, string formatting and OS glue. It is listed at
the end, with the reason it is not modelled.

`PROJECT.json` is the machine-readable index:

* every component, with its status;
* every run, and the definitions it checks;
* one mutant per checked property. This is a plausible bug in the mapped
  code that TLC must catch.
* the source lines each definition translates;
* the findings and the hazards.

## The system

The RIL has two layers that exchange `RfxMclMessage`s.

**MD-comm (MCL)** is the `Rmc*` classes under `mdcomm/`.

* Request handlers talk to the modem over the AT channel of their slot and
  answer with a `RIL_Errno`.
* Multi-command requests are `RmcMultiAtReq` objects. The handler asks one
  for its first command, sends it, gives it the intermediate lines and asks
  for the next command, until there is none.
* URC handlers parse unsolicited lines (`+CEN1`, `+CEN2`, ...).
* Each handler runs on the channel thread of its slot. A channel serves one
  request at a time, and the AT layer always returns a final result, or a
  timeout at worst.

**Telcore (TCL)** is the `Rtc*` controllers under `telcore/`. They run on
the one telcore main thread. They:

* route framework requests to MCL;
* keep per-slot settings in system properties (`ImsConfigUtils`);
* keep the socket clients of rild (`RtcRilClientController`) and send them
  responses and URCs.

The **utilities** are:

* the c-ares fork (`libc-ares-naptr`);
* the netlink address listener of netagent (`NetlinkEventHandler`), whose
  requests a worker of `NetAgentService` consumes;
* the IPsec helpers.

Vendor properties (`vendor.*`, `persist.*`) outlive a restart of rild.
Handler members do not.

## Modules

| Module | Models | Source |
|---|---|---|
| `CdmaBcConfigAbstract` | what the CDMA broadcast-config request promises | (abstract) |
| `CdmaBcConfig` | `RmcCdmaSetBcConfigReq` with the `RmcMultiAtReq` loop and the modem | `mdcomm/sms/RmcCdmaBcConfigSet.cpp` |
| `EccNetworkList` | `RmcEccNumberUrcHandler::handleNetworkEcc`, with rild restarts | `mdcomm/cc/RmcEccNumberUrcHandler.cpp` |
| `ImsCcUrcHandler` | `RmcCallControlImsUrcHandler`: the messages each IMS call-control URC sends to telcore | `mdcomm/cc/RmcCallControlImsUrcHandler.cpp` |
| `UrcChannel` | the slot's URC channel, running `EccNetworkList` and `ImsCcUrcHandler` one line at a time | both of the above |
| `OpRequestHandler` | the operator SIM-lock and IMS-control request handlers and the CDMA MO SMS request, queued on one channel | `operator/.../RmcGsmSimOpRequestHandler.cpp`, `RmcOpImsControlRequestHandler.cpp`, `mdcomm/sms/RmcCdmaMoSms.cpp` |
| `ImsFeatureConfig` | the per-slot feature bits of `ImsConfigUtils` | `telcore/ims/config/ImsConfigUtils.cpp` |
| `MobileWifi` | `RtcMobileWifiController` of one slot: request relay with rejection while the modem is off, URC and response relay, the WFC status callback | `telcore/mwi/RtcMobileWifiController.cpp` |
| `TelcoreMainThread` | the telcore main thread running `ImsFeatureConfig`'s callers and `MobileWifi`, one handler at a time | both of the above |
| `AresServersCsv` | `ares_get_servers`, `ares_set_servers`, `ares_set_servers_csv` | `libc-ares-naptr/ares_options.c` |
| `NetlinkReqCacheAbstract` | what the last-request cache promises: a per-interface map | (abstract) |
| `NetlinkReqCache` | `onEvent`, and the `Vector` of last requests with its three operations | `netagent/libnetagent/na/NetlinkEventHandler.cpp` |
| `VtMsgParser` | the `RmcVtMsgParser` singleton and its session lock, with two threads | `mdcomm/vt/RmcVtMsgParser.cpp` |
| `RilClientRegistry` | client creation, registration, completion lookup, URC broadcast | `telcore/client/RtcRilClientController.cpp` |
| `RilResponseWriter` | `sendResponse` and `blockingWrite` on one client socket | `telcore/client/RtcRilClientController.cpp` |
| `RilClientController` | the two above composed on the telcore main thread | `telcore/client/RtcRilClientController.cpp` |

Each `MC_<Module>.tla` gives the constants for TLC. The `.cfg` files name
the `MC_` module's definitions.

### How the modules correspond to the code

Each module's header comment says what its variables are in the code. An
action is a whole handler or call, and its guard comes from the code's
early returns. `PROJECT.json` `map` gives the lines each definition
translates. In outline:

**CdmaBcConfig**

* `vec` and `cursor` are the four vectors of `RmcCdmaSetBcConfigReq` and
  their cursors.
* `Receive` is the constructor followed by `onGetFirstAtInfo`. Every info
  adds one category and one language, so a request has both or neither;
  the constant `EmptyConfig` says whether zero infos may come.
* `HandleResponse` is one turn of the driver loop, with
  `onHandleIntermediates` and `onGetNextAtInfo`. The else-if chain of
  `onGetNextAtInfo` is `Walk`.
* `ModemExecute` is the modem. It may answer OK, ERROR, a timeout (with the
  command executed or not) or a malformed line.
* A cursor past its vector reads `Junk`, the indeterminate value.
* A command carries its send class (`RmcAtInfo.h`). A query is
  `RmcSingleLineAtSendInfo`, so its `+ECSCBCHA:` line comes back in
  `rsp.lines`. A set command is `RmcNoLineAtSendInfo` and collects no
  line. `SetError` is `RmcBaseReqData::setError` (`RmcData.h`).
* The driver loop and the range parser are not under `src/`. They are
  modelled from `spec.md` and marked `spec_modelled`.

**EccNetworkList**

* `eccList` and `eccMcc` are the two vendor properties.
* `mNeedRefreshNwEcc` is the handler's flag.
* `HandleCen1` and `HandleCen2` are the two URC branches. `Restart` is a
  rild restart: the flag is lost and the properties are kept.
* `overrun` records a `sprintf` past its buffer.

**ImsCcUrcHandler and UrcChannel**

* A URC line is its kind (the prefix), whether `atTokStart` finds the
  `:`, and its tokens. Tokens are small ints; the ints in `Garbled` stand
  for text that `atTokNextint` fails on.
* One operator per handler gives the messages it sends for a line:
  * `HandleConfSrvcc`, with its zeroed `int[6]`, the stored failed int
    and the count limit;
  * `HandleVoiceDomainSelectResult`, with the `hasImsCall` guard and the
    SRVCC start and completion for a CS domain;
  * `HandleSrvccStateChange` and `NotifySrvccState`, which adds the
    call-state change after a completion;
  * `HandleCallAdditionalInfo`;
  * `ForwardedConf`, `ForwardedCall` and `ForwardedEcc`, the handlers that
    pass the first `maxLen` tokens on.
* `OnHandleUrc` is the dispatch. The prefixes' strings are defined
  outside `src/`, so a kind stands for each.
* `tcl` is every message sent to telcore, in order. `last` is history:
  the last line, the `hasImsCall` answer and what was sent.
* Three pieces are defined outside `src/`:
  * `notifyIntsDataToTcl` and `notifyStringsDataToTcl` become
    `NotifyDataToTcl`: the first `maxLen` tokens, plus the slot for
    `appendPhoneId`;
  * `hasImsCall` is an input of every URC;
  * `atTokNextint`'s value on a failure is `FailedInt`.
* `UrcChannel` extends `EccNetworkList` and instantiates
  `ImsCcUrcHandler`. Both handlers are registered on
  `RIL_CMD_PROXY_URC`, whose one thread runs each handler to its end
  before it reads the next line. So a step of `ChannelNext` is one whole
  handler, or a rild restart. They share no data: the composition shows
  that neither handler's properties depend on the other's URCs coming
  between its own.

**OpRequestHandler**

* `queue` is the channel's request queue.
* `HandleRequest` runs one handler to its end, with the modem's final
  result as input.
* `answer` is the `RIL_Errno` of each response.
* `executed` records whether the modem carried the command out.
* An SMS request's argument is the CDMA card type and the teleservice id
  the framework gave. Its results are the outcomes `RmcCdmaMoSmsMessage`
  tells apart:
  * `toHexPdu` fails (`PDU_FAIL`);
  * a channel error;
  * OK with or without a parsable `+EC2KCMGS:` reference;
  * a final line with no class, a class and no cause, or a class and a cause.
* `SmsResponse` follows the request object from construction
  (`m_msgRef` -1, `m_errCode` 0, success) through `preProcessMessage`,
  `onHandleIntermediates` and `onHandleFinalResponseForError` to the
  `RmcCdmaMoSmsRsp` built by `onGetRspData`.
* `smsReq` and `smsRsp` are history: what each SMS request asked, and the
  messageRef, errorCode, errno and teleservice it got. In rild each SMS
  kind is on the SMS channel, not this one. Modelling them in one queue
  changes nothing, because a handler runs to its end before the next
  request is taken either way.

**ImsFeatureConfig**

* `featureValue` is the int in each feature property.
* `SetFeaturePropValue` is the read-modify-write of one bit.
* `lastSet` and `lastAny` are history variables for the properties.

**MobileWifi and TelcoreMainThread**

* Each handler of `RtcMobileWifiController` is a definition of the same
  name. `OnInit` and `OnDeinit` set `registered`: the request and URC ids
  and the WFC status callback.
* `Request` is the framework's dispatch. It asks `OnCheckIfRejectMessage`
  with `modemOff`. A rejected request is answered with an error by the
  framework. Otherwise `OnHandleRequest` puts it in `atMcl`.
* `MclResponse(t)` is MD-comm's answer to request `t`, relayed by
  `OnHandleResponse`. `MclUrc` is a Wi-Fi URC relayed by `OnHandleUrc`.
* `SetWfcState` is another controller changing `RFX_STATUS_KEY_WFC_STATE`.
  While the callback is registered, the status manager calls
  `OnWFCPDNStatusChanged`, which relays a URC with the new state and the
  slot.
* `rilj` is the bag of messages that reached RILJ. No property depends on
  the order RILJ reads them in. Payloads are tokens, because the
  controller forwards them unchanged.
* The framework's dispatch, the status manager and MD-comm are not under
  `src/`. They are modelled as the controller relies on them, and marked
  `spec_modelled`.
* `TelcoreMainThread` interleaves `SetFeaturePropValue` with the
  controller's steps. Each step is one whole handler. The two share the
  thread and nothing else.

**AresServersCsv**

* `servers` is `channel->servers`.
* `ParseEntries` (RECURSIVE) is the loop of `ares_set_servers_csv`, with
  `Link` the pointer walk that hangs each node.
* Every malloc may fail. The input `fail` says which one does.

**NetlinkReqCache**

* `queue` is the requests `onEvent` queued.
* `cache` is `m_pLastNetlinkEventReqInfo`.
* The three cache operations are actions. `FirstIdx` is their "first
  match" loop.

**VtMsgParser**

* `inst` is the object `s_RmcVtMsgParser` points at. `new` is split into
  publishing the pointer and constructing the object, because the unlocked
  read in `getInstance` may see the pointer first.
* `holder` is the owner of the global mutex `mtxx`.
* `pc` is each thread's place in getInstance, startSession, getSlot and
  stopSession.
* `member` maps each message type to the message its struct pointer
  holds.

**RilClientRegistry**

* `queue` is the list from `clientHead`. `queue[1]` is the dummy head,
  which holds no client.
* `OnInit` is `onInit` and `initRilClient`. The operator-handler,
  test-mode and SIM-count values are chosen in `Init`.
* `OnClientRequestComplete` and `OnClientUnsolicitedResponse` are the two
  walks. A node with no client is an `RFX_ASSERT` (`crashed`).

**RilResponseWriter**

* `wire` is the byte stream the client reads.
* `Write` is one `write()` that takes part of what remains.
* `WriteFails` is an error other than EINTR or EAGAIN. Those two errors
  retry and change nothing, so they are stuttering steps.
* `Close` and `Reconnect` are the `RilClient`'s reaction to -1. That code
  is outside `src/` and is `spec_modelled`.

**RilClientController**

* It instantiates both RIL modules over one set of variables.
* `Watched` is the client whose socket is followed byte by byte.
* `Owed` counts the responses handed to `Watched` by a completion or a URC
  that it has neither sent nor dropped.
* A controller call (`onInit`, a completion, a URC) needs the main thread
  free: no `blockingWrite` in progress and nothing owed. The client hands a
  response on synchronously.
* `Respond` sends an owed response. `Drop` discards it when the socket is
  closed. Both are `RilClient` code, outside `src/`.
* A client's request arrives at any time, on the client's own thread.

### Refinements

Two detailed modules are checked against an abstract one, with the
abstract `Spec` as a `PROPERTY` through `INSTANCE ... WITH`:

* `CdmaBcConfig` refines `CdmaBcConfigAbstract`.
* `NetlinkReqCache` refines `NetlinkReqCacheAbstract`. The cache's entry of
  each interface, as the loops find it, is the abstract map. The history
  variable `compared` lets the abstract comparison bind the request that
  was compared.

## Runs

| Run | Expect | Shows |
|---|---|---|
| `bc_refines` | pass | Each broadcast-config request answered SUCCESS leaves the modem in the requested configuration. A failed one enables nothing unrequested. Every request is answered (weak fairness). |
| `bc_request_contract` | violation | `RequestServedSoundly`: adjacent languages make `onGetNextAtInfo` read `m_lans` past its end; a request with zero config infos makes `onGetFirstAtInfo` read `m_channels[0]` of an empty vector (line 70); and infos that disagree on `selected` are answered SUCCESS with nothing sent. The zero-info request is allowed only in this run (`EmptyConfig`); `bc_refines` states the contract for requests with at least one info. |
| `urc_channel` | pass | On the slot's URC channel, with rild restarts at any point: the ECC list holds every number of the latest `+CEN1` report exactly once, with its latest category. Every IMS call-control line in a format its handler's comment documents reaches the framework as that format says (`UrcReportedAsDocumented`). |
| `ecc_report` | violation | `EccListIsReport`: a list string past 91 characters overruns the `sprintf` buffer, and a restart between `+CEN1` and the first `+CEN2` keeps the earlier report's numbers. |
| `op_answering` | pass | The SIM-lock, digits-line and CDMA MO SMS handlers answer every request, and answer SUCCESS exactly when the modem carried the command out. An SMS answer carries the modem's reference, the CT-card WEMT→WMT conversion, and the errno and cause of a classed error (`SmsAnswerReportsModem`). |
| `op_request_contract` | violation | `RequestAnsweredTruthfully`: a reset refused with `+CME ERROR` is answered SUCCESS, the RCS requests answer SUCCESS for an unsupported argument and for ERROR, and `SET_DIGITS_REG_STATUS` is never answered. |
| `telcore_main_thread` | pass | With single or multi IMS, every read of a slot's feature returns the last write that concerns it, whatever other slots did. The mobile Wi-Fi controller answers every request exactly once, even when the modem goes off or the controller deinits in between (`RequestAnsweredOnce`, weak fairness). |
| `ares_servers` | pass | With at most two entries, the csv sets exactly its hosts, in order. A failed csv call leaves no servers, never the entries parsed before the failure. `ares_get_servers` returns every server in order, or, when an allocation fails part way, frees the nodes it built and returns none (`GetServersAllOrNothing`). All of this holds under every malloc failure. |
| `ares_csv_servers` | violation | A csv of three servers keeps the first and the last only, and an IPv6 server ending in digits loses its last group to the port scan. |
| `netlink_cache` | pass | The cache has one entry per valid interface and refines the per-interface map, calloc failures included. |
| `vt_parser` | pass | One parser is created, sessions exclude each other, no session runs on an unconstructed object, and `getSlot` gives the message's slot. |
| `ril_client_controller` | pass | Every configuration registers exactly its clients, once each. No completion or broadcast asserts. Every client gets every URC once. However `write()` splits or fails, the watched client reads exactly its completed responses, in order, with at most one torn response at the end. |

Each violation run checks one property that several bugs break. Each bug
alone breaks it too: it was checked with the inputs of that bug alone.

`getSlot` also returns 0 for the PDN handover indications, whatever their
slot (`RmcVtMsgParser.cpp:274`). `vt_parser` sends those types too, but
`GetSlotIsMessageSlot` is stated only for the types `getSlot` has a branch
for (`SlotTypes`), and `PROJECT.json` lists the PDN case as a hazard that
no property covers.

`PROJECT.json` `findings` explains each violation, with the source line.

## Bounds, and why they are enough

* **CdmaBcConfig.** Categories are `1..3`: one or two ranges per request,
  overlapping the modem's ranges partly. Every fault may happen at every
  command.
* **EccNetworkList.**
  * Three numbers, two categories (1 and 16, one and two digits) and two
    MCCs give repeated numbers,
    category changes and MCC changes.
  * All numbers are 3 characters long in `urc_channel`, which never
    reaches the 92-byte buffer. They are 30 long in `ecc_report`, where
    three entries pass it.
  * Both runs let rild restart between any two URCs.
* **ImsCcUrcHandler.** Two URCs handled, in any order and interleaved
  with the ECC URCs and restarts. Two is enough for a completion
  from one URC to be followed by another URC's messages. The lines are:
  * conference SRVCCs of two calls, of five (the `int[6]` full), of six
    (over the limit), with a garbled id, and without a `:`;
  * `+EVADSREP` for CS, for IMS with a rat, and with a garbled rat;
  * `+CIREPH` states 0, 1 and 2;
  * `+EIMSCAI` with and without the additional info, with a field too
    many, and in another mode;
  * two forwarded kinds that append the slot.
* **OpRequestHandler.** Three request ids, over every kind and every
  modem result, so requests queue behind one another. `op_answering`
  takes `CDMA_SEND_SMS` as its one SMS kind: the IMS kinds differ only
  in the PDU encoding, which the model abstracts. The cards are one CT
  card (`CT_3G_UIM_CARD`, the one a missed case would drop) and one
  other card. Together they reach every branch of `preProcessMessage`.
* **ImsFeatureConfig.**
  * Four slots (the `0..3` that `checkIsPhoneIdValid` allows) plus the
    invalid ids -1 and 4.
  * One feature, and `enabled` in `{0, 1, 2}` (2 is "not 1"). Each
    feature is its own property, and `setFeaturePropValue` of one never
    reads or writes another. A second feature would only multiply the
    states of `telcore_main_thread`.
  * The initial value is any 4-bit mask.
  * `mimsSupport` is 1 or 2, so one run covers the shared and the per-slot
    layout.
* **MobileWifi** (in `telcore_main_thread`).
  * Two requests, so a reject and a relay, or two relays, overlap.
  * One MD-comm URC.
  * Two WFC states and two changes, so a state can change and change
    back, before or after `onInit`.
  * The modem starts off, and `ModemPower` toggles it at any point.
  * `onInit` and `onDeinit` may alternate without bound.
* **AresServersCsv.**
  * Two entries are the most that `Link` builds correctly. The third is
    the violation run.
  * The four address classes are all covered: v4, v6, v6 ending in
    digits, and a host name.
* **NetlinkReqCache.**
  * Two interfaces (symmetric model values).
  * Two addresses that differ only in case, one prefix, with and without
    a slash.
  * A queue of one. The cache operations take any order, so a longer queue
    adds no new cache states.
* **VtMsgParser.** Two threads and two slots. The message types include
  `ANBR_REQ` (kept by `stopSession`) and one unknown type.
* **RilClientController** (`MC_RilClientController`).
  * Both operator-handler values, test mode off and on, and one to four
    SIMs: every branch of the client switch.
  * One request per client and two URCs.
  * `Watched` is `rild-atci`, the one client every configuration creates.
  * Up to three responses to it, of sizes 0 and 2.
  * Every split of every write, and a failure at every write.
  * Byte values are distinct, so a repeated or misplaced byte shows.

## Fairness and deadlock

* **`CdmaBcConfig` and `OpRequestHandler`** assume weak fairness of the
  channel thread's steps. A channel serves a request until it answers, and
  the AT layer returns a result or a timeout. New requests are not fair,
  because the framework may stop sending them.
* **`MobileWifi`** assumes weak fairness of `MclResponse(t)` for each
  request: MD-comm answers every request it is sent, with a timeout at
  worst. Requests, URCs, modem power and WFC changes are not fair.
* **The other modules** state safety only, and need no fairness. In
  particular `blockingWrite` retries EINTR and EAGAIN with no bound, and
  its progress depends on the peer reading, which the code cannot ensure.
* **`CHECK_DEADLOCK FALSE`** appears only where the behaviours end at a
  request, URC or response bound:
  * `OpRequestHandler`;
  * `RilClientController`.

  There rild really does sit idle, waiting for the next request.

## Not modelled

* **The IMS call-control URC prefixes.** Their strings are defined
  outside `src/`, so whether one prefix shadows a later one in
  `onHandleUrc`'s `strStartsWith` chain cannot be checked.
* **`RmcCdmaSmsConverter`'s PDU encoding.** It is reduced to success or
  failure of `toHexPdu`.
* **The data wrapper classes.** Struct copying.
* **The other header-only files.** Declarations. `RmcAtInfo.h` and
  `RmcData.h` are not in this group: their send classes and request error
  are part of `CdmaBcConfig`. Their numeric, raw and multi-line send
  classes and the URC data classes have no user among the modelled
  requests.
* **The c-ares resolver proper and `ahost.c`.** Vendored third-party code
  and a command-line tool.
* **`sockets_unix.cpp` and `trace-host.c`.** Pure system calls.
* **`ImsConfigUtils`' force-notify arrays and `getCdmaSlotId`.** Read-only
  or without callers in `src/`.

## Plan for later work

1. State what RILJ must see of the WFC status after a re-init, once the
   status manager's behaviour on registration is known.
2. Extend `EccNetworkList` to two slots sharing the property names.
3. Add a liveness property to `VtMsgParser` under fair lock scheduling.
