------------------------------- MODULE Virtio -------------------------------
(***************************************************************************)
(* The virtio block driver, drivers/blkdev/virtio-blk/virtio-blk.c, and    *)
(* the device behind it, which is external.  The driver has one request    *)
(* outstanding and polls the used index; the device looks at the available *)
(* index whenever it likes.  The fences keep the driver's stores in order. *)
(***************************************************************************)
EXTENDS Integers, Sequences, FiniteSets

CONSTANTS
    Idx,            \* the values of the 16-bit vq indices
    QMaxes,         \* the queue sizes a device may offer; 0 is no queue
    QSize,          \* VIRTIO_BLK_QSIZE
    NSectors,       \* sectors of the device
    Capacities,     \* the capacities it may announce, at most NSectors
    MaxRequests     \* bound: requests

ASSUME VirtioAssumption ==
    /\ Idx \in Nat \ {0, 1} /\ QSize \in Nat \ {0} /\ NSectors \in Nat /\ MaxRequests \in Nat
    /\ QMaxes \subseteq Nat /\ Capacities \subseteq 0 .. NSectors
    /\ \A q \in QMaxes : q = 0 \/ q >= 3

VARIABLES
    vb,            \* the driver
    vq,           \* what driver and device share: indices, slots, the chain, the status byte
    vdev,            \* the device
    vdisk,           \* the sectors
    vbuf             \* the buffer of the request

viVars == <<vb, vq, vdev, vdisk, vbuf>>

Sectors == 0 .. NSectors - 1
Unset == -1
New(i) == 100 + i

NoChain == [write |-> FALSE, sector |-> 0, count |-> 0, req |-> 0]
VbOff == [at |-> "off", freed |-> {}, last |-> 0, qsize |-> 0, cur |-> NoChain, ret |-> Unset, reqs |-> 0]

-----------------------------------------------------------------------------
(* The driver.                                                             *)

Leave(at, freed) == vb' = [vb EXCEPT !.at = at, !.freed = freed]

\* The error exit of the probe: vb is freed, the rings and the block device are not.
ProbeFails == Leave("failed", {"vb"})

\* The probe: reset, acknowledge, negotiate.
virtio_probe ==
    /\ vb.at = "off"
    /\ vdev' = [vdev EXCEPT !.status = {"ack", "driver"}, !.ready = FALSE, !.seen = 0]
    /\ \E accepted \in BOOLEAN : IF accepted THEN Leave("queue", {}) ELSE ProbeFails
    /\ UNCHANGED <<vq, vdisk, vbuf>>

\* virtio_blk_setup_queue: the size of the queue, its memory, its registers.
virtio_blk_setup_queue ==
    /\ vb.at = "queue"
    /\ \E memory \in BOOLEAN :
         IF vdev.qmax = 0 \/ ~memory THEN ProbeFails /\ UNCHANGED <<vq, vdev>>
         ELSE /\ vb' = [vb EXCEPT !.at = "ok", !.qsize = IF vdev.qmax < QSize THEN vdev.qmax ELSE QSize, !.last = 0]
              /\ vq' = [avail |-> 0, used |-> 0, slot |-> [i \in 0 .. QSize - 1 |-> 0],
                          chain |-> NoChain, status |-> Unset]
              /\ vdev' = [vdev EXCEPT !.ready = TRUE]
    /\ UNCHANGED <<vdisk, vbuf>>

\* DRIVER_OK, the capacity and the block device, which needs a size and memory.
RegisterDisk ==
    /\ vb.at = "ok"
    /\ vdev' = [vdev EXCEPT !.status = @ \cup {"ok"}]
    /\ \E memory \in BOOLEAN : IF vdev.capacity = 0 \/ ~memory THEN ProbeFails ELSE Leave("idle", {})
    /\ UNCHANGED <<vq, vdisk, vbuf>>

\* virtio_blk_rw fills in the request and the three descriptors.
virtio_blk_rw(write, sector, count) ==
    /\ vb.at = "idle" /\ vb.reqs < MaxRequests
    /\ sector + count <= NSectors
    /\ LET c == [write |-> write, sector |-> sector, count |-> count, req |-> vb.reqs + 1]
       IN  /\ vq' = [vq EXCEPT !.chain = c, !.status = 255]
           /\ vb' = [vb EXCEPT !.at = "slot", !.cur = c, !.reqs = @ + 1, !.ret = Unset]
    /\ vbuf' = [i \in 1 .. count |-> IF write THEN New(i) ELSE Unset]
    /\ UNCHANGED <<vdev, vdisk>>

PutSlot ==
    /\ vb.at = "slot"
    /\ vq' = [vq EXCEPT !.slot[vq.avail % vb.qsize] = 0]
    /\ vb' = [vb EXCEPT !.at = "index"]
    /\ UNCHANGED <<vdev, vdisk, vbuf>>

PutIndex ==
    /\ vb.at = "index"
    /\ vq' = [vq EXCEPT !.avail = (@ + 1) % Idx]
    /\ vb' = [vb EXCEPT !.at = "poll"]
    /\ UNCHANGED <<vdev, vdisk, vbuf>>

\* Mutant: the status byte is polled in place of the used index.
PollStatus ==
    /\ vb.at = "poll" /\ vq.status # 255
    /\ vb' = [vb EXCEPT !.at = "idle", !.last = (@ + 1) % Idx,
                          !.ret = IF vq.status # 0 THEN -5 ELSE vb.cur.count]
    /\ UNCHANGED <<vq, vdev, vdisk, vbuf>>

\* The loop ends when the used index has moved; the wait has no bound.
PollUsed ==
    /\ vb.at = "poll" /\ vq.used # vb.last
    /\ vb' = [vb EXCEPT !.at = "idle", !.last = (@ + 1) % Idx,
                          !.ret = IF vq.status # 0 THEN -5 ELSE vb.cur.count]
    /\ UNCHANGED <<vq, vdev, vdisk, vbuf>>

-----------------------------------------------------------------------------
(* The device: external.                                                   *)

\* It takes the chain once the driver is ready and the available index moves.
DeviceTakes ==
    /\ vdev.at = "idle" /\ vdev.ready /\ "ok" \in vdev.status /\ vdev.seen # vq.avail
    /\ vdev' = [vdev EXCEPT !.at = "data", !.chain = vq.chain, !.seen = (@ + 1) % Idx, !.done = 0]
    /\ UNCHANGED <<vb, vq, vdisk, vbuf>>

\* It moves a sector, or reports an error.
DeviceMoves ==
    /\ vdev.at = "data" /\ vdev.done < vdev.chain.count
    /\ LET s == vdev.chain.sector + vdev.done
           i == vdev.done + 1
       IN  IF vdev.chain.write THEN vdisk' = [vdisk EXCEPT ![s] = vbuf[i]] /\ UNCHANGED vbuf
           ELSE vbuf' = [vbuf EXCEPT ![i] = vdisk[s]] /\ UNCHANGED vdisk
    /\ vdev' = [vdev EXCEPT !.done = @ + 1]
    /\ UNCHANGED <<vb, vq>>

DeviceStatus ==
    /\ vdev.at = "data"
    /\ \E s \in {0, 1} : (s = 0 => vdev.done = vdev.chain.count) /\ vq' = [vq EXCEPT !.status = s]
    /\ vdev' = [vdev EXCEPT !.at = "used"]
    /\ UNCHANGED <<vb, vdisk, vbuf>>

DeviceUsed ==
    /\ vdev.at = "used"
    /\ vq' = [vq EXCEPT !.used = (@ + 1) % Idx]
    /\ vdev' = [vdev EXCEPT !.at = "idle"]
    /\ UNCHANGED <<vb, vdisk, vbuf>>

-----------------------------------------------------------------------------
VirtioInit ==
    /\ vb = VbOff
    /\ vq = [avail |-> 0, used |-> 0, slot |-> [i \in 0 .. QSize - 1 |-> 0], chain |-> NoChain, status |-> Unset]
    /\ vdev \in [at : {"idle"}, qmax : QMaxes, capacity : Capacities, status : {{}}, ready : {FALSE},
                seen : {0}, chain : {NoChain}, done : {0}]
    /\ vdisk = [s \in Sectors |-> s]
    /\ vbuf = <<>>

DriverGoesOn == virtio_probe \/ virtio_blk_setup_queue \/ RegisterDisk \/ PutSlot \/ PutIndex \/ PollUsed
DeviceGoesOn == DeviceTakes \/ DeviceMoves \/ DeviceStatus \/ DeviceUsed

VirtioNext ==
    \/ DriverGoesOn \/ DeviceGoesOn
    \/ \E w \in BOOLEAN, s \in Sectors, n \in 1 .. NSectors : virtio_blk_rw(w, s, n)

VirtioSpec == VirtioInit /\ [][VirtioNext]_viVars
VirtioFairSpec == VirtioSpec /\ WF_viVars(DriverGoesOn) /\ WF_viVars(DeviceGoesOn)

-----------------------------------------------------------------------------
VirtioTypeOK ==
    /\ vb.at \in {"off", "queue", "ok", "idle", "slot", "index", "poll", "failed"}
    /\ vq.avail \in 0 .. Idx - 1 /\ vq.used \in 0 .. Idx - 1 /\ vb.last \in 0 .. Idx - 1
    /\ vdev.at \in {"idle", "data", "used"} /\ vdisk \in [Sectors -> Int]

\* A request that returns its size has moved its own sectors, all of them,
\* although the device works while the driver writes the next request; the
\* indices may have wrapped.
RequestDone ==
    vb.at = "idle" /\ vb.ret > 0
      => \A i \in 1 .. vb.cur.count : vbuf[i] = vdisk[vb.cur.sector + i - 1]

\* The device works only on the request the driver waits for: never on one
\* that has returned, and never on a chain that is being written.
OneOutstanding == vdev.at # "idle" => vb.at = "poll" /\ vdev.chain = vb.cur

\* The device is never left with memory that has been freed.
NoDmaToFreed == vdev.ready => "rings" \notin vb.freed

\* Every request is answered when the device gets on.
RequestsReturn == (vb.at = "slot") ~> (vb.at = "idle")

\* Driver and device agree on who owns the ring and what a request has done.
RingSound == VirtioTypeOK /\ RequestDone /\ OneOutstanding /\ NoDmaToFreed
=============================================================================
