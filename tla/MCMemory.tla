------------------------------ MODULE MCMemory ------------------------------
(* A small machine for Memory: the virtual layout is that of the code, the *)
(* physical memory a couple of dozen pages with a hole in them.            *)
EXTENDS Memory

MCUsable == (1 .. Frames - 1) \ {5}

\* MMIO_UART0_BASE, MMIO_GICD_BASE, MMIO_GICC_BASE, MMIO_VIRTIO_BASE and on.
MCDevices == <<36864, 32768, 32784, 40960, 40961, 40962, 40963>>

\* One page of code at 0x400000, one of data.
MCImage == <<[va |-> 1024, kind |-> "code"], [va |-> 1025, kind |-> "data"]>>
=============================================================================
