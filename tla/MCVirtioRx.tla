----------------------------- MODULE MCVirtioRx -----------------------------
EXTENDS VirtioRx

\* What QEMU's virtio-keyboard sends of one shift key and one letter.
MCEvent ==
    { [code |-> "shift", value |-> 1], [code |-> "shift", value |-> 0],
      [code |-> "letter", value |-> 1], [code |-> "letter", value |-> 2],
      [code |-> "unmapped", value |-> 1], [code |-> "syn", value |-> 0] }
=============================================================================
