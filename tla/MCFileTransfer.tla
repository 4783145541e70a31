--------------------------- MODULE MCFileTransfer ---------------------------
(* Instances of FileTransfer for TLC: who may call pause, resume, cancel.  *)
EXTENDS FileTransfer

Ops(s, r) == [e \in End |-> IF e = Sender THEN s ELSE r]

NoOps == Ops(0, 0)
OneEach == Ops(1, 1)
SenderOnce == Ops(1, 0)

=============================================================================
