-------------------------- MODULE MCSockLifecycle --------------------------
(* SockLifecycle for TLC.                                                  *)
EXTENDS SockLifecycle

MCPaths == {HandshakeSend, HandshakeRecv, RecvProc, OnRegularMsg, SendWorker}
=============================================================================
