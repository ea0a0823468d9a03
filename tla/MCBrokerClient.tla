-------------------------- MODULE MCBrokerClient ---------------------------
(* An instance of BrokerClient for TLC: a worker with its status publisher   *)
(* and its job subscriber, closed in the order of its main.                  *)
EXTENDS BrokerClient

CONSTANTS status, job

WorkerPublishers == {status}
WorkerSubscribers == {job}
WorkerCloseOrder == <<job, status>>
============================================================================
