---------------------------- MODULE MCReconnect ----------------------------
(* Reconnect on small numbers: two units to the millisecond, a factor that *)
(* saturates at 7, and every limit of validate() tried on both sides.      *)
EXTENDS Reconnect

Candidates ==
  [connect_timeout: {0, 2, 41}, request_timeout: {1}, write_timeout: {1},
   ping_interval: {1}, pong_timeout: {1}, reconnect_delay: {0, 1, 3, 8, 9},
   max_reconnect_delay: {0, 1, 3, 17, 40, 41}, max_reconnect_attempts: {0, 2, 5, 6},
   max_in_flight: {0, 1}, event_capacity: {1}, max_message_size: {2, 4}]
Powers == [n \in 0..5 |-> 2^n]
SmallCounts == 1..2
SmallSizes == 2..3
===============================================================================
