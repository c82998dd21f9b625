--------------------------- MODULE MCServiceStart ---------------------------
(* Small instances of ServiceStart for TLC. *)
EXTENDS ServiceStart

\* Lines that are right, out of range, contradictory, and not understood.
Lines == {<<"listen_port", 7758>>, <<"listen_port", 0>>,
          <<"workers", 0>>, <<"workers", 2>>, <<"workers", 4>>,
          <<"max_connection", 20000>>,
          <<"min_latency", 300>>, <<"max_latency", 400>>, <<"max_latency", -1>>,
          <<"min_chunk_latency", 0>>, <<"max_chunk_response_size", 50>>,
          <<"chunk_ratio", 101>>, <<"response_type", "CHUNKED">>,
          <<"response_type", "chunky">>, <<"log_level", "DEBUG">>,
          <<"chunk_blocks", 0>>, <<"port", 1>>}
=============================================================================
