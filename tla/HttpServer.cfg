\* Two connections, both kinds of response, with and without latency, two requests
\* per connection, under the fairness of the event loop.
CONSTANTS
  Fd = {1, 2}
  max_queue_len = 3
  response_type = "MIX"
  chunk_ratio = 20
  min_latency = 0
  max_latency = 2
  min_response_size = 2
  max_response_size = 2
  min_chunk_latency = 0
  max_chunk_latency = 1
  min_chunk_response_size = 0
  max_chunk_response_size = 5
  chunk_blocks = 2
  timeout = 2
  MaxAge = 2
  MaxRequests = 2
  NULL = NULL
SPECIFICATION FairSpec
INVARIANTS TypeOK NodesOnLists DeleteFromOwner PendingHasTimer PeerSeesWholeResponses ConnCount ChunksFewAndFitting
PROPERTIES NotBeforeLatency DueResponsesAreSent ListsAreQueues RequestsGetAnswered ServedConnectionsExpire
