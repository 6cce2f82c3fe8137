----------------------------- MODULE MCStreamer -----------------------------
EXTENDS Streamer

\* every input with an HTTP client, every output with some input, and two outputs that wait for one
\* another; input_ptp2 does most between two pictures and has one output at a time
MCSetups ==
    {[input |-> i, outputs |-> <<"udp", "http_snapshot">>] : i \in {"testpicture", "http", "mvs", "libcamera"}}
        \cup {[input |-> "testpicture", outputs |-> <<k>>] : k \in OutputKinds}
        \cup {[input |-> "ptp2", outputs |-> <<k>>] : k \in {"udp", "http_snapshot"}}
        \cup {[input |-> "file", outputs |-> <<"zmq", "http_snapshot">>],
              [input |-> "opencv", outputs |-> <<"http_stream", "autofocus">>],
              [input |-> "raspicam", outputs |-> <<"rtsp", "http_snapshot">>],
              [input |-> "testpicture", outputs |-> <<"viewer", "rtsp">>]}
MCOneClient == {[input |-> "testpicture", outputs |-> <<"http_stream">>]}
=============================================================================
