---------------------------- MODULE MCWriterLock ----------------------------
(* Two or three clients of one device's writer lock. *)
EXTENDS WriterLock, TLC

CONSTANTS s1, s2, s3, c1, c2, c3, t1, t2, t3

\* The first two sessions share a connection, which pipelines two requests.
SharedConn == s1 :> c1 @@ s2 :> c1 @@ s3 :> c2
SharedServes == t1 :> c1 @@ t2 :> c1 @@ t3 :> c2
Interchangeable == Permutations({s1, s2}) \cup Permutations({t1, t2})

\* One session and one request at a time per connection, as the `tether`
\* client has it.
OwnConn == s1 :> c1 @@ s2 :> c2
OwnServes == t1 :> c1 @@ t2 :> c2
=============================================================================
