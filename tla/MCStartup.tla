----------------------------- MODULE MCStartup -----------------------------
(* Finite instances of Startup. *)
EXTENDS Startup

MCNames == {"", "a", "A", "b", "B", "h", "db", "DB", "sa"}

MCLower ==
    [n \in MCNames |-> CASE n = "A" -> "a" [] n = "B" -> "b" [] n = "DB" -> "db" [] OTHER -> n]

Bucket(id, host, database, minIdle, connectionTimeout, queueTimeout) ==
    [id |-> id, host |-> host, port |-> 1433, database |-> database, username |-> "sa",
     max |-> 1, minIdle |-> minIdle, maxIdleTime |-> 0,
     connectionTimeout |-> connectionTimeout, queueTimeout |-> queueTimeout]

Nothing == [name \in Settings |-> 0]

File(fallbackEnabled, settings, buckets) ==
    [port |-> 1433, fallback |-> fallbackEnabled, settings |-> settings, buckets |-> buckets]

(* One database for all and a host that is the ID of an earlier bucket in   *)
(* capitals; two databases and one host; one bucket with a timeout below a  *)
(* second; a bucket without a host.                                         *)
MCFiles ==
    {File(TRUE, Nothing,
          <<Bucket("b", "h", "db", 0, 2000, 5000), Bucket("A", "B", "db", 1, 0, 0)>>),
     File(FALSE, [Nothing EXCEPT !.queueTimeout = 7000],
          <<Bucket("A", "h", "db", 0, 0, 0), Bucket("b", "h", "sa", 1, 30000, 0)>>),
     File(TRUE, Nothing, <<Bucket("b", "h", "DB", 0, 500, 0)>>),
     File(FALSE, Nothing, <<Bucket("a", "", "db", 1, 0, 0)>>)}

MCLogins ==
    [server : {"", "a", "A", "B", "db"}, database : {"", "db", "DB"}, user : {"", "sa", "h"}]
=============================================================================
