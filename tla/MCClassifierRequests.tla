------------------------- MODULE MCClassifierRequests -------------------------
EXTENDS ClassifierRequests

MCLogits == [j \in Jobs |-> <<IF j = "r1" THEN 2 ELSE 1, IF j = "r2" THEN 3 ELSE 1>>]

MCPaths == {"/api/v1/inference", "/api/v1/jobs/status"}
MCEndpoint == [p \in MCPaths \cup {"/other"} |->
                 IF p = "/api/v1/inference" THEN "inference"
                 ELSE IF p = "/api/v1/jobs/status" THEN "job_status" ELSE "other"]

GoodUrl == [scheme |-> "https", netloc |-> "host"]

\* Uploads, URLs, a status request, other paths, and callers KrakenD refuses.
MCAsks ==
  LET bring(token, path, image, url) ==
        [token |-> token, path |-> path, image |-> image, url |-> url]
      ann == [claims |-> "ann", verified |-> TRUE]
      inference == "/api/v1/inference"
  IN {bring(ann, inference, "whole", None), bring(ann, inference, "truncated", None),
      bring(ann, inference, None, GoodUrl),
      bring(ann, inference, None, [GoodUrl EXCEPT !.scheme = "ftp"]),
      bring(ann, "/api/v1/jobs/status", None, None),
      bring([claims |-> "bob", verified |-> FALSE], inference, "whole", None),
      bring([claims |-> "", verified |-> FALSE], "/other", None, None)}

\* An hour west of UTC, the first second is on a Sunday.
MCOffset == -3600

MCQueries ==
  {[mode |-> "report", since |-> s, until |-> Nothing] : s \in {Nothing, Ago(1, "d"), Ago(6, "h")}}
  \cup {[mode |-> "summary", since |-> Nothing, until |-> Nothing],
        [mode |-> "json", since |-> Word, until |-> Time(1)]}
===============================================================================
