-------------------------------- MODULE Clients --------------------------------
(***************************************************************************)
(* How the calls of the commands fail.  A command that fails ends with the *)
(* exit code its error carries, GENERAL_ERROR for an error without one.    *)
(* Every operator below is named for a call and gives the exit codes of    *)
(* the errors the call can reject with; messages are not modelled.         *)
(***************************************************************************)

\* The codes of constants.ts; "NONE" is a process that has not ended, and
\* "KILLED" one that a signal or a crash ended.
ExitCodes ==
  {"NONE", "SUCCESS", "GENERAL_ERROR", "OSM2PGSQL_ERROR", "S3_ERROR",
   "INVALID_STATE_FILE_ERROR", "REMOTE_SERVICE_RESPONSE_ERROR",
   "REMOTE_SERVICE_UNAVAILABLE", "DUMP_SERVER_EMPTY_RESPONSE_ERROR",
   "OSMIUM_ERROR", "QUEUE_ERROR", "BUCKET_DOES_NOT_EXIST_ERROR",
   "INVALID_GEOMETRY_ERROR", "REMOTE_RESOURCE_NOT_FOUND_ERROR", "KILLED"}

\* Errors of node itself and of the libraries: the file system, a stream that
\* breaks, JSON.parse, the mediator, the axios client of MDR.
plainError == {"GENERAL_ERROR"}

\* S3: the request, then for a get the reading of the body.
getObjectWrapper == {"S3_ERROR"}
streamToString == plainError
putObjectWrapper == {"S3_ERROR"}
headBucketWrapper == {"S3_ERROR"}

\* HTTP: the upstream answered with an error, did not answer, or was not asked.
invokeHttp ==
  {"REMOTE_SERVICE_RESPONSE_ERROR", "REMOTE_SERVICE_UNAVAILABLE"} \cup plainError

fetchSequenceNumberSafely == {"INVALID_STATE_FILE_ERROR"}

\* The MDR client is built on axios directly, without invokeHttp.
getStatus == plainError

streamToFs == plainError

\* A child that cannot be spawned, ends with another code than 0, or is killed.
commandWrapper(executable) ==
  IF executable = "osmium" THEN {"OSMIUM_ERROR"} ELSE {"OSM2PGSQL_ERROR"}

startQueue == {"QUEUE_ERROR"}

\* RemoteResourceManager.load: any failed get, then the processing.
getResourcesFromRemote == {"REMOTE_RESOURCE_NOT_FOUND_ERROR"}
processResources == {"INVALID_GEOMETRY_ERROR"} \cup plainError
load == getResourcesFromRemote \cup processResources

prepareEnvironment == headBucketWrapper \cup {"BUCKET_DOES_NOT_EXIST_ERROR"} \cup plainError

\* The configuration file is read before the manager is prepared.
prepareManager == plainError \cup prepareEnvironment \cup load \cup startQueue
================================================================================
