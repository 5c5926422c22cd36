--------------------------- MODULE ClusterReference ---------------------------
(***************************************************************************)
(* rabbitmqclient.ParseReference: from a rabbitmqClusterReference to the   *)
(* credentials, the URI and the TLS setting of the management API, or to   *)
(* the error that the reconcilers branch on.                               *)
(*                                                                         *)
(* Credentials and URIs are opaque: a result says which error came back    *)
(* ("none" for nil) and whether the connection uses TLS.  What the call    *)
(* reads is a record `view`:                                               *)
(*   connection  the Secret named by connectionSecret                      *)
(*   cluster     the RabbitmqCluster named by the reference                *)
(*   store       answer of the Vault client                                *)
(*   userSecret  answer to the read of the default-user Secret             *)
(*   service     answer to the read of the Service, and its ports          *)
(* A read answers "found", "notFound" or "failed".                         *)
(***************************************************************************)
EXTENDS Integers

ParseErrors == {"none", "NoSuchRabbitmqCluster", "ResourceNotAllowed",
                "ClusterScaledToZero", "Other"}

Fail(err) == [err |-> err, tls |-> FALSE]
Connect(tls) == [err |-> "none", tls |-> tls]

\* A reference to another namespace needs that namespace's permission: the
\* annotation topology-allowed-namespaces of the cluster or of the Secret, here
\* the set of names in its comma separated list ({} when it is absent).
AllowedNamespace(rmq, requestNamespace, allowedNamespaces) ==
  rmq.namespace \notin {"", requestNamespace}
     => allowedNamespaces \cap {requestNamespace, "*"} # {}

\* extractURIandScheme: a URI without a scheme gets http; only https means TLS.
ExtractURIandScheme(uri) ==
  IF uri = "malformed" THEN Fail("Other") ELSE Connect(uri = "https")

\* readCredentialsFromKubernetesSecret: only the key uri is required.
ReadCredentials(secret) ==
  IF secret.uri = "missing" THEN Fail("Other") ELSE ExtractURIandScheme(secret.uri)

\* The branch for references that name a connectionSecret.  Every error of the
\* read, NotFound included, is returned as it is.
ParseConnectionSecret(rmq, requestNamespace, secret) ==
  IF secret.read # "found" THEN Fail("Other")
  ELSE IF ~AllowedNamespace(rmq, requestNamespace, secret.allowed)
       THEN Fail("ResourceNotAllowed")
  ELSE ReadCredentials(secret)

\* Credentials of the default user: from Vault when the cluster names a path
\* there, else from the Secret in status.binding, whose absence is reported as
\* the absence of the cluster.
DefaultUserError(view) ==
  IF view.cluster.vault
  THEN IF view.store = "found" THEN "none" ELSE "Other"
  ELSE IF ~view.cluster.binding THEN "Other"
  ELSE CASE view.userSecret = "found"    -> "none"
         [] view.userSecret = "notFound" -> "NoSuchRabbitmqCluster"
         [] view.userSecret = "failed"   -> "Other"

\* TLS is used when the cluster has it, unless the operator prefers plain HTTP
\* and the cluster still has a plain listener.
UseTLS(cluster, connectUsingHTTP) ==
  cluster.tls /\ (~connectUsingHTTP \/ cluster.disableNonTLSListeners)

\* managementURI: the Service must have the port of the chosen scheme.
ManagementURI(service, tls) ==
  LET portName == IF tls THEN "management-tls" ELSE "management"
  IN IF portName \in service.ports THEN Connect(tls) ELSE Fail("Other")

\* The Service of the cluster, unless an annotation overrides the URI.
Endpoint(view, connectUsingHTTP) ==
  IF view.cluster.uri # "missing" THEN ExtractURIandScheme(view.cluster.uri)
  ELSE CASE view.service.read = "notFound" -> Fail("NoSuchRabbitmqCluster")
         [] view.service.read = "failed"   -> Fail("Other")
         [] view.service.read = "found"    ->
              IF ~view.cluster.additionalConfig THEN Fail("Other")
              ELSE ManagementURI(view.service, UseTLS(view.cluster, connectUsingHTTP))

\* ParseReference.  A nil spec.replicas is not a request for zero replicas; every
\* error of the read of the cluster counts as "no such cluster".
ParseReference(rmq, requestNamespace, connectUsingHTTP, view) ==
  LET cluster == view.cluster IN
  IF rmq.connectionSecret
  THEN ParseConnectionSecret(rmq, requestNamespace, view.connection)
  ELSE IF cluster.read # "found" THEN Fail("NoSuchRabbitmqCluster")
  ELSE IF ~AllowedNamespace(rmq, requestNamespace, cluster.allowed)
       THEN Fail("ResourceNotAllowed")
  ELSE IF cluster.replicas = 0 THEN Fail("ClusterScaledToZero")
  ELSE IF ~cluster.serviceReference THEN Fail("Other")
  ELSE IF DefaultUserError(view) # "none" THEN Fail(DefaultUserError(view))
  ELSE Endpoint(view, connectUsingHTTP)
================================================================================
