------------------------------- MODULE MCContext -------------------------------
(* A field the application sets, a matrix that changes at run time, header   *)
(* maps of two services that write the same names in different cases.        *)
EXTENDS Context

OutboundMap == [tenantId |-> "X-Tenant", corr |-> "X-Correlation-ID"]
InboundMap  == [tenantId |-> "x-Tenant", corr |-> "X-Correlation-Id"]
InLowerCase == ("X-Tenant" :> "x-tenant") @@ ("x-Tenant" :> "x-tenant")
   @@ ("X-Correlation-ID" :> "x-correlation-id") @@ ("X-Correlation-Id" :> "x-correlation-id")

IdsOnError == [error |-> {"correlationId"}, default |-> {"tenantId"}]
Everything == [error |-> {"*"}]
AllMatrices == {NoMatrix, IdsOnError, Everything}
================================================================================
