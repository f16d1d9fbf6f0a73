----------------------------- MODULE Operations -----------------------------
(***************************************************************************)
(* The methods of src/client.ts that make one request each, described by   *)
(* what their requests have in common: how they are sent and how an answer *)
(* becomes a value or an error (RequestPath).  Which member of an answer   *)
(* becomes which field is left out.                                        *)
(***************************************************************************)

(***************************************************************************)
(* A method sends through policyRequest ("policy"), orchestratorRequest,   *)
(* portalRequest or portalRequestText, or has a path of its own.  It       *)
(* returns the body whatever it is ("any"), falls back to an empty object  *)
(* ("default"), reads members of it, so that it needs a body ("members"),  *)
(* or reads inside a member, which then has to be there ("inside").        *)
(***************************************************************************)
Method(via, reads) == [via |-> via, reads |-> reads, guarded |-> FALSE, scoped |-> "no",
                       keyed |-> "route", rescued |-> FALSE]

\* Refuses to send without its id, or another argument it needs.
Guarded(m) == [m EXCEPT !.guarded = TRUE]
\* The id is filled into a template, or interpolated into the path.
AtTemplate(m) == [m EXCEPT !.keyed = "template"]
WithId(m) == [m EXCEPT !.keyed = "id"]
\* Reads what a scope on the caller's identity may hide: one row or a page of them.
Scoped(m, what) == [m EXCEPT !.scoped = what]
\* Looks for an idempotency mismatch behind the error.
Rescued(m) == [m EXCEPT !.rescued = TRUE]

Health == [healthCheck |-> Method("health", "any"),
           orchestratorHealthCheck |-> Method("health", "any")]

ProxyMode == [proxyLLMCall |-> Method("proxy", "members")]

Providers == [listConnectors |-> Method("orchestrator", "members"),
              listProviders |-> Method("orchestrator", "members"),
              listProvidersPaged |-> Method("orchestrator", "members")]

Connectors == [installConnector |-> WithId(Method("orchestrator", "any")),
               uninstallConnector |-> WithId(Method("orchestrator", "any")),
               getConnector |-> WithId(Method("orchestrator", "any")),
               getConnectorHealth |-> WithId(Method("orchestrator", "any"))]

ConnectorQueries == [queryConnector |-> Method("connector", "members"),
                     mcpQuery |-> Guarded(Method("mcp", "members")),
                     mcpExecute |-> Guarded(Method("mcp", "members"))]

Checks == [mcpCheckInput |-> Method("check", "any"), mcpCheckOutput |-> Method("check", "any"),
           checkToolInput |-> Method("check", "any"), checkToolOutput |-> Method("check", "any")]

PlanRuns == [generatePlan |-> Method("planGenerate", "members"),
             executePlan |-> Method("planExecute", "members")]

PlanChanges == [getPlanStatus |-> Method("planStatus", "members"),
                cancelPlan |-> Method("plan", "members"),
                updatePlan |-> Method("planUpdate", "members")]

PlanHistory == [getPlanVersions |-> Method("plan", "members"),
                resumePlan |-> Method("plan", "members")]

PlanRollback == [rollbackPlan |-> Method("plan", "members")]

GatewayMode == [preCheck |-> Method("gateway", "members"),
                getPolicyApprovedContext |-> Method("gateway", "members")]

Audits == [auditLLMCall |-> Method("gateway", "members"),
           auditToolCall |-> Guarded(Method("orchestrator", "members"))]

CircuitBreaker == [getCircuitBreakerStatus |-> Method("orchestrator", "inside"),
                   getCircuitBreakerHistory |-> Method("orchestrator", "inside"),
                   getCircuitBreakerConfig |-> Method("orchestrator", "inside")]

CircuitBreakerUpdate == [updateCircuitBreakerConfig |-> Guarded(Method("orchestrator", "inside"))]

PolicyAnalysis == [simulatePolicies |-> Method("orchestrator", "any"),
                   getPolicyImpactReport |-> Method("orchestrator", "any"),
                   detectPolicyConflicts |-> Method("orchestrator", "any")]

DecisionReads ==
    [explainDecision |-> Scoped(Guarded(WithId(Method("orchestrator", "default"))), "row"),
     listDecisions |-> Scoped(Method("decisions", "members"), "page")]

AuditReads ==
    [searchAuditLogs |-> Scoped(Method("orchestrator", "members"), "page"),
     getAuditLogsByTenant |-> Scoped(Guarded(WithId(Method("orchestrator", "members"))), "page")]

-----------------------------------------------------------------------------

StaticPolicies == [listStaticPolicies |-> Method("policy", "members"),
                   getStaticPolicy |-> AtTemplate(Method("policy", "any")),
                   createStaticPolicy |-> Method("policy", "any"),
                   updateStaticPolicy |-> AtTemplate(Method("policy", "any")),
                   deleteStaticPolicy |-> AtTemplate(Method("policy", "any")),
                   toggleStaticPolicy |-> AtTemplate(Method("policy", "any"))]

StaticPolicyViews == [getEffectiveStaticPolicies |-> Method("policy", "members"),
                      testPattern |-> Method("policy", "any"),
                      getStaticPolicyVersions |-> AtTemplate(Method("policy", "inside"))]

PolicyOverrides == [createPolicyOverride |-> AtTemplate(Method("policy", "any")),
                    deletePolicyOverride |-> AtTemplate(Method("policy", "any")),
                    listPolicyOverrides |-> Method("policy", "members")]

DynamicPolicies == [listDynamicPolicies |-> Method("orchestrator", "members"),
                    getDynamicPolicy |-> AtTemplate(Method("orchestrator", "members")),
                    createDynamicPolicy |-> Method("orchestrator", "members"),
                    updateDynamicPolicy |-> AtTemplate(Method("orchestrator", "members")),
                    deleteDynamicPolicy |-> AtTemplate(Method("orchestrator", "any"))]

DynamicPolicyViews == [toggleDynamicPolicy |-> AtTemplate(Method("orchestrator", "members")),
                       getEffectiveDynamicPolicies |-> Method("orchestrator", "members")]

TypedPolicies == [edition |-> Method("typed", "members"), validate |-> Method("typed", "members"),
                  publish |-> Method("typed", "inside"), activate |-> Method("typed", "members"),
                  active |-> Method("typedActive", "members"),
                  system |-> Method("typed", "members")]

GitProviders == [validateGitProvider |-> Method("portal", "any"),
                 configureGitProvider |-> Method("portal", "any"),
                 listGitProviders |-> Method("portal", "any"),
                 deleteGitProvider |-> Method("portal", "any")]

PullRequests == [createPR |-> Method("portal", "members"), listPRs |-> Method("portal", "members")]

PullRequestStates == [getPR |-> Method("portal", "members"), closePR |-> Method("portal", "members"),
                      syncPRStatus |-> Method("portal", "members")]

GovernanceReports == [getCodeGovernanceMetrics |-> Method("portal", "members"),
                      exportCodeGovernanceData |-> Method("portal", "members"),
                      exportCodeGovernanceDataCSV |-> Method("portalText", "any")]

-----------------------------------------------------------------------------

ExecutionReplays == [listExecutions |-> Method("orchestrator", "members"),
                     getExecution |-> WithId(Method("orchestrator", "inside"))]

ExecutionSteps == [getExecutionSteps |-> WithId(Method("orchestrator", "inside")),
                   getExecutionTimeline |-> WithId(Method("orchestrator", "inside")),
                   exportExecution |-> WithId(Method("orchestrator", "any")),
                   deleteExecution |-> WithId(Method("orchestrator", "any"))]

Budgets == [createBudget |-> Method("orchestrator", "members"),
            getBudget |-> WithId(Method("orchestrator", "members")),
            listBudgets |-> Method("orchestrator", "members"),
            updateBudget |-> WithId(Method("orchestrator", "members")),
            deleteBudget |-> WithId(Method("orchestrator", "any")),
            getBudgetStatus |-> WithId(Method("orchestrator", "members"))]

BudgetChecks == [getBudgetAlerts |-> WithId(Method("orchestrator", "members")),
                 checkBudget |-> Method("orchestrator", "members")]

Usage == [getUsageSummary |-> Method("orchestrator", "members"),
          getUsageBreakdown |-> Method("orchestrator", "members"),
          listUsageRecords |-> Method("orchestrator", "members"),
          getPricing |-> Method("orchestrator", "members")]

OfWorkflow(reads) == Guarded(WithId(Method("orchestrator", reads)))

Workflows == [createWorkflow |-> Method("orchestrator", "any"),
              getWorkflow |-> OfWorkflow("any"), stepGate |-> Rescued(OfWorkflow("any")),
              completeWorkflow |-> OfWorkflow("any"), abortWorkflow |-> OfWorkflow("any")]

WorkflowResumption == [failWorkflow |-> OfWorkflow("any"),
                       markStepCompleted |-> Rescued(OfWorkflow("any")),
                       resumeWorkflow |-> OfWorkflow("any"), getCheckpoints |-> OfWorkflow("any"),
                       resumeFromLastCheckpoint |-> OfWorkflow("any"),
                       resumeFromCheckpoint |-> OfWorkflow("any")]

WorkflowApprovals == [listWorkflows |-> Method("orchestrator", "any"),
                      approveStep |-> OfWorkflow("any"), rejectStep |-> OfWorkflow("any"),
                      getPendingApprovals |-> Method("orchestrator", "any")]

PlanApprovals == [getPendingPlanApprovals |-> Method("orchestrator", "any")]

Webhooks == [createWebhook |-> Method("orchestrator", "any"), getWebhook |-> OfWorkflow("any"),
             updateWebhook |-> OfWorkflow("any"), deleteWebhook |-> OfWorkflow("any"),
             listWebhooks |-> Method("orchestrator", "any")]

UnifiedExecutions == [getExecutionStatus |-> OfWorkflow("any"),
                      listUnifiedExecutions |-> Method("orchestrator", "any"),
                      cancelExecution |-> OfWorkflow("any")]

HITLQueue == [listHITLQueue |-> Method("orchestrator", "members"),
              createHITLRequest |-> Guarded(Method("orchestrator", "members")),
              getHITLRequest |-> OfWorkflow("members")]

HITLReviews == [approveHITLRequest |-> OfWorkflow("any"), rejectHITLRequest |-> OfWorkflow("any"),
                getHITLStats |-> Method("orchestrator", "members")]

MediaGovernance == [getMediaGovernanceConfig |-> Method("orchestrator", "members"),
                    updateMediaGovernanceConfig |-> Method("orchestrator", "members"),
                    getMediaGovernanceStatus |-> Method("orchestrator", "members")]

AISystems == [registerSystem |-> Method("masfeat", "members"),
              getSystem |-> Method("masfeat", "members"),
              updateSystem |-> Method("masfeat", "members"),
              listSystems |-> Method("masfeat", "inside")]

AISystemStates == [activateSystem |-> Method("masfeat", "members"),
                   retireSystem |-> Method("masfeat", "members"),
                   getRegistrySummary |-> Method("masfeat", "members")]

Assessments == [createAssessment |-> Method("masfeat", "members"),
                getAssessment |-> Method("masfeat", "members"),
                updateAssessment |-> Method("masfeat", "members"),
                listAssessments |-> Method("masfeat", "inside")]

AssessmentReviews == [submitAssessment |-> Method("masfeat", "members"),
                      approveAssessment |-> Method("masfeat", "members"),
                      rejectAssessment |-> Method("masfeat", "members")]

KillSwitches == [getKillSwitch |-> Method("masfeat", "members"),
                 configureKillSwitch |-> Method("masfeat", "members"),
                 checkKillSwitch |-> Method("masfeat", "members"),
                 triggerKillSwitch |-> Method("masfeat", "members"),
                 restoreKillSwitch |-> Method("masfeat", "members")]

KillSwitchStates == [enableKillSwitch |-> Method("masfeat", "members"),
                     disableKillSwitch |-> Method("masfeat", "members"),
                     getKillSwitchHistory |-> Method("masfeat", "inside")]

DescribedBy(methods) == {methods[name] : name \in DOMAIN methods}

Methods ==
    DescribedBy(Health) \cup DescribedBy(ProxyMode) \cup DescribedBy(Providers)
    \cup DescribedBy(Connectors) \cup DescribedBy(ConnectorQueries) \cup DescribedBy(Checks)
    \cup DescribedBy(PlanRuns) \cup DescribedBy(PlanChanges) \cup DescribedBy(PlanHistory)
    \cup DescribedBy(PlanRollback) \cup DescribedBy(GatewayMode) \cup DescribedBy(Audits)
    \cup DescribedBy(CircuitBreaker) \cup DescribedBy(CircuitBreakerUpdate)
    \cup DescribedBy(PolicyAnalysis) \cup DescribedBy(DecisionReads) \cup DescribedBy(AuditReads)
    \cup DescribedBy(StaticPolicies) \cup DescribedBy(StaticPolicyViews)
    \cup DescribedBy(PolicyOverrides) \cup DescribedBy(DynamicPolicies)
    \cup DescribedBy(DynamicPolicyViews) \cup DescribedBy(TypedPolicies)
    \cup DescribedBy(GitProviders) \cup DescribedBy(PullRequests)
    \cup DescribedBy(PullRequestStates) \cup DescribedBy(GovernanceReports)
    \cup DescribedBy(ExecutionReplays) \cup DescribedBy(ExecutionSteps) \cup DescribedBy(Budgets)
    \cup DescribedBy(BudgetChecks) \cup DescribedBy(Usage) \cup DescribedBy(Workflows)
    \cup DescribedBy(WorkflowResumption) \cup DescribedBy(WorkflowApprovals)
    \cup DescribedBy(PlanApprovals) \cup DescribedBy(Webhooks) \cup DescribedBy(UnifiedExecutions)
    \cup DescribedBy(HITLQueue) \cup DescribedBy(HITLReviews) \cup DescribedBy(MediaGovernance)
    \cup DescribedBy(AISystems) \cup DescribedBy(AISystemStates) \cup DescribedBy(Assessments)
    \cup DescribedBy(AssessmentReviews) \cup DescribedBy(KillSwitches)
    \cup DescribedBy(KillSwitchStates)
=============================================================================
