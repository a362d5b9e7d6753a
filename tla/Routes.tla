------------------------------- MODULE Routes -------------------------------
(***************************************************************************)
(* What the decorators of the controllers ask of a request before a handler*)
(* runs: the permission it needs, the tier of its rate limit, and whether a*)
(* response is kept for its Idempotency-Key. One definition per controller *)
(* (two for the long ones). HttpPipeline sends requests through these      *)
(* guards, AccessRoles holds tokens against what they need.                *)
(***************************************************************************)
Needing(needs, names) ==
    {[name |-> n, needs |-> needs, tier |-> "DEFAULT", idempotent |-> FALSE] : n \in names}

Public(names) == Needing("nothing", names)
Auth(names) == Needing("token", names)
RateLimit(tier, routes) == {[r EXCEPT !.tier = tier] : r \in routes}
UseIdempotency(routes) == {[r EXCEPT !.idempotent = TRUE] : r \in routes}

-----------------------------------------------------------------------------
AuthRoutes ==
    RateLimit("AUTH_LOGIN", Public({"POST auth/login", "POST auth/signup", "POST auth/sso"}))
    \cup RateLimit("AUTH_REFRESH", Public({"POST auth/refresh"}) \cup Auth({"POST auth/switch-tenant"}))

AccountRoutes ==
    Auth({"POST auth/logout", "GET auth/me", "PATCH auth/me", "PATCH auth/password", "POST auth/logout-all"})
    \cup RateLimit("AUTH_FORGOT",
             UseIdempotency(Public({"POST auth/forgot-password"}))
             \cup Public({"GET auth/verify-reset-token", "POST auth/reset-password"}))

TenantRoutes == Auth({"GET tenants/:id"})

WorkspaceRoutes ==
    Auth({"GET workspaces", "POST workspaces", "GET workspaces/:id", "GET workspaces/:id/members",
          "GET workspaces/:id/members-with-profile"})
    \cup Needing("workspace:*", {"PATCH workspaces/:id", "DELETE workspaces/:id"})
    \cup Needing("workspace:manage_members", {"POST workspaces/:id/members"})

MembershipRoutes ==
    Needing("workspace:manage_members",
        {"PATCH workspaces/:id/members/:memberId", "DELETE workspaces/:id/members/:userId",
         "DELETE workspaces/:id/invitations/:invitationId"})
    \cup RateLimit("STRICT",
             UseIdempotency(Needing("workspace:manage_members", {"POST workspaces/:id/invitations"}))
             \cup Auth({"POST invitations/accept"}))
    \cup Auth({"GET workspaces/:id/invitations", "GET workspaces/:id/settings"})
    \cup Needing("workspace:*", {"PATCH workspaces/:id/settings"})

TeamRoutes ==
    Auth({"GET workspaces/:workspaceId/teams", "POST workspaces/:workspaceId/teams", "GET teams/:id",
          "PATCH teams/:id", "GET teams/:id/members", "POST teams/:id/members",
          "DELETE teams/:id/members/:userId"})

AccessRoutes ==
    Auth({"GET roles", "GET users/:userId/role-assignments"})
    \cup Needing("workspace:manage_members", {"POST role-assignments", "DELETE role-assignments/:id"})

ProjectRoutes ==
    Auth({"GET projects", "GET projects/:id", "GET projects/:id/statuses", "GET projects/:id/transitions"})
    \cup Needing("project:create", {"POST projects"})
    \cup Needing("project:edit", {"PATCH projects/:id"})
    \cup Needing("project:archive", {"POST projects/:id/archive"})
    \cup Needing("project:restore", {"POST projects/:id/restore"})
    \cup Needing("project:delete", {"DELETE projects/:id"})

ProjectLabelRoutes ==
    Auth({"GET projects/:id/labels"})
    \cup Needing("project:edit", {"POST projects/:id/labels", "PATCH projects/:id/labels/:labelId",
                                  "DELETE projects/:id/labels/:labelId"})

ProjectMemberRoutes ==
    Auth({"GET projects/:id/teams", "GET projects/:id/members"})
    \cup Needing("project:edit", {"POST projects/:id/teams", "DELETE projects/:id/teams/:teamId"})
    \cup Needing("project:manage_members",
             {"POST projects/:id/members", "PATCH projects/:id/members/:memberId",
              "DELETE projects/:id/members/:userId"})

WorkflowRoutes ==
    Needing("project:edit",
        {"POST projects/:projectId/statuses", "PATCH projects/:projectId/statuses/reorder",
         "DELETE projects/:projectId/statuses/:statusId", "POST projects/:projectId/transitions",
         "DELETE projects/:projectId/transitions/:transitionId"})

SprintRoutes ==
    Auth({"GET sprints", "GET sprints/:id"})
    \cup Needing("sprint:manage", {"POST sprints", "PATCH sprints/:id", "DELETE sprints/:id",
                                   "POST sprints/:id/start", "POST sprints/:id/complete"})

ReleaseRoutes ==
    Auth({"GET releases", "GET releases/:id"})
    \cup Needing("release:manage", {"POST releases", "PATCH releases/:id", "DELETE releases/:id",
                                    "POST releases/:id/ship"})

WorkItemRoutes ==
    Auth({"GET work-items", "GET work-items/backlog", "GET work-items/:id"})
    \cup Needing("work_item:create", {"POST work-items"})
    \cup Needing("work_item:edit", {"PATCH work-items/:id"})
    \cup Needing("work_item:delete", {"DELETE work-items/:id"})

BacklogRoutes ==
    Needing("work_item:edit", {"PATCH work-items/:id/move", "PATCH work-items/reorder",
                               "POST work-items/:id/labels", "DELETE work-items/:id/labels/:labelId"})
    \cup Needing("work_item:create", {"POST work-items/:id/tasks"})
    \cup Auth({"GET work-items/:id/tasks", "GET work-items/:id/tasks/totals", "GET work-items/:id/activity",
               "GET work-items/:id/labels"})

TimeLogRoutes ==
    UseIdempotency(Auth({"POST work-items/:id/time-logs"}))
    \cup Auth({"GET work-items/:id/time-logs", "PATCH work-items/:id/time-logs/:logId",
               "DELETE work-items/:id/time-logs/:logId", "GET work-items/:id/watchers",
               "POST work-items/:id/watchers", "DELETE work-items/:id/watchers"})

AttachmentRoutes ==
    RateLimit("STRICT", Auth({"POST work-items/:id/attachments/presign"}))
    \cup Auth({"POST work-items/:id/attachments/:aid/confirm", "GET work-items/:id/attachments",
               "GET work-items/:id/attachments/:aid/download", "DELETE work-items/:id/attachments/:aid"})

CommentRoutes ==
    Auth({"GET work-items/:workItemId/comments", "POST work-items/:workItemId/comments",
          "PATCH work-items/:workItemId/comments/:commentId",
          "DELETE work-items/:workItemId/comments/:commentId"})

NotificationRoutes ==
    Auth({"GET notifications/unread-count", "GET notifications", "POST notifications/:id/read",
          "POST notifications/read-all"})

StreamRoutes == Auth({"GET notifications/stream"})

PreferenceRoutes ==
    Auth({"GET notifications/preferences", "PUT notifications/preferences/:type",
          "DELETE notifications/preferences/:type"})

ReportRoutes == Auth({"GET reports/sprints/:sprintId/burndown", "GET reports/projects/:projectId/velocity"})
AuditRoutes == Auth({"GET audit-logs"})

(* @SkipRateLimit().                                                       *)
HealthRoutes == RateLimit("skip", Public({"GET healthz", "GET readyz"}))

Routes ==
    AuthRoutes \cup AccountRoutes \cup TenantRoutes \cup WorkspaceRoutes \cup MembershipRoutes
    \cup TeamRoutes \cup AccessRoutes \cup ProjectRoutes \cup ProjectLabelRoutes
    \cup ProjectMemberRoutes \cup WorkflowRoutes \cup SprintRoutes \cup ReleaseRoutes
    \cup WorkItemRoutes \cup BacklogRoutes \cup TimeLogRoutes \cup AttachmentRoutes
    \cup CommentRoutes \cup NotificationRoutes \cup StreamRoutes \cup PreferenceRoutes
    \cup ReportRoutes \cup AuditRoutes \cup HealthRoutes

-----------------------------------------------------------------------------
(* Permissions of the system roles, as the seed writes them.               *)
Permissions(role) ==
    CASE role = "workspace_admin" ->
            {"workspace:*", "project:view", "project:create", "project:edit", "project:archive",
             "project:restore", "project:delete", "work_item:create", "work_item:edit",
             "work_item:delete", "work_item:view"}
      [] role = "project_admin" ->
            {"project:view", "project:create", "project:edit", "project:archive", "project:restore",
             "work_item:create", "work_item:edit", "work_item:delete", "work_item:view"}
      [] role = "project_member" -> {"work_item:create", "work_item:edit", "work_item:view"}
      [] role = "project_viewer" -> {"work_item:view"}
      [] role = "workspace_member" -> {"workspace:view", "project:view"}
      [] role = "guest" -> {"work_item:view:public"}

SystemRoles == {"workspace_admin", "project_admin", "project_member", "project_viewer", "workspace_member", "guest"}

(* PermissionGuard: "Workspace wildcard grants everything".                *)
Grants(permissions, needs) ==
    needs \in {"nothing", "token"} \/ "workspace:*" \in permissions \/ needs \in permissions
=============================================================================
