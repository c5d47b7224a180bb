----------------------------- MODULE MCStartup ------------------------------
(* Small configurations for Startup: directives of the main server and of  *)
(* virtual hosts, sections with several directives, files that are missing,*)
(* code that fails, and an RFileEval without an expression.                *)
EXTENDS Startup, TLC

CONSTANTS f1, pkg, c1, c2, c3

Line(cmd, server, section, file, p, code, there) ==
  [cmd |-> cmd, server |-> server, section |-> section, file |-> file, pkg |-> p,
   code |-> code, there |-> there]
Source(server, code, there) == Line("RSourceOnStartup", server, Null, Null, Null, code, there)
EvalNow(server, code) == Line("REvalOnStartup", server, Null, Null, Null, code, TRUE)
RHandler(server, p, code) == Line("RHandler", server, "loc", Null, p, code, TRUE)
RFileHandler(code, there) == Line("RFileHandler", "main", "loc", f1, Null, code, there)
REval(p, code) == Line("REval", "main", "dir", Null, p, code, TRUE)
RFileEval(p, code, there) == Line("RFileEval", "vhost", "dir", f1, p, code, there)

MCConfigs ==
  { <<Source("main", c1, TRUE), EvalNow("main", c2), Source("vhost", c3, TRUE)>>,
    <<Source("vhost", c1, TRUE), Source("main", c2, TRUE)>>,
    <<Source("main", c1, FALSE)>>,
    <<Source("vhost", c1, FALSE), EvalNow("vhost", c2)>>,
    <<EvalNow("main", c1), EvalNow("vhost", Bad), Source("main", c2, TRUE)>>,
    <<RHandler("vhost", pkg, c1), RFileHandler(Null, TRUE), REval(pkg, c2)>>,
    <<RHandler("main", Null, c1), REval(Null, Bad)>>,
    <<RFileHandler(c1, FALSE)>>,
    <<RFileEval(pkg, c1, TRUE), RFileHandler(c2, TRUE), Source("vhost", c3, TRUE)>>,
    <<RFileEval(Null, c1, FALSE)>>,
    <<RFileEval(Null, Null, TRUE)>> }
Perms == Permutations(Children)
=============================================================================
